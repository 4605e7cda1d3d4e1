--------------------------- MODULE ServicesProofs ---------------------------
(***************************************************************************)
(* The services around the executor, proved for any number of threads,      *)
(* workspaces, hooks, lines and steps.  No service moves another's state,   *)
(* so each is proved from its own inductive invariant, and carried over to  *)
(* the composition by the Interleaving lemmas.                              *)
(***************************************************************************)
EXTENDS Services, FiniteSetTheorems, SequenceTheorems, TLAPS

(***************************************************************************)
(* Listings of a finite set                                                *)
(***************************************************************************)

\* A strict total order, given as the set of its pairs.
StrictlyOrders(R, S) ==
    /\ \A x \in S : <<x, x>> \notin R
    /\ \A x, y, z \in S : <<x, y>> \in R /\ <<y, z>> \in R => <<x, z>> \in R
    /\ \A x, y \in S : x /= y => <<x, y>> \in R \/ <<y, x>> \in R

\* The elements before x.
Before(R, S, x) == {y \in S : <<y, x>> \in R}

\* A finite set has a listing in any strict total order: an element's place is
\* one more than the number of elements before it.
LEMMA ListingExists ==
    ASSUME NEW S, IsFiniteSet(S), NEW R, StrictlyOrders(R, S)
    PROVE  \E s \in SetToSeqs(S) :
              \A i, j \in DOMAIN s : i < j => <<s[i], s[j]>> \in R
<1>. DEFINE n == Cardinality(S)
            place == [x \in S |-> Cardinality(Before(R, S, x)) + 1]
<1>1. n \in Nat /\ IsFiniteSet(1 .. n) /\ Cardinality(1 .. n) = n
  <2>1. n \in Nat
    BY FS_CardinalityType
  <2>. HIDE DEF n
  <2>. QED
    BY <2>1, FS_Interval
<1>2. ASSUME NEW x \in S
      PROVE  /\ IsFiniteSet(Before(R, S, x)) /\ Cardinality(Before(R, S, x)) \in Nat
             /\ Cardinality(Before(R, S, x)) < n
  <2>1. Before(R, S, x) \in SUBSET S /\ x \notin Before(R, S, x)
    BY DEF Before, StrictlyOrders
  <2>2. /\ IsFiniteSet(Before(R, S, x))
        /\ Cardinality(Before(R, S, x)) <= n
        /\ Cardinality(Before(R, S, x)) /= n
    BY <2>1, FS_Subset
  <2>3. Cardinality(Before(R, S, x)) \in Nat
    BY <2>2, FS_CardinalityType
  <2>. HIDE DEF n
  <2>. QED
    BY <1>1, <2>2, <2>3
<1>3. ASSUME NEW x \in S, NEW y \in S, <<x, y>> \in R
      PROVE  place[x] < place[y]
  <2>1. Before(R, S, x) \in SUBSET Before(R, S, y)
    BY <1>3 DEF Before, StrictlyOrders
  <2>2. x \in Before(R, S, y) /\ x \notin Before(R, S, x)
    BY <1>3 DEF Before, StrictlyOrders
  <2>3. /\ Cardinality(Before(R, S, x)) <= Cardinality(Before(R, S, y))
        /\ Cardinality(Before(R, S, x)) /= Cardinality(Before(R, S, y))
    BY <1>2, <2>1, <2>2, FS_Subset
  <2>4. Cardinality(Before(R, S, x)) \in Nat /\ Cardinality(Before(R, S, y)) \in Nat
    BY <1>2
  <2>. QED
    BY <2>3, <2>4
<1>4. place \in [S -> 1 .. n]
  <2>1. \A x \in S : Cardinality(Before(R, S, x)) + 1 \in 1 .. n
    BY <1>1, <1>2
  <2>. QED
    BY <2>1
<1>. HIDE DEF place
<1>5. \A x, y \in S : place[x] = place[y] => x = y
  <2>1. ASSUME NEW x \in S, NEW y \in S, x /= y PROVE place[x] /= place[y]
    <3>1. <<x, y>> \in R \/ <<y, x>> \in R
      BY <2>1 DEF StrictlyOrders
    <3>2. place[x] \in Int /\ place[y] \in Int
      BY <1>1, <1>4
    <3>. QED
      BY <1>3, <3>1, <3>2
  <2>. QED
    BY <2>1
<1>6. place \in Injection(S, 1 .. n)
  BY <1>4, <1>5 DEF Injection, IsInjective
<1>7. place \in Surjection(S, 1 .. n)
  BY <1>1, <1>6, FS_Injection
<1>8. \A i \in 1 .. n : \E x \in S : place[x] = i
  BY <1>7 DEF Surjection
<1>. DEFINE s == [i \in 1 .. n |-> CHOOSE x \in S : place[x] = i]
<1>9. \A i \in 1 .. n : s[i] \in S /\ place[s[i]] = i
  BY <1>8
<1>10. s \in [1 .. n -> S] /\ DOMAIN s = 1 .. n
  BY <1>9
<1>. HIDE DEF s
<1>11. s \in SetToSeqs(S)
  BY <1>9, <1>10 DEF SetToSeqs
<1>12. ASSUME NEW i \in 1 .. n, NEW j \in 1 .. n, i < j
       PROVE  <<s[i], s[j]>> \in R
  <2>1. s[i] \in S /\ s[j] \in S /\ place[s[i]] = i /\ place[s[j]] = j
    BY <1>9
  <2>2. i \in Int /\ j \in Int
    BY <1>1
  <2>3. s[i] /= s[j]
    BY <1>12, <2>1, <2>2
  <2>4. <<s[j], s[i]>> \notin R
    BY <1>3, <1>12, <2>1, <2>2
  <2>. QED
    BY <2>1, <2>3, <2>4 DEF StrictlyOrders
<1>. QED
  BY <1>10, <1>11, <1>12

\* A listing lists every element, and only elements.
LEMMA ListingCovers ==
    ASSUME NEW S, IsFiniteSet(S), NEW s \in SetToSeqs(S)
    PROVE  /\ s \in Seq(S) /\ Len(s) = Cardinality(S) /\ Cardinality(S) \in Nat
           /\ \A x \in S : \E i \in 1 .. Len(s) : s[i] = x
<1>. DEFINE n == Cardinality(S)
<1>1. n \in Nat
  BY FS_CardinalityType
<1>2. s \in [1 .. n -> S] /\ \A i, j \in 1 .. n : i /= j => s[i] /= s[j]
  BY DEF SetToSeqs
<1>. HIDE DEF n
<1>3. s \in Seq(S) /\ Len(s) = n
  BY <1>1, <1>2
<1>4. IsFiniteSet(1 .. n) /\ Cardinality(1 .. n) = n
  BY <1>1, FS_Interval
<1>5. s \in Injection(1 .. n, S)
  BY <1>2 DEF Injection, IsInjective
<1>6. Cardinality(S) = Cardinality(1 .. n)
  BY <1>4 DEF n
<1>7. s \in Surjection(1 .. n, S)
  BY <1>5, <1>6, FS_Injection
<1>. QED
  BY <1>1, <1>3, <1>7 DEF Surjection, n

(***************************************************************************)
(* The bounded memory                                                      *)
(***************************************************************************)

\* The bytes of the rows in D, one pair for each.
Bytes(rows, D) == UNION {{i} \X (1 .. rows[i].size) : i \in D}

\* Counting bytes is additive.
LEMMA BytesAdd ==
    ASSUME NEW D, IsFiniteSet(D), NEW rows, \A i \in D : rows[i].size \in Nat
    PROVE  /\ IsFiniteSet(Bytes(rows, D)) /\ Cardinality(Bytes(rows, D)) \in Nat
           /\ D = {} => Cardinality(Bytes(rows, D)) = 0
           /\ \A x \in D : /\ Cardinality(Bytes(rows, D \ {x})) \in Nat
                           /\ Cardinality(Bytes(rows, D)) =
                                rows[x].size + Cardinality(Bytes(rows, D \ {x}))
<1>. DEFINE Block(i) == {i} \X (1 .. rows[i].size)
<1>1. \A i \in D : IsFiniteSet(Block(i)) /\ Cardinality(Block(i)) = rows[i].size
  <2>. SUFFICES ASSUME NEW i \in D
                PROVE  IsFiniteSet(Block(i)) /\ Cardinality(Block(i)) = rows[i].size
    OBVIOUS
  <2>1. rows[i].size \in Nat
    OBVIOUS
  <2>2. IsFiniteSet({i}) /\ Cardinality({i}) = 1
    BY FS_Singleton
  <2>. DEFINE n == rows[i].size
  <2>. HIDE DEF n
  <2>3. IsFiniteSet(1 .. n) /\ Cardinality(1 .. n) = n
    <3>1. n \in Nat
      BY <2>1 DEF n
    <3>. QED
      BY <3>1, FS_Interval
  <2>4. /\ IsFiniteSet({i} \X (1 .. rows[i].size))
        /\ Cardinality({i} \X (1 .. rows[i].size)) = 1 * rows[i].size
    BY <2>2, <2>3, FS_Product DEF n
  <2>. QED
    BY <2>1, <2>4
<1>. HIDE DEF Block
<1>2. ASSUME NEW E \in SUBSET D
      PROVE  IsFiniteSet(Bytes(rows, E)) /\ Cardinality(Bytes(rows, E)) \in Nat
  <2>1. IsFiniteSet(E)
    BY FS_Subset
  <2>. DEFINE blocks == [i \in E |-> Block(i)]
  <2>2. IsFiniteSet({Block(i) : i \in E})
    <3>1. blocks \in Surjection(E, {Block(i) : i \in E})
      BY DEF Surjection
    <3>. QED
      BY <2>1, <3>1, FS_Surjection
  <2>3. IsFiniteSet(UNION {Block(i) : i \in E})
    BY <1>1, <2>2, FS_UNION
  <2>4. Bytes(rows, E) = UNION {Block(i) : i \in E}
    BY DEF Bytes, Block
  <2>. QED
    BY <2>3, <2>4, FS_CardinalityType
<1>3. ASSUME D = {} PROVE Cardinality(Bytes(rows, D)) = 0
  <2>1. Bytes(rows, D) = {}
    BY <1>3 DEF Bytes
  <2>. QED
    BY <2>1, FS_EmptySet
<1>4. ASSUME NEW x \in D
      PROVE  Cardinality(Bytes(rows, D)) = rows[x].size + Cardinality(Bytes(rows, D \ {x}))
  <2>1. Bytes(rows, D) = Block(x) \cup Bytes(rows, D \ {x})
    BY DEF Bytes, Block
  <2>2. Block(x) \cap Bytes(rows, D \ {x}) = {}
    BY DEF Bytes, Block
  <2>3. IsFiniteSet(Block(x)) /\ Cardinality(Block(x)) = rows[x].size /\ rows[x].size \in Nat
    BY <1>1
  <2>4. IsFiniteSet(Bytes(rows, D \ {x})) /\ Cardinality(Bytes(rows, D \ {x})) \in Nat
    BY <1>2
  <2>. DEFINE rest == Bytes(rows, D \ {x})
  <2>. HIDE DEF rest
  <2>5. Cardinality(Block(x) \cup rest) =
            Cardinality(Block(x)) + Cardinality(rest) - Cardinality(Block(x) \cap rest)
    BY <2>3, <2>4, FS_Union DEF rest
  <2>6. Cardinality({}) = 0
    BY FS_EmptySet
  <2>7. Bytes(rows, D) = Block(x) \cup rest /\ Block(x) \cap rest = {}
    BY <2>1, <2>2 DEF rest
  <2>8. Cardinality(Bytes(rows, D)) = Cardinality(Block(x)) + Cardinality(rest) - Cardinality({})
    BY <2>5, <2>7
  <2>9. Cardinality(rest) \in Nat
    BY <2>4 DEF rest
  <2>10. Cardinality(Bytes(rows, D)) = rows[x].size + Cardinality(rest)
    BY <2>3, <2>6, <2>8, <2>9
  <2>. QED
    BY <2>10 DEF rest
<1>. QED
  BY <1>2, <1>3, <1>4

\* The sum of the sizes, folded up in an order that is not told, is the number of
\* bytes: the count satisfies the equation of the fold, and by well-founded
\* descent along the strict subsets nothing else does.
LEMMA TotalSizeCounts ==
    ASSUME NEW rows, IsFiniteSet(DOMAIN rows), \A i \in DOMAIN rows : rows[i].size \in Nat
    PROVE  total_size(rows) = Cardinality(Bytes(rows, DOMAIN rows))
<1>. DEFINE D == DOMAIN rows
            Chosen(s) == CHOOSE x \in s : TRUE
            Folded(g) == g = [s \in SUBSET D |-> IF s = {} THEN 0
                                                 ELSE rows[Chosen(s)].size + g[s \ {Chosen(s)}]]
            count == [s \in SUBSET D |-> Cardinality(Bytes(rows, s))]
<1>1. total_size(rows) = (CHOOSE g : Folded(g))[D]
  BY Zenon DEF total_size, MapThenSumSet, MapThenFoldSet
<1>2. ASSUME NEW s \in SUBSET D
      PROVE  count[s] = IF s = {} THEN 0 ELSE rows[Chosen(s)].size + count[s \ {Chosen(s)}]
  <2>1. IsFiniteSet(s) /\ \A i \in s : rows[i].size \in Nat
    BY FS_Subset
  <2>2. CASE s = {}
    BY <2>1, <2>2, BytesAdd
  <2>3. CASE s /= {}
    <3>1. Chosen(s) \in s
      BY <2>3
    <3>. HIDE DEF Chosen
    <3>2. Cardinality(Bytes(rows, s)) =
            rows[Chosen(s)].size + Cardinality(Bytes(rows, s \ {Chosen(s)}))
      BY <2>1, <3>1, BytesAdd
    <3>. QED
      BY <2>3, <3>2
  <2>. QED
    BY <2>2, <2>3
<1>3. Folded(count)
  <2>. HIDE DEF Chosen
  <2>. QED
  BY <1>2
<1>4. ASSUME NEW g, Folded(g) PROVE g[D] = count[D]
  <2>. DEFINE Bad == {s \in SUBSET D : g[s] /= count[s]}
  <2>1. SUFFICES ASSUME Bad /= {} PROVE FALSE
    BY <2>1
  <2>2. IsWellFoundedOn(StrictSubsetOrdering(D), SUBSET D)
    BY FS_StrictSubsetOrderingWellFounded, FS_FiniteSubsetsOfFinite
  <2>3. PICK s \in Bad : \A u \in Bad : <<u, s>> \notin StrictSubsetOrdering(D)
    BY <2>1, <2>2, WFMin
  <2>. HIDE DEF Chosen, count
  <2>4. g[s] = IF s = {} THEN 0 ELSE rows[Chosen(s)].size + g[s \ {Chosen(s)}]
    BY <1>4
  <2>5. s /= {}
    BY <1>2, <2>4
  <2>6. Chosen(s) \in s
    BY <2>5 DEF Chosen
  <2>7. s \ {Chosen(s)} \in Bad
    BY <1>2, <2>4, <2>5, <2>6
  <2>8. <<s \ {Chosen(s)}, s>> \in StrictSubsetOrdering(D)
    BY <2>6 DEF StrictSubsetOrdering
  <2>. QED
    BY <2>3, <2>7, <2>8
<1>. HIDE DEF Folded
<1>5. (CHOOSE g : Folded(g))[D] = count[D]
  BY <1>3, <1>4
<1>. QED
  BY <1>1, <1>5

\* Taking a row out makes the total smaller by its size.
LEMMA TotalWithout ==
    ASSUME NEW rows, IsFiniteSet(DOMAIN rows), \A i \in DOMAIN rows : rows[i].size \in Nat,
           NEW x \in DOMAIN rows
    PROVE  /\ total_size(Without(rows, x)) \in Nat
           /\ total_size(rows) = rows[x].size + total_size(Without(rows, x))
<1>. DEFINE less == Without(rows, x)
<1>1. /\ DOMAIN less = DOMAIN rows \ {x}
      /\ \A i \in DOMAIN less : less[i] = rows[i]
  BY DEF Without
<1>. HIDE DEF less
<1>2. IsFiniteSet(DOMAIN less)
  BY <1>1, FS_Subset
<1>3. Bytes(less, DOMAIN less) = Bytes(rows, DOMAIN rows \ {x})
  BY <1>1 DEF Bytes
<1>4. total_size(less) = Cardinality(Bytes(rows, DOMAIN rows \ {x}))
  BY <1>1, <1>2, <1>3, TotalSizeCounts
<1>5. total_size(rows) = Cardinality(Bytes(rows, DOMAIN rows))
  BY TotalSizeCounts
<1>6. /\ Cardinality(Bytes(rows, DOMAIN rows \ {x})) \in Nat
      /\ Cardinality(Bytes(rows, DOMAIN rows)) =
           rows[x].size + Cardinality(Bytes(rows, DOMAIN rows \ {x}))
  BY BytesAdd
<1>. QED
  BY <1>4, <1>5, <1>6 DEF less

\* The total is a number of bytes, none for no rows.
LEMMA TotalIsNat ==
    ASSUME NEW rows, IsFiniteSet(DOMAIN rows), \A i \in DOMAIN rows : rows[i].size \in Nat
    PROVE  total_size(rows) \in Nat /\ (DOMAIN rows = {} => total_size(rows) = 0)
<1>1. total_size(rows) = Cardinality(Bytes(rows, DOMAIN rows))
  BY TotalSizeCounts
<1>. QED
  BY <1>1, BytesAdd

\* Putting a row in makes the total larger by its size.
LEMMA TotalWith ==
    ASSUME NEW rows, IsFiniteSet(DOMAIN rows), \A i \in DOMAIN rows : rows[i].size \in Nat,
           NEW x, x \notin DOMAIN rows, NEW more, DOMAIN more = DOMAIN rows \cup {x},
           more[x].size \in Nat, \A i \in DOMAIN rows : more[i] = rows[i]
    PROVE  total_size(more) = total_size(rows) + more[x].size
<1>1. /\ DOMAIN more = DOMAIN rows \cup {x}
      /\ \A i \in DOMAIN rows : more[i] = rows[i]
  OBVIOUS
<1>2. IsFiniteSet(DOMAIN more)
  BY <1>1, FS_AddElement
<1>3. \A i \in DOMAIN more : more[i].size \in Nat
  BY <1>1
<1>4. /\ total_size(Without(more, x)) \in Nat
      /\ total_size(more) = more[x].size + total_size(Without(more, x))
  BY <1>1, <1>2, <1>3, TotalWithout
<1>. DEFINE same == Without(more, x)
<1>5. DOMAIN same = DOMAIN rows /\ \A i \in DOMAIN rows : same[i] = rows[i]
  BY <1>1 DEF Without
<1>. HIDE DEF same
<1>6. Bytes(same, DOMAIN same) = Bytes(rows, DOMAIN rows)
  BY <1>5 DEF Bytes
<1>7. total_size(same) = Cardinality(Bytes(same, DOMAIN same))
  BY <1>5, TotalSizeCounts
<1>8. total_size(rows) = Cardinality(Bytes(rows, DOMAIN rows))
  BY TotalSizeCounts
<1>. QED
  BY <1>1, <1>4, <1>6, <1>7, <1>8 DEF same

\* A record call, and what a turn of the loop makes of it.
RecordCalls == [pc : {"idle", "evict", "insert"}, size : Nat, id : Nat, oldest : Seq(Nat)]

\* Changing the list or the place of a call leaves the rest of it.
LEMMA CallFields ==
    ASSUME NEW call \in RecordCalls, NEW ids \in Seq(Nat)
    PROVE  /\ [call EXCEPT !.oldest = ids] \in RecordCalls
           /\ [call EXCEPT !.oldest = ids].pc = call.pc
           /\ [call EXCEPT !.oldest = ids].size = call.size
           /\ [call EXCEPT !.oldest = ids].oldest = ids
           /\ [call EXCEPT !.pc = "insert"] \in RecordCalls
           /\ [call EXCEPT !.pc = "insert"].pc = "insert"
           /\ [call EXCEPT !.pc = "insert"].size = call.size
<1>. DEFINE Q == Seq(Nat)
<1>1. ids \in Q
  OBVIOUS
<1>2. call \in [pc : {"idle", "evict", "insert"}, size : Nat, id : Nat, oldest : Q]
  BY DEF RecordCalls
<1>. HIDE DEF Q
<1>3. /\ [call EXCEPT !.oldest = ids] \in
           [pc : {"idle", "evict", "insert"}, size : Nat, id : Nat, oldest : Q]
      /\ [call EXCEPT !.oldest = ids].pc = call.pc
      /\ [call EXCEPT !.oldest = ids].size = call.size
      /\ [call EXCEPT !.oldest = ids].oldest = ids
  BY <1>1, <1>2
<1>4. /\ [call EXCEPT !.pc = "insert"] \in
           [pc : {"idle", "evict", "insert"}, size : Nat, id : Nat, oldest : Q]
      /\ [call EXCEPT !.pc = "insert"].pc = "insert"
      /\ [call EXCEPT !.pc = "insert"].size = call.size
  BY <1>1, <1>2
<1>. QED
  BY <1>3, <1>4 DEF RecordCalls, Q

\* Types, and which thread is inside the lock.
MemoryTypes ==
    /\ second \in Nat
    /\ IsFiniteSet(DOMAIN entries) /\ DOMAIN entries \subseteq Nat
    /\ \A i \in DOMAIN entries : entries[i].size \in Nat /\ entries[i].at \in Nat
    /\ recording \in [MemoryThreads -> RecordCalls]
    /\ \A t \in MemoryThreads : recording[t].pc /= "idle" => memoryLock = t

\* What an eviction has left to go through: all the rows there are, older ones
\* before younger ones.
InAge(ids) ==
    /\ \A a \in 1 .. Len(ids) : ids[a] \in DOMAIN entries
    /\ \A a, b \in 1 .. Len(ids) : a < b => Older(ids[a], ids[b])
    /\ \A i \in DOMAIN entries : \E a \in 1 .. Len(ids) : ids[a] = i

\* The bound holds, and a thread that is about to insert has the room for it.
MemoryInvariant ==
    /\ MemoryTypes
    /\ total_size(entries) <= MaxTotalBytes
    /\ \A t \in MemoryThreads :
        /\ recording[t].pc = "insert" => Fits(entries, recording[t].size)
        /\ recording[t].pc = "evict" => InAge(recording[t].oldest)

\* An empty store is within any bound.
LEMMA MemoryStart == MemoryInit => MemoryInvariant
<1>. SUFFICES ASSUME MemoryInit PROVE MemoryInvariant
  OBVIOUS
<1>1. DOMAIN entries = {}
  BY DEF MemoryInit
<1>2. IsFiniteSet(DOMAIN entries)
  BY <1>1, FS_EmptySet
<1>3. total_size(entries) = 0
  BY <1>1, <1>2, TotalIsNat
<1>4. NotRecording \in RecordCalls
  BY DEF NotRecording, RecordCalls
<1>5. \A t \in MemoryThreads : recording[t] = NotRecording
  BY DEF MemoryInit
<1>6. MemoryTypes
  BY <1>1, <1>2, <1>4, <1>5 DEF MemoryInit, MemoryTypes, NotRecording
<1>. QED
  BY <1>3, <1>5, <1>6, MemoryAssumption DEF MemoryInvariant, NotRecording

\* The SELECT of an eviction lists the rows by age.
LEMMA OldestFirstLists ==
    ASSUME MemoryTypes
    PROVE  OldestFirst \in Seq(Nat) /\ InAge(OldestFirst)
<1>. DEFINE S == DOMAIN entries
            R == {pair \in S \X S : Older(pair[1], pair[2])}
            Listed(s) == \A a, b \in DOMAIN s : a < b => Older(s[a], s[b])
<1>1. /\ IsFiniteSet(S) /\ S \subseteq Nat
      /\ \A i \in S : entries[i].at \in Nat
  BY DEF MemoryTypes
<1>2. \A x, y \in S : <<x, y>> \in R <=> Older(x, y)
  OBVIOUS
<1>3. StrictlyOrders(R, S)
  <2>1. \A x \in S : ~Older(x, x)
    BY <1>1 DEF Older
  <2>2. \A x, y, z \in S : Older(x, y) /\ Older(y, z) => Older(x, z)
    BY <1>1 DEF Older
  <2>3. \A x, y \in S : x /= y => Older(x, y) \/ Older(y, x)
    BY <1>1 DEF Older
  <2>. HIDE DEF R
  <2>. QED
    BY <1>2, <2>1, <2>2, <2>3 DEF StrictlyOrders
<1>4. PICK s \in SetToSeqs(S) : \A i, j \in DOMAIN s : i < j => <<s[i], s[j]>> \in R
  BY <1>1, <1>3, ListingExists
<1>5. Listed(s)
  BY <1>4
<1>6. OldestFirst \in SetToSeqs(S) /\ Listed(OldestFirst)
  <2>1. OldestFirst = CHOOSE ids \in SetToSeqs(S) : Listed(ids)
    BY DEF OldestFirst
  <2>. HIDE DEF Listed
  <2>. QED
    BY <1>5, <2>1
<1>. DEFINE ids == OldestFirst
<1>. HIDE DEF ids
<1>7. ids \in Seq(S) /\ \A x \in S : \E i \in 1 .. Len(ids) : ids[i] = x
  BY <1>1, <1>6, ListingCovers DEF ids
<1>8. DOMAIN ids = 1 .. Len(ids) /\ \A a \in 1 .. Len(ids) : ids[a] \in S
  BY <1>7
<1>9. ids \in Seq(Nat)
  BY <1>1, <1>7
<1>10. InAge(ids)
  BY <1>6, <1>7, <1>8 DEF InAge, ids
<1>. QED
  BY <1>9, <1>10 DEF ids

\* The steps that leave the rows alone keep every order by age.
LEMMA AgeKept ==
    ASSUME NEW ids, InAge(ids), entries' = entries
    PROVE  InAge(ids)'
BY DEF InAge, Older

\* record: refused without a trace, or let in with room or with all the rows to
\* go through.
LEMMA RecordEntryStep ==
    ASSUME MemoryInvariant, NEW t \in MemoryThreads, record(t)
    PROVE  MemoryInvariant'
<1>1. entries' = entries /\ second' = second /\ memoryLock = NoThread
  BY DEF record, MemoryLockFree
<1>2. PICK size \in EntrySizes, i \in EntryIds :
        \/ UNCHANGED <<memoryLock, recording>>
        \/ /\ memoryLock' = t
           /\ recording' = [recording EXCEPT ![t] =
                  IF Fits(entries, size)
                  THEN [pc |-> "insert", size |-> size, id |-> i, oldest |-> << >>]
                  ELSE [pc |-> "evict", size |-> size, id |-> i, oldest |-> OldestFirst]]
  BY DEF record
<1>3. \A u \in MemoryThreads : recording[u].pc = "idle"
  BY <1>1, MemoryAssumption DEF MemoryInvariant, MemoryTypes
<1>4. total_size(entries)' <= MaxTotalBytes
  BY <1>1 DEF MemoryInvariant
<1>5. CASE UNCHANGED <<memoryLock, recording>>
  BY <1>1, <1>3, <1>4, <1>5 DEF MemoryInvariant, MemoryTypes
<1>6. CASE /\ memoryLock' = t
           /\ recording' = [recording EXCEPT ![t] =
                  IF Fits(entries, size)
                  THEN [pc |-> "insert", size |-> size, id |-> i, oldest |-> << >>]
                  ELSE [pc |-> "evict", size |-> size, id |-> i, oldest |-> OldestFirst]]
  <2>. DEFINE call == IF Fits(entries, size)
                  THEN [pc |-> "insert", size |-> size, id |-> i, oldest |-> << >>]
                  ELSE [pc |-> "evict", size |-> size, id |-> i, oldest |-> OldestFirst]
  <2>1. OldestFirst \in Seq(Nat) /\ InAge(OldestFirst)
    BY OldestFirstLists DEF MemoryInvariant
  <2>2. size \in Nat /\ i \in Nat
    BY MemoryAssumption
  <2>3. /\ call \in RecordCalls
        /\ call.size = size
        /\ call.pc = "insert" => Fits(entries, size)
        /\ call.pc = "evict" => call.oldest = OldestFirst
    BY <2>1, <2>2 DEF RecordCalls
  <2>. HIDE DEF call
  <2>4. recording' = [recording EXCEPT ![t] = call]
    BY <1>6 DEF call
  <2>5. recording'[t] = call /\ \A u \in MemoryThreads \ {t} : recording'[u] = recording[u]
    BY <2>4 DEF MemoryInvariant, MemoryTypes
  <2>6. MemoryTypes'
    BY <1>1, <1>3, <1>6, <2>3, <2>4, <2>5 DEF MemoryInvariant, MemoryTypes
  <2>7. ASSUME NEW u \in MemoryThreads
        PROVE  /\ recording'[u].pc = "insert" => Fits(entries, recording'[u].size)
               /\ recording'[u].pc = "evict" => InAge(recording'[u].oldest)
    BY <1>3, <2>1, <2>3, <2>5
  <2>8. Fits(entries, recording[t].size)' = Fits(entries', recording'[t].size)
    BY DEF Fits
  <2>9. ASSUME NEW u \in MemoryThreads
        PROVE  /\ recording'[u].pc = "insert" => Fits(entries, recording[u].size)'
               /\ recording'[u].pc = "evict" => InAge(recording[u].oldest)'
    BY <1>1, <2>7 DEF Fits, InAge, Older
  <2>. QED
    BY <1>4, <2>6, <2>9 DEF MemoryInvariant
<1>. QED
  BY <1>2, <1>5, <1>6

\* The turn of the loop: the head is the oldest row, and what is left to go
\* through is what is left.
LEMMA EvictStep ==
    ASSUME MemoryInvariant, NEW t \in MemoryThreads, EvictOne(t)
    PROVE  /\ MemoryInvariant'
           /\ memoryLock = t /\ ~Fits(entries, recording[t].size)
           /\ \A i \in DOMAIN entries : i \notin DOMAIN entries' => EvictsOldest(i)
<1>0. PICK ids : ids = recording[t].oldest
  OBVIOUS
<1>. DEFINE x == Head(ids)
<1>1. /\ recording[t].pc = "evict" /\ ids /= << >> /\ ~Fits(entries, recording[t].size)
      /\ entries' = Without(entries, x)
      /\ recording' = [recording EXCEPT ![t].oldest = Tail(@)]
      /\ memoryLock' = memoryLock /\ second' = second
  BY <1>0 DEF EvictOne
<1>2. memoryLock = t /\ \A u \in MemoryThreads \ {t} : recording[u].pc = "idle"
  BY <1>1 DEF MemoryInvariant, MemoryTypes
<1>3. ids \in Seq(Nat) /\ InAge(ids)
  BY <1>0, <1>1 DEF MemoryInvariant, MemoryTypes, RecordCalls
<1>4. /\ recording[t] \in RecordCalls
      /\ \A u \in MemoryThreads : recording'[u] = IF u = t
                                    THEN [recording[t] EXCEPT !.oldest = Tail(ids)]
                                    ELSE recording[u]
  BY <1>0, <1>1 DEF MemoryInvariant, MemoryTypes
<1>5. /\ Len(ids) \in Nat /\ 1 <= Len(ids) /\ x = ids[1] /\ Tail(ids) \in Seq(Nat)
      /\ Len(Tail(ids)) = Len(ids) - 1
      /\ \A a \in 1 .. Len(ids) - 1 : Tail(ids)[a] = ids[a + 1]
  BY <1>1, <1>3
<1>6. x \in DOMAIN entries
  BY <1>3, <1>5 DEF InAge
<1>. HIDE DEF x
<1>7. /\ DOMAIN entries' = DOMAIN entries \ {x}
      /\ \A i \in DOMAIN entries' : entries'[i] = entries[i]
  BY <1>1 DEF Without
<1>8. /\ recording'[t].pc = "evict" /\ recording'[t].oldest = Tail(ids)
      /\ recording'[t] \in RecordCalls
  <2>1. recording'[t] = [recording[t] EXCEPT !.oldest = Tail(ids)] /\ Tail(ids) \in Seq(Nat)
    BY <1>4, <1>5
  <2>2. recording[t] \in RecordCalls
    BY <1>4
  <2>3. /\ [recording[t] EXCEPT !.oldest = Tail(ids)] \in RecordCalls
        /\ [recording[t] EXCEPT !.oldest = Tail(ids)].pc = recording[t].pc
        /\ [recording[t] EXCEPT !.oldest = Tail(ids)].oldest = Tail(ids)
    BY <2>1, <2>2, CallFields
  <2>. QED
    BY <1>1, <2>1, <2>3
<1>9. MemoryTypes'
  <2>1. IsFiniteSet(DOMAIN entries')
    BY <1>7, FS_Subset DEF MemoryInvariant, MemoryTypes
  <2>2. recording' \in [MemoryThreads -> RecordCalls]
    BY <1>1, <1>4, <1>8 DEF MemoryInvariant, MemoryTypes
  <2>. QED
    BY <1>1, <1>2, <1>4, <1>7, <2>1, <2>2 DEF MemoryInvariant, MemoryTypes
<1>10. total_size(entries') <= MaxTotalBytes
  <2>1. /\ total_size(Without(entries, x)) \in Nat
        /\ total_size(entries) = entries[x].size + total_size(Without(entries, x))
        /\ entries[x].size \in Nat
    BY <1>6, TotalWithout DEF MemoryInvariant, MemoryTypes
  <2>. QED
    BY <1>1, <2>1, MemoryAssumption DEF MemoryInvariant
<1>11. \A a \in 2 .. Len(ids) : Older(x, ids[a]) /\ ids[a] \in DOMAIN entries
  <2>. SUFFICES ASSUME NEW a \in 2 .. Len(ids)
                PROVE  Older(x, ids[a]) /\ ids[a] \in DOMAIN entries
    OBVIOUS
  <2>1. a \in 1 .. Len(ids) /\ 1 \in 1 .. Len(ids) /\ 1 < a
    BY <1>5
  <2>. QED
    BY <1>3, <1>5, <2>1 DEF InAge
<1>12. InAge(Tail(ids))'
  <2>. DEFINE rest == Tail(ids)
  <2>. HIDE DEF rest
  <2>1. /\ Len(rest) = Len(ids) - 1
        /\ \A a \in 1 .. Len(rest) : /\ rest[a] = ids[a + 1] /\ a + 1 \in 2 .. Len(ids)
                                     /\ a + 1 \in 1 .. Len(ids)
    BY <1>5 DEF rest
  <2>2. \A a \in 2 .. Len(ids) : ids[a] /= x
    <3>1. ~Older(x, x)
      BY <1>6 DEF Older, MemoryInvariant, MemoryTypes
    <3>. QED
      BY <1>11, <3>1
  <2>3. \A a \in 1 .. Len(rest) : rest[a] \in DOMAIN entries'
    BY <1>7, <1>11, <2>1, <2>2
  <2>4. ASSUME NEW a \in 1 .. Len(rest), NEW b \in 1 .. Len(rest), a < b
        PROVE  Older(rest[a], rest[b])'
    <3>1. Older(ids[a + 1], ids[b + 1])
      <4>1. a + 1 \in 1 .. Len(ids) /\ b + 1 \in 1 .. Len(ids)
        BY <2>1
      <4>2. a + 1 < b + 1
        BY <2>4
      <4>. QED
        BY <1>3, <4>1, <4>2 DEF InAge
    <3>2. entries'[rest[a]] = entries[rest[a]] /\ entries'[rest[b]] = entries[rest[b]]
      BY <1>7, <2>3
    <3>. QED
      BY <2>1, <3>1, <3>2 DEF Older
  <2>5. ASSUME NEW i \in DOMAIN entries'
        PROVE  \E a \in 1 .. Len(rest) : rest[a] = i
    <3>1. PICK a \in 1 .. Len(ids) : ids[a] = i
      BY <1>3, <1>7 DEF InAge
    <3>2. a /= 1
      BY <1>5, <1>7, <3>1
    <3>3. a - 1 \in 1 .. Len(rest) /\ (a - 1) + 1 = a
      BY <1>5, <2>1, <3>2
    <3>. QED
      BY <2>1, <3>1, <3>3
  <2>. QED
    BY <2>3, <2>4, <2>5 DEF InAge, rest
<1>13. EvictsOldest(x)
  <2>. SUFFICES ASSUME NEW j \in DOMAIN entries PROVE entries[x].at <= entries[j].at
    BY DEF EvictsOldest
  <2>1. PICK a \in 1 .. Len(ids) : ids[a] = j
    BY <1>3 DEF InAge
  <2>2. entries[x].at \in Nat /\ entries[j].at \in Nat
    BY <1>6 DEF MemoryInvariant, MemoryTypes
  <2>3. a = 1 \/ a \in 2 .. Len(ids)
    BY <1>5
  <2>. QED
    BY <1>5, <1>11, <2>1, <2>2, <2>3 DEF Older
<1>14. \A i \in DOMAIN entries : i \notin DOMAIN entries' => EvictsOldest(i)
  BY <1>7, <1>13
<1>15. ASSUME NEW u \in MemoryThreads
       PROVE  /\ recording'[u].pc = "insert" => Fits(entries, recording[u].size)'
              /\ recording'[u].pc = "evict" => InAge(recording[u].oldest)'
  <2>1. recording'[u].pc /= "insert" /\ (recording'[u].pc = "evict" => u = t)
    BY <1>2, <1>4, <1>8
  <2>2. InAge(recording[t].oldest)'
    BY <1>8, <1>12 DEF InAge
  <2>. QED
    BY <2>1, <2>2
<1>. QED
  BY <1>1, <1>2, <1>9, <1>10, <1>14, <1>15 DEF MemoryInvariant

\* The loop is left, with room for the entry or without inserting it.
LEMMA EvictionEndsStep ==
    ASSUME MemoryInvariant, NEW t \in MemoryThreads, EvictionEnds(t)
    PROVE  MemoryInvariant'
<1>1. /\ entries' = entries /\ second' = second /\ recording[t].pc = "evict"
      /\ \/ /\ Fits(entries, recording[t].size)
            /\ recording' = [recording EXCEPT ![t].pc = "insert"]
            /\ memoryLock' = memoryLock
         \/ /\ recording' = [recording EXCEPT ![t] = NotRecording]
            /\ memoryLock' = NoThread
  BY DEF EvictionEnds
<1>2. memoryLock = t /\ \A u \in MemoryThreads \ {t} : recording[u].pc = "idle"
  BY <1>1 DEF MemoryInvariant, MemoryTypes
<1>3. /\ \A u \in MemoryThreads \ {t} : recording'[u] = recording[u]
      /\ recording' \in [MemoryThreads -> RecordCalls]
      /\ \/ /\ recording'[t].pc = "insert" /\ recording'[t].size = recording[t].size
            /\ memoryLock' = memoryLock /\ Fits(entries, recording[t].size)
         \/ recording'[t].pc = "idle"
  <2>1. /\ recording[t] \in RecordCalls
        /\ recording \in [MemoryThreads -> RecordCalls]
    BY DEF MemoryInvariant, MemoryTypes
  <2>2. NotRecording \in RecordCalls /\ NotRecording.pc = "idle"
    BY DEF NotRecording, RecordCalls
  <2>3. CASE recording' = [recording EXCEPT ![t] = NotRecording]
    BY <2>1, <2>2, <2>3
  <2>4. CASE /\ Fits(entries, recording[t].size)
             /\ recording' = [recording EXCEPT ![t].pc = "insert"]
             /\ memoryLock' = memoryLock
    <3>1. recording' = [recording EXCEPT ![t] = [recording[t] EXCEPT !.pc = "insert"]]
      BY <2>1, <2>4
    <3>. DEFINE call == [recording[t] EXCEPT !.pc = "insert"]
    <3>2. /\ call \in RecordCalls /\ call.pc = "insert"
          /\ call.size = recording[t].size
      <4>1. << >> \in Seq(Nat)
        OBVIOUS
      <4>. QED
        BY <2>1, <4>1, CallFields
    <3>. HIDE DEF call
    <3>3. recording' = [recording EXCEPT ![t] = call]
      BY <3>1 DEF call
    <3>. QED
      BY <2>1, <2>4, <3>2, <3>3
  <2>. QED
    BY <1>1, <2>3, <2>4
<1>4. MemoryTypes'
  BY <1>1, <1>2, <1>3 DEF MemoryInvariant, MemoryTypes
<1>5. \A u \in MemoryThreads :
        /\ recording'[u].pc = "insert" => Fits(entries, recording[u].size)'
        /\ recording'[u].pc /= "evict"
  BY <1>1, <1>2, <1>3 DEF Fits
<1>. QED
  BY <1>1, <1>4, <1>5 DEF MemoryInvariant

\* The INSERT fills room that no one else could take meanwhile, and leaves the
\* lock; a duplicate id changes nothing.
LEMMA InsertEntryStep ==
    ASSUME MemoryInvariant, NEW t \in MemoryThreads, InsertEntry(t)
    PROVE  MemoryInvariant' /\ DOMAIN entries \subseteq DOMAIN entries'
<1>. DEFINE call == recording[t]
            row == [size |-> call.size, at |-> second]
            more == [i \in DOMAIN entries \cup {call.id} |->
                            IF i = call.id THEN row ELSE entries[i]]
<1>1. /\ call.pc = "insert" /\ Fits(entries, call.size) /\ second' = second
      /\ recording' = [recording EXCEPT ![t] = NotRecording] /\ memoryLock' = NoThread
      /\ entries' = IF call.id \in DOMAIN entries THEN entries ELSE more
  BY DEF InsertEntry, MemoryInvariant
<1>2. memoryLock = t /\ \A u \in MemoryThreads \ {t} : recording[u].pc = "idle"
  BY <1>1 DEF MemoryInvariant, MemoryTypes
<1>3. /\ \A u \in MemoryThreads : recording'[u].pc = "idle"
      /\ recording' \in [MemoryThreads -> RecordCalls]
  <2>1. NotRecording \in RecordCalls
    BY DEF NotRecording, RecordCalls
  <2>. QED
    BY <1>1, <1>2, <2>1 DEF MemoryInvariant, MemoryTypes, NotRecording
<1>4. call.size \in Nat /\ call.id \in Nat /\ second \in Nat
  BY DEF MemoryInvariant, MemoryTypes, RecordCalls
<1>5. CASE call.id \in DOMAIN entries
  BY <1>1, <1>3, <1>5 DEF MemoryInvariant, MemoryTypes
<1>6. CASE call.id \notin DOMAIN entries
  <2>1. row.size = call.size /\ row.at = second
    OBVIOUS
  <2>. HIDE DEF row, call
  <2>2. /\ entries' = more /\ DOMAIN more = DOMAIN entries \cup {call.id}
        /\ \A i \in DOMAIN more : more[i] = IF i = call.id THEN row ELSE entries[i]
    BY <1>1, <1>6
  <2>3. IsFiniteSet(DOMAIN more)
    BY <2>2, FS_AddElement DEF MemoryInvariant, MemoryTypes
  <2>4. total_size(more) = total_size(entries) + row.size
    <3>1. IsFiniteSet(DOMAIN entries) /\ \A i \in DOMAIN entries : entries[i].size \in Nat
      BY DEF MemoryInvariant, MemoryTypes
    <3>2. /\ more[call.id] = row /\ more[call.id].size \in Nat
          /\ \A i \in DOMAIN entries : more[i] = entries[i]
      BY <1>4, <1>6, <2>1, <2>2
    <3>. HIDE DEF more
    <3>. QED
      BY <1>6, <2>2, <3>1, <3>2, TotalWith
  <2>. HIDE DEF more
  <2>5. total_size(entries') <= MaxTotalBytes
    BY <1>1, <2>1, <2>2, <2>4 DEF Fits
  <2>6. \A i \in DOMAIN entries' : entries'[i].size \in Nat /\ entries'[i].at \in Nat
    BY <1>4, <2>1, <2>2 DEF MemoryInvariant, MemoryTypes
  <2>7. MemoryTypes'
    BY <1>1, <1>3, <1>4, <2>2, <2>3, <2>6 DEF MemoryInvariant, MemoryTypes
  <2>. QED
    BY <1>3, <2>2, <2>5, <2>7 DEF MemoryInvariant
<1>. QED
  BY <1>5, <1>6

\* delete waits for the lock, so no record is under way.
LEMMA DeleteStep ==
    ASSUME MemoryInvariant, NEW x \in EntryIds, deleteEntry(x)
    PROVE  MemoryInvariant' /\ memoryLock = NoThread
<1>1. /\ memoryLock = NoThread /\ x \in DOMAIN entries /\ entries' = Without(entries, x)
      /\ second' = second /\ memoryLock' = memoryLock /\ recording' = recording
  BY DEF deleteEntry
<1>2. \A u \in MemoryThreads : recording[u].pc = "idle"
  BY <1>1, MemoryAssumption DEF MemoryInvariant, MemoryTypes
<1>3. /\ DOMAIN entries' = DOMAIN entries \ {x}
      /\ \A i \in DOMAIN entries' : entries'[i] = entries[i]
  BY <1>1 DEF Without
<1>4. IsFiniteSet(DOMAIN entries')
  BY <1>3, FS_Subset DEF MemoryInvariant, MemoryTypes
<1>5. total_size(entries') <= MaxTotalBytes
  <2>1. /\ total_size(Without(entries, x)) \in Nat
        /\ total_size(entries) = entries[x].size + total_size(Without(entries, x))
        /\ entries[x].size \in Nat
    BY <1>1, TotalWithout DEF MemoryInvariant, MemoryTypes
  <2>. QED
    BY <1>1, <2>1, MemoryAssumption DEF MemoryInvariant
<1>6. MemoryTypes'
  BY <1>1, <1>2, <1>3, <1>4 DEF MemoryInvariant, MemoryTypes
<1>. QED
  BY <1>1, <1>2, <1>5, <1>6 DEF MemoryInvariant

\* A crash forgets the calls and the lock, and keeps the rows.
LEMMA MemoryCrashStep ==
    ASSUME MemoryInvariant, MemoryCrash
    PROVE  MemoryInvariant'
<1>1. /\ entries' = entries /\ second' = second
      /\ recording' = [t \in MemoryThreads |-> NotRecording]
  BY DEF MemoryCrash
<1>2. NotRecording \in RecordCalls /\ NotRecording.pc = "idle"
  BY DEF NotRecording, RecordCalls
<1>. QED
  BY <1>1, <1>2 DEF MemoryInvariant, MemoryTypes

\* Whoever moves, the bound and the order of eviction are kept; under the lock
\* only an eviction takes a row away.
LEMMA MemoryStep ==
    ASSUME MemoryInvariant, [MemoryNext]_memoryVars
    PROVE  /\ MemoryInvariant'
           /\ \A i \in DOMAIN entries :
                (memoryLock /= NoThread /\ i \notin DOMAIN entries')
                  => ~Fits(entries, recording[memoryLock].size) /\ EvictsOldest(i)
<1>1. CASE UNCHANGED memoryVars
  <2>1. /\ entries' = entries /\ second' = second /\ recording' = recording
        /\ memoryLock' = memoryLock
    BY <1>1 DEF memoryVars
  <2>2. MemoryTypes'
    BY <2>1 DEF MemoryInvariant, MemoryTypes
  <2>3. MemoryInvariant'
    BY <2>1, <2>2 DEF MemoryInvariant, Fits, InAge, Older
  <2>. QED
    BY <2>1, <2>3
<1>2. ASSUME NEW t \in MemoryThreads, record(t) \/ EvictionEnds(t)
      PROVE  MemoryInvariant' /\ entries' = entries
  BY <1>2, RecordEntryStep, EvictionEndsStep DEF record, EvictionEnds
<1>3. CASE NextSecond
  <2>1. /\ entries' = entries /\ second' = second + 1 /\ recording' = recording
        /\ memoryLock' = memoryLock
    BY <1>3 DEF NextSecond
  <2>2. MemoryTypes'
    BY <2>1 DEF MemoryInvariant, MemoryTypes
  <2>. QED
    BY <2>1, <2>2 DEF MemoryInvariant, Fits, InAge, Older
<1>4. CASE MemoryCrash
  BY <1>4, MemoryCrashStep DEF MemoryCrash
<1>5. CASE MemoryNext
  BY <1>2, <1>3, <1>4, <1>5, EvictStep, InsertEntryStep, DeleteStep DEF MemoryNext
<1>. QED
  BY <1>1, <1>5

(***************************************************************************)
(* Checkpoints                                                             *)
(***************************************************************************)

CheckpointCalls == [pc : {"idle", "snapshot", "record", "mutate", "restore"},
                    ws : Workspaces \cup {"none"}, ref : SnapshotRefs \cup {NoRef}]

\* Types, and what a snapshot is.
CheckpointTypes ==
    /\ contents \in [Workspaces -> SUBSET SnapshotRefs]
    /\ DOMAIN snapshots \subseteq SnapshotRefs
    /\ \A r \in DOMAIN snapshots :
        snapshots[r] \in [ws : Workspaces, holds : SUBSET SnapshotRefs]
    /\ checkpointCall \in [CheckpointCallers -> CheckpointCalls]

\* A row, a call and a restore on its way name a snapshot of their workspace.
IsBacked(row) ==
    /\ row.ws \in Workspaces
    /\ row.ref \in DOMAIN snapshots
    /\ snapshots[row.ref].ws = row.ws

\* What the kernel has for a caller at each point of its call.
CallBacked(t) ==
    LET call == checkpointCall[t] IN
    /\ call.pc = "snapshot" => call.ws \in Workspaces
    /\ call.pc \in {"record", "mutate", "restore"} => IsBacked(call)
    /\ call.pc = "mutate" => [ws |-> call.ws, ref |-> call.ref] \in checkpointRows

\* What the kernel may still be asked to do.
RequestBacked(request) ==
    /\ request.ws \in Workspaces
    /\ request.op = "restore" => IsBacked(request)

\* Every mutation in the contents of a workspace has its row.
AllRecorded(ws, holds) == \A mutation \in holds : [ws |-> ws, ref |-> mutation] \in checkpointRows

\* What the workspaces contain has its rows.
ContentsRecorded ==
    \A ws \in Workspaces : \A mutation \in contents[ws] :
        [ws |-> ws, ref |-> mutation] \in checkpointRows

\* A snapshot holds recorded mutations only, and not the one it was taken for.
SnapshotSound(r) ==
    r \notin snapshots[r].holds /\ AllRecorded(snapshots[r].ws, snapshots[r].holds)

CheckpointInvariant ==
    /\ CheckpointTypes
    /\ \A row \in checkpointRows : IsBacked(row)
    /\ \A request \in lateRequests : RequestBacked(request)
    /\ \A t \in CheckpointCallers : CallBacked(t)
    /\ ContentsRecorded
    /\ \A r \in DOMAIN snapshots : SnapshotSound(r)

\* The kernel keeps every snapshot it has taken, and the manager every row.
RecordsGrow ==
    /\ DOMAIN snapshots \subseteq DOMAIN snapshots'
    /\ \A r \in DOMAIN snapshots : snapshots'[r] = snapshots[r]
    /\ checkpointRows \subseteq checkpointRows'

\* What was backed by a snapshot, or recorded, stays so.
LEMMA BackedKept ==
    ASSUME RecordsGrow
    PROVE  /\ \A row : IsBacked(row) => IsBacked(row)'
           /\ \A request : RequestBacked(request) => RequestBacked(request)'
           /\ \A ws, holds : AllRecorded(ws, holds) =>
                \A mutation \in holds : [ws |-> ws, ref |-> mutation] \in checkpointRows'
<1>1. \A row : IsBacked(row) => IsBacked(row)'
  BY DEF IsBacked, RecordsGrow
<1>2. \A request : RequestBacked(request) => RequestBacked(request)'
  BY <1>1 DEF RequestBacked
<1>3. \A ws, holds : AllRecorded(ws, holds) =>
        \A mutation \in holds : [ws |-> ws, ref |-> mutation] \in checkpointRows'
  BY DEF AllRecorded, RecordsGrow
<1>. QED
  BY <1>1, <1>2, <1>3

\* No handler, restore or crash takes a snapshot or a row back.
LEMMA RecordsKept ==
    ASSUME CheckpointsNext
    PROVE  RecordsGrow
<1>1. ASSUME NEW ws, NEW ref, TakeSnapshot(ws, ref), UNCHANGED checkpointRows
      PROVE  RecordsGrow
  BY <1>1 DEF TakeSnapshot, RecordsGrow
<1>2. CASE UNCHANGED snapshots /\ checkpointRows \subseteq checkpointRows'
  BY <1>2 DEF RecordsGrow
<1>3. ASSUME NEW t \in CheckpointCallers, RecordCheckpoint(t) PROVE RecordsGrow
  BY <1>2, <1>3 DEF RecordCheckpoint
<1>4. ASSUME NEW t \in CheckpointCallers, KernelCopies(t) PROVE RecordsGrow
  BY <1>1, <1>4 DEF KernelCopies
<1>5. ASSUME NEW request, KernelCatchesUp(request) PROVE RecordsGrow
  BY <1>1, <1>2, <1>5 DEF KernelCatchesUp
<1>6. CASE UNCHANGED <<snapshots, checkpointRows>>
  BY <1>2, <1>6
<1>. QED
  BY <1>3, <1>4, <1>5, <1>6 DEF CheckpointsNext, Registered, CheckpointCrash,
     snapshot_before_mutation, SnapshotRaises, Mutate, restore, RestoreWorkspace

\* A caller whose call is left alone keeps what it had.
LEMMA CallKept ==
    ASSUME RecordsGrow, NEW t \in CheckpointCallers, CallBacked(t),
           checkpointCall'[t] = checkpointCall[t]
    PROVE  CallBacked(t)'
<1>1. IsBacked(checkpointCall[t]) => IsBacked(checkpointCall[t])'
  BY DEF IsBacked, RecordsGrow
<1>. QED
  BY <1>1 DEF CallBacked, IsBacked, RecordsGrow

\* What a caller has out is something the kernel can do.
LEMMA OutstandingBacked ==
    ASSUME CheckpointInvariant, NEW t \in CheckpointCallers
    PROVE  \A request \in Outstanding(t) : RequestBacked(request)
<1>1. CallBacked(t)
  BY DEF CheckpointInvariant
<1>. QED
  BY <1>1 DEF Outstanding, RequestBacked, CallBacked, IsBacked

\* A step that takes no snapshot keeps the invariant when it leaves recorded
\* contents, requests the kernel can do, and calls that are backed.
LEMMA PlainCheckpointStep ==
    ASSUME CheckpointInvariant, CheckpointsNext, UNCHANGED snapshots, CheckpointTypes',
           \A row \in checkpointRows' : IsBacked(row),
           \A request \in lateRequests' : RequestBacked(request),
           \A ws \in Workspaces : \A mutation \in contents'[ws] :
                [ws |-> ws, ref |-> mutation] \in checkpointRows',
           \A t \in CheckpointCallers : \/ checkpointCall'[t] = checkpointCall[t]
                                        \/ CallBacked(t)'
    PROVE  CheckpointInvariant'
<1>1. RecordsGrow
  BY RecordsKept
<1>2. /\ \A row \in checkpointRows' : IsBacked(row)'
      /\ \A request \in lateRequests' : RequestBacked(request)'
  BY <1>1, BackedKept
<1>3. \A t \in CheckpointCallers : CallBacked(t)'
  BY <1>1, CallKept DEF CheckpointInvariant
<1>4. \A r \in DOMAIN snapshots' : SnapshotSound(r)'
  BY <1>1 DEF CheckpointInvariant, SnapshotSound, AllRecorded, RecordsGrow
<1>5. ContentsRecorded'
  BY DEF ContentsRecorded
<1>. QED
  BY <1>2, <1>3, <1>4, <1>5 DEF CheckpointInvariant

\* The kernel copies: the reference is new, so no recorded mutation has its name.
LEMMA CopyStep ==
    ASSUME CheckpointInvariant, CheckpointsNext, NEW ws \in Workspaces,
           NEW ref \in SnapshotRefs, TakeSnapshot(ws, ref),
           UNCHANGED <<contents, checkpointRows>>,
           lateRequests' \subseteq lateRequests,
           checkpointCall' \in [CheckpointCallers -> CheckpointCalls],
           \A t \in CheckpointCallers :
              \/ checkpointCall'[t] = checkpointCall[t]
              \/ /\ checkpointCall'[t].pc = "record"
                 /\ checkpointCall'[t].ws = ws /\ checkpointCall'[t].ref = ref
    PROVE  CheckpointInvariant'
<1>1. RecordsGrow
  BY RecordsKept
<1>2. /\ DOMAIN snapshots' = DOMAIN snapshots \cup {ref} /\ ref \notin DOMAIN snapshots
      /\ snapshots'[ref] = [ws |-> ws, holds |-> contents[ws]]
  BY DEF TakeSnapshot
<1>3. contents[ws] \in SUBSET SnapshotRefs
  BY DEF CheckpointInvariant, CheckpointTypes
<1>4. CheckpointTypes'
  <2>1. \A r \in DOMAIN snapshots' :
            snapshots'[r] \in [ws : Workspaces, holds : SUBSET SnapshotRefs]
    BY <1>1, <1>2, <1>3 DEF CheckpointInvariant, CheckpointTypes, RecordsGrow
  <2>. QED
    BY <1>2, <2>1 DEF CheckpointInvariant, CheckpointTypes
<1>5. /\ \A row \in checkpointRows' : IsBacked(row)'
      /\ \A request \in lateRequests' : RequestBacked(request)'
  BY <1>1, BackedKept DEF CheckpointInvariant
<1>6. ASSUME NEW t \in CheckpointCallers PROVE CallBacked(t)'
  <2>1. CASE checkpointCall'[t] = checkpointCall[t]
    BY <1>1, <2>1, CallKept DEF CheckpointInvariant
  <2>2. CASE /\ checkpointCall'[t].pc = "record"
             /\ checkpointCall'[t].ws = ws /\ checkpointCall'[t].ref = ref
    BY <1>2, <2>2 DEF CallBacked, IsBacked
  <2>. QED
    BY <2>1, <2>2
<1>7. AllRecorded(ws, contents[ws]) /\ ContentsRecorded'
  BY DEF CheckpointInvariant, ContentsRecorded, AllRecorded
<1>8. ref \notin contents[ws]
  <2>1. \A row \in checkpointRows : row.ref \in DOMAIN snapshots
    BY DEF CheckpointInvariant, IsBacked
  <2>. QED
    BY <1>2, <1>7, <2>1 DEF AllRecorded
<1>9. ASSUME NEW r \in DOMAIN snapshots' PROVE SnapshotSound(r)'
  <2>1. CASE r = ref
    BY <1>2, <1>7, <1>8, <2>1 DEF SnapshotSound, AllRecorded
  <2>2. CASE r /= ref
    BY <1>1, <1>2, <2>2 DEF CheckpointInvariant, SnapshotSound, AllRecorded, RecordsGrow
  <2>. QED
    BY <2>1, <2>2
<1>. QED
  BY <1>4, <1>5, <1>6, <1>7, <1>9 DEF CheckpointInvariant

\* The kernel copies for the caller that waits for it, or for one that has
\* given up.
LEMMA CopiesStep ==
    ASSUME CheckpointInvariant, CheckpointsNext,
           \/ \E t \in CheckpointCallers : KernelCopies(t)
           \/ \E request \in lateRequests :
                KernelCatchesUp(request) /\ request.op = "snapshot"
    PROVE  CheckpointInvariant'
<1>1. checkpointCall \in [CheckpointCallers -> CheckpointCalls]
  BY DEF CheckpointInvariant, CheckpointTypes
<1>2. ASSUME NEW t \in CheckpointCallers, KernelCopies(t) PROVE CheckpointInvariant'
  <2>. DEFINE call == checkpointCall[t]
  <2>1. call.pc = "snapshot" /\ call.ws \in Workspaces /\ call \in CheckpointCalls
    BY <1>1, <1>2 DEF KernelCopies, CheckpointInvariant, CallBacked
  <2>2. PICK ref \in SnapshotRefs :
            /\ TakeSnapshot(call.ws, ref)
            /\ checkpointCall' = [checkpointCall EXCEPT ![t].pc = "record", ![t].ref = ref]
    BY <1>2 DEF KernelCopies
  <2>3. [call EXCEPT !.pc = "record", !.ref = ref] \in CheckpointCalls
    BY <2>1 DEF CheckpointCalls
  <2>4. checkpointCall' = [checkpointCall EXCEPT
                             ![t] = [call EXCEPT !.pc = "record", !.ref = ref]]
    BY <1>1, <2>2
  <2>5. checkpointCall' \in [CheckpointCallers -> CheckpointCalls]
    BY <1>1, <2>3, <2>4
  <2>6. \A x \in CheckpointCallers :
            \/ checkpointCall'[x] = checkpointCall[x]
            \/ /\ checkpointCall'[x].pc = "record"
               /\ checkpointCall'[x].ws = call.ws /\ checkpointCall'[x].ref = ref
    BY <1>1, <2>1, <2>4 DEF CheckpointCalls
  <2>7. UNCHANGED <<contents, checkpointRows>> /\ lateRequests' \subseteq lateRequests
    BY <1>2 DEF KernelCopies
  <2>. HIDE DEF call
  <2>. QED
    BY <2>1, <2>2, <2>5, <2>6, <2>7, CopyStep
<1>3. ASSUME NEW request \in lateRequests, KernelCatchesUp(request), request.op = "snapshot"
      PROVE  CheckpointInvariant'
  <2>1. request.ws \in Workspaces
    BY DEF CheckpointInvariant, RequestBacked
  <2>2. PICK ref \in SnapshotRefs : TakeSnapshot(request.ws, ref)
    BY <1>3 DEF KernelCatchesUp
  <2>3. UNCHANGED <<contents, checkpointRows, checkpointCall>>
           /\ lateRequests' \subseteq lateRequests
    BY <1>3 DEF KernelCatchesUp
  <2>. QED
    BY <1>1, <2>1, <2>2, <2>3, CopyStep
<1>. QED
  BY <1>2, <1>3

\* The row is written for the reference the kernel answered with, or not at all.
LEMMA RecordStep ==
    ASSUME CheckpointInvariant, CheckpointsNext, NEW t \in CheckpointCallers,
           RecordCheckpoint(t)
    PROVE  CheckpointInvariant'
<1>. DEFINE call == checkpointCall[t]
            row == [ws |-> call.ws, ref |-> call.ref]
<1>1. checkpointCall \in [CheckpointCallers -> CheckpointCalls]
  BY DEF CheckpointInvariant, CheckpointTypes
<1>2. IsBacked(call) /\ IsBacked(row)
  BY DEF CheckpointInvariant, CallBacked, RecordCheckpoint, IsBacked
<1>3. UNCHANGED <<contents, snapshots, lateRequests>>
      /\ checkpointRows \subseteq checkpointRows' /\ checkpointRows' \subseteq checkpointRows \cup {row}
  BY DEF RecordCheckpoint
<1>4. /\ checkpointCall' \in [CheckpointCallers -> CheckpointCalls]
      /\ \A x \in CheckpointCallers : checkpointCall'[x] = checkpointCall[x] \/ CallBacked(x)'
  <2>1. CASE /\ checkpointRows' = checkpointRows \cup {row}
             /\ checkpointCall' = [checkpointCall EXCEPT ![t].pc = "mutate"]
    <3>1. [call EXCEPT !.pc = "mutate"] \in CheckpointCalls
      BY <1>1 DEF CheckpointCalls
    <3>2. checkpointCall' = [checkpointCall EXCEPT ![t] = [call EXCEPT !.pc = "mutate"]]
      BY <1>1, <2>1
    <3>3. checkpointCall'[t] = [call EXCEPT !.pc = "mutate"]
      BY <1>1, <3>2
    <3>4. checkpointCall'[t].ws = call.ws /\ checkpointCall'[t].ref = call.ref
             /\ checkpointCall'[t].pc = "mutate"
      BY <1>1, <3>3 DEF CheckpointCalls
    <3>5. CallBacked(t)'
      BY <1>2, <1>3, <2>1, <3>4 DEF CallBacked, IsBacked
    <3>. QED
      BY <1>1, <3>1, <3>2, <3>5
  <2>2. CASE EndCheckpointCall(t)
    <3>1. NoCheckpointCall \in CheckpointCalls /\ NoCheckpointCall.pc = "idle"
      BY DEF NoCheckpointCall, CheckpointCalls
    <3>. QED
      BY <1>1, <2>2, <3>1 DEF EndCheckpointCall, CallBacked
  <2>. QED
    BY <2>1, <2>2 DEF RecordCheckpoint
<1>5. CheckpointTypes'
  BY <1>3, <1>4 DEF CheckpointInvariant, CheckpointTypes
<1>6. /\ \A r \in checkpointRows' : IsBacked(r)
      /\ \A request \in lateRequests' : RequestBacked(request)
      /\ \A ws \in Workspaces : \A mutation \in contents'[ws] :
            [ws |-> ws, ref |-> mutation] \in checkpointRows'
  BY <1>2, <1>3 DEF CheckpointInvariant, ContentsRecorded
<1>. QED
  BY <1>3, <1>4, <1>5, <1>6, PlainCheckpointStep

\* A restore brings back what a snapshot holds, which is recorded; a mutation
\* adds one that is.
LEMMA ContentsStep ==
    ASSUME CheckpointInvariant, NEW ws \in Workspaces, NEW holds,
           contents' = [contents EXCEPT ![ws] = holds], UNCHANGED checkpointRows,
           \/ \E r \in DOMAIN snapshots : snapshots[r].ws = ws /\ holds = snapshots[r].holds
           \/ \E ref \in DOMAIN snapshots :
                /\ [ws |-> ws, ref |-> ref] \in checkpointRows
                /\ holds = contents[ws] \cup {ref}
    PROVE  /\ contents' \in [Workspaces -> SUBSET SnapshotRefs]
           /\ \A w \in Workspaces : \A mutation \in contents'[w] :
                [ws |-> w, ref |-> mutation] \in checkpointRows'
<1>1. contents \in [Workspaces -> SUBSET SnapshotRefs]
  BY DEF CheckpointInvariant, CheckpointTypes
<1>2. holds \in SUBSET SnapshotRefs /\ AllRecorded(ws, holds)
  <2>1. ASSUME NEW r \in DOMAIN snapshots, snapshots[r].ws = ws, holds = snapshots[r].holds
        PROVE  holds \in SUBSET SnapshotRefs /\ AllRecorded(ws, holds)
    BY <2>1 DEF CheckpointInvariant, CheckpointTypes, SnapshotSound
  <2>2. ASSUME NEW ref \in DOMAIN snapshots, [ws |-> ws, ref |-> ref] \in checkpointRows,
               holds = contents[ws] \cup {ref}
        PROVE  holds \in SUBSET SnapshotRefs /\ AllRecorded(ws, holds)
    BY <1>1, <2>2 DEF CheckpointInvariant, CheckpointTypes, ContentsRecorded, AllRecorded
  <2>. QED
    BY <2>1, <2>2
<1>3. ContentsRecorded
  BY DEF CheckpointInvariant
<1>4. \A w \in Workspaces : contents'[w] = IF w = ws THEN holds ELSE contents[w]
  BY <1>1
<1>. QED
  BY <1>1, <1>2, <1>3, <1>4 DEF ContentsRecorded, AllRecorded

\* The other steps: asking, giving up, the mutation, the two halves of a
\* restore, one that comes late, and a crash.
LEMMA OtherCheckpointStep ==
    ASSUME CheckpointInvariant, CheckpointsNext,
           \/ Registered \/ CheckpointCrash
           \/ \E request \in lateRequests :
                KernelCatchesUp(request) /\ request.op = "restore"
           \/ \E t \in CheckpointCallers :
                \/ \E ws \in Workspaces : snapshot_before_mutation(t, ws)
                \/ SnapshotRaises(t) \/ Mutate(t) \/ restore(t) \/ RestoreWorkspace(t)
    PROVE  CheckpointInvariant'
<1>1. NoCheckpointCall \in CheckpointCalls /\ NoCheckpointCall.pc = "idle"
  BY DEF NoCheckpointCall, CheckpointCalls
<1>2. UNCHANGED <<snapshots, checkpointRows>>
  BY DEF Registered, CheckpointCrash, KernelCatchesUp, snapshot_before_mutation,
     SnapshotRaises, Mutate, restore, RestoreWorkspace
<1>3. checkpointCall \in [CheckpointCallers -> CheckpointCalls]
  BY DEF CheckpointInvariant, CheckpointTypes
<1>4. \A request \in lateRequests' : RequestBacked(request)
  <2>1. \A request \in lateRequests : RequestBacked(request)
    BY DEF CheckpointInvariant
  <2>2. \A t \in CheckpointCallers : \A request \in Outstanding(t) : RequestBacked(request)
    BY OutstandingBacked
  <2>3. CASE CheckpointCrash
    BY <2>1, <2>2, <2>3 DEF CheckpointCrash
  <2>4. ASSUME NEW t \in CheckpointCallers, SnapshotRaises(t) \/ RestoreWorkspace(t)
        PROVE  lateRequests' \subseteq lateRequests \cup Outstanding(t)
    BY <2>4 DEF SnapshotRaises, RestoreWorkspace
  <2>5. CASE lateRequests' \subseteq lateRequests
    BY <2>1, <2>5
  <2>. QED
    BY <2>1, <2>2, <2>3, <2>4, <2>5 DEF Registered, KernelCatchesUp,
       snapshot_before_mutation, Mutate, restore
<1>5. /\ contents' \in [Workspaces -> SUBSET SnapshotRefs]
      /\ \A ws \in Workspaces : \A mutation \in contents'[ws] :
            [ws |-> ws, ref |-> mutation] \in checkpointRows'
  <2>. DEFINE Goal == /\ contents' \in [Workspaces -> SUBSET SnapshotRefs]
                      /\ \A ws \in Workspaces : \A mutation \in contents'[ws] :
                            [ws |-> ws, ref |-> mutation] \in checkpointRows'
  <2>1. ASSUME NEW t \in CheckpointCallers, Mutate(t)
        PROVE  Goal
    <3>. DEFINE call == checkpointCall[t]
    <3>1. IsBacked(call) /\ [ws |-> call.ws, ref |-> call.ref] \in checkpointRows
      BY <2>1 DEF Mutate, CheckpointInvariant, CallBacked
    <3>2. contents' = [contents EXCEPT ![call.ws] = contents[call.ws] \cup {call.ref}]
      BY <2>1 DEF Mutate, CheckpointInvariant, CheckpointTypes
    <3>. QED
      BY <1>2, <3>1, <3>2, ContentsStep DEF IsBacked
  <2>2. ASSUME UNCHANGED contents PROVE Goal
    BY <1>2, <2>2 DEF CheckpointInvariant, CheckpointTypes, ContentsRecorded
  <2>3. ASSUME NEW t \in CheckpointCallers, RestoreWorkspace(t)
        PROVE  Goal
    <3>. DEFINE call == checkpointCall[t]
    <3>1. IsBacked(call)
      BY <2>3 DEF RestoreWorkspace, CheckpointInvariant, CallBacked
    <3>2. CASE contents' = [contents EXCEPT ![call.ws] = snapshots[call.ref].holds]
      BY <1>2, <3>1, <3>2, ContentsStep DEF IsBacked
    <3>. QED
      BY <2>2, <2>3, <3>2 DEF RestoreWorkspace
  <2>4. ASSUME NEW request \in lateRequests, KernelCatchesUp(request), request.op = "restore"
        PROVE  Goal
    <3>1. IsBacked(request)
      BY <2>4 DEF CheckpointInvariant, RequestBacked
    <3>2. contents' = [contents EXCEPT ![request.ws] = snapshots[request.ref].holds]
      BY <2>4 DEF KernelCatchesUp
    <3>. QED
      BY <1>2, <3>1, <3>2, ContentsStep DEF IsBacked
  <2>. HIDE DEF Goal
  <2>5. Goal
    BY <2>1, <2>2, <2>3, <2>4 DEF Registered, CheckpointCrash, snapshot_before_mutation,
       SnapshotRaises, restore
  <2>. QED
    BY <2>5 DEF Goal
<1>6. ASSUME NEW t \in CheckpointCallers, NEW call \in CheckpointCalls,
             checkpointCall' = [checkpointCall EXCEPT ![t] = call],
             \/ call.pc = "idle"
             \/ call.pc = "snapshot" /\ call.ws \in Workspaces
             \/ call.pc = "restore" /\ IsBacked(call)
      PROVE  /\ checkpointCall' \in [CheckpointCallers -> CheckpointCalls]
             /\ \A x \in CheckpointCallers :
                    checkpointCall'[x] = checkpointCall[x] \/ CallBacked(x)'
  <2>1. checkpointCall'[t] = call
    BY <1>3, <1>6
  <2>2. CallBacked(t)'
    BY <1>2, <1>6, <2>1 DEF CallBacked, IsBacked
  <2>. QED
    BY <1>3, <1>6, <2>2
<1>7. /\ checkpointCall' \in [CheckpointCallers -> CheckpointCalls]
      /\ \A x \in CheckpointCallers :
            checkpointCall'[x] = checkpointCall[x] \/ CallBacked(x)'
  <2>1. ASSUME NEW t \in CheckpointCallers,
               SnapshotRaises(t) \/ Mutate(t) \/ RestoreWorkspace(t)
        PROVE  checkpointCall' = [checkpointCall EXCEPT ![t] = NoCheckpointCall]
    BY <2>1 DEF SnapshotRaises, Mutate, RestoreWorkspace, EndCheckpointCall
  <2>2. ASSUME NEW t \in CheckpointCallers, NEW ws \in Workspaces,
               snapshot_before_mutation(t, ws)
        PROVE  \E call \in CheckpointCalls :
                  /\ checkpointCall' = [checkpointCall EXCEPT ![t] = call]
                  /\ call.pc = "snapshot" /\ call.ws \in Workspaces
    <3>1. [pc |-> "snapshot", ws |-> ws, ref |-> NoRef] \in CheckpointCalls
      BY DEF CheckpointCalls
    <3>. QED
      BY <2>2, <3>1 DEF snapshot_before_mutation
  <2>3. ASSUME NEW t \in CheckpointCallers, restore(t)
        PROVE  \E call \in CheckpointCalls :
                  /\ checkpointCall' = [checkpointCall EXCEPT ![t] = call]
                  /\ call.pc = "restore" /\ IsBacked(call)
    <3>1. PICK row \in checkpointRows :
            checkpointCall' = [checkpointCall EXCEPT ![t] =
                [pc |-> "restore", ws |-> row.ws, ref |-> row.ref]]
      BY <2>3 DEF restore
    <3>2. IsBacked(row)
      BY DEF CheckpointInvariant
    <3>3. row.ws \in Workspaces /\ row.ref \in SnapshotRefs
      BY <3>2 DEF IsBacked, CheckpointInvariant, CheckpointTypes
    <3>4. [pc |-> "restore", ws |-> row.ws, ref |-> row.ref] \in CheckpointCalls
      BY <3>3 DEF CheckpointCalls
    <3>5. IsBacked([pc |-> "restore", ws |-> row.ws, ref |-> row.ref])
      BY <3>2 DEF IsBacked
    <3>. QED
      BY <3>1, <3>4, <3>5
  <2>4. CASE CheckpointCrash
    BY <1>1, <2>4 DEF CheckpointCrash, CallBacked
  <2>5. CASE UNCHANGED checkpointCall
    BY <1>3, <2>5
  <2>. QED
    BY <1>1, <1>6, <2>1, <2>2, <2>3, <2>4, <2>5 DEF Registered, KernelCatchesUp
<1>8. CheckpointTypes'
  BY <1>2, <1>5, <1>7 DEF CheckpointInvariant, CheckpointTypes
<1>9. \A row \in checkpointRows' : IsBacked(row)
  BY <1>2 DEF CheckpointInvariant
<1>. QED
  BY <1>2, <1>4, <1>5, <1>7, <1>8, <1>9, PlainCheckpointStep

\* The inductive step of the checkpoint service.
LEMMA CheckpointStep ==
    ASSUME CheckpointInvariant, [CheckpointsNext]_checkpointVars
    PROVE  CheckpointInvariant'
<1>1. CASE UNCHANGED checkpointVars
  BY <1>1 DEF checkpointVars, CheckpointInvariant, CheckpointTypes, CallBacked, IsBacked,
     RequestBacked, AllRecorded, ContentsRecorded, SnapshotSound
<1>2. CASE CheckpointsNext
  <2>1. ASSUME NEW request \in lateRequests, KernelCatchesUp(request)
        PROVE  request.op \in {"restore", "snapshot"}
    BY <2>1 DEF KernelCatchesUp
  <2>. QED
    BY <1>2, <2>1, CopiesStep, RecordStep, OtherCheckpointStep DEF CheckpointsNext
<1>. QED
  BY <1>1, <1>2

\* Before anything is asked of the kernel there is nothing to back.
LEMMA CheckpointStart ==
    ASSUME CheckpointsInit
    PROVE  CheckpointInvariant
<1>1. DOMAIN snapshots = {}
  BY DEF CheckpointsInit
<1>2. CheckpointTypes
  BY <1>1 DEF CheckpointsInit, CheckpointTypes, CheckpointCalls, NoCheckpointCall
<1>. QED
  BY <1>1, <1>2 DEF CheckpointsInit, CheckpointInvariant, CallBacked, NoCheckpointCall,
     ContentsRecorded

(***************************************************************************)
(* Sandboxed scripts                                                       *)
(***************************************************************************)

Streams == {"stdout", "stderr"}
Codes == {0, 1, NoCode}

\* The type invariant.
ExecTypes ==
    /\ clock \in Nat /\ bridged \in Bridged /\ streamEnded \in BOOLEAN
    /\ script \in [pc : {"idle", "stream", "teardown", "result", "timed_out", "raised"},
                   limit : Nat, deadline : Nat, lines : Seq(Streams), code : Codes]
    /\ job \in [state : {"none", "running", "exited", "stopped"}, since : Nat, ceiling : Nat,
                written : Seq(Streams), code : Codes]
    /\ pipe \in Seq([stream : Streams \cup {"exit"}, code : Codes])

\* What the executor has kept is what the script wrote first.
LinesKept ==
    /\ Len(script.lines) <= Len(job.written)
    /\ \A k \in 1 .. Len(script.lines) : script.lines[k] = job.written[k]

\* The pipe holds what was written and not yet read, in order, and last the
\* exit line of a script that has exited; once that has been read there is
\* nothing left.
PipeHolds ==
    LET ahead == Len(job.written) - Len(script.lines) IN
    /\ \A k \in 1 .. ahead : pipe[k].stream = job.written[Len(script.lines) + k]
    /\ script.code = NoCode /\ job.state /= "exited" => Len(pipe) = ahead
    /\ script.code = NoCode /\ job.state = "exited" =>
        /\ Len(pipe) = ahead + 1
        /\ pipe[ahead + 1] = [stream |-> "exit", code |-> job.code]
    /\ script.code /= NoCode =>
        /\ job.state = "exited" /\ script.code = job.code
        /\ ahead = 0 /\ Len(pipe) = 0

\* The life of the workload, as far as the executor depends on it.
WorkloadLife ==
    /\ job.state = "none" => script.pc \in {"idle", "raised"} /\ job.written = << >>
    /\ script.pc = "idle" => job.state = "none" /\ pipe = << >>
                             /\ script.lines = << >> /\ script.code = NoCode
    /\ job.state = "none" => pipe = << >>
    /\ job.state = "exited" => job.code \in {0, 1}
    /\ streamEnded <=> job.state \in {"exited", "stopped"}
    /\ script.pc \in {"result", "timed_out"} => job.state \in {"exited", "stopped"}
    /\ script.pc = "timed_out" => script.code = NoCode

ExecInvariant ==
    /\ ExecTypes /\ LinesKept /\ WorkloadLife
    /\ script.pc = "stream" => PipeHolds
    /\ script.pc = "result" /\ script.code /= NoCode =>
        /\ job.state = "exited" /\ job.code = script.code
        /\ Len(script.lines) = Len(job.written)

\* No script runs before the first call.
LEMMA ExecStart ==
    ASSUME ExecInit
    PROVE  ExecInvariant
<1>1. << >> \in Seq(Streams) /\ << >> \in Seq([stream : Streams \cup {"exit"}, code : Codes])
  OBVIOUS
<1>2. ExecTypes
  BY <1>1 DEF ExecInit, ExecTypes, NoJob, Codes
<1>. QED
  BY <1>2 DEF ExecInit, ExecInvariant, LinesKept, WorkloadLife, NoJob

\* execute: a job is dispatched, or the call raises.
LEMMA ExecuteStep ==
    ASSUME ExecInvariant, NEW limit \in TimeLimits, execute(limit)
    PROVE  ExecInvariant'
<1>. DEFINE started == [NoJob EXCEPT !.state = "running", !.since = clock,
                                     !.ceiling = Ceiling(limit)]
<1>1. limit \in Nat /\ Ceiling(limit) \in Nat /\ clock \in Nat
  BY ExecAssumption DEF Ceiling, ExecInvariant, ExecTypes
<1>2. /\ started.state = "running" /\ started.written = << >> /\ started.code = NoCode
      /\ started \in [state : {"none", "running", "exited", "stopped"}, since : Nat,
                      ceiling : Nat, written : Seq(Streams), code : Codes]
  <2>1. << >> \in Seq(Streams) /\ NoCode \in Codes
    BY DEF Codes
  <2>2. NoJob \in [state : {"none", "running", "exited", "stopped"}, since : Nat,
                   ceiling : Nat, written : Seq(Streams), code : Codes]
    BY <2>1 DEF NoJob
  <2>. QED
    BY <1>1, <2>2 DEF NoJob
<1>3. /\ script.pc = "idle" /\ script.lines = << >> /\ script.code = NoCode
      /\ pipe = << >> /\ job.state = "none" /\ job.written = << >> /\ streamEnded = FALSE
  BY DEF execute, ExecInvariant, WorkloadLife, ExecTypes
<1>4. UNCHANGED <<clock, bridged, pipe, streamEnded>>
  BY DEF execute
<1>5. job' = started \/ job' = job
  BY DEF execute
<1>6. \/ script' = [script EXCEPT !.pc = "stream", !.limit = limit, !.deadline = clock + limit]
           /\ job' = started
      \/ script' = [script EXCEPT !.pc = "raised"]
  BY DEF execute
<1>7. ExecTypes'
  <2>1. job' \in [state : {"none", "running", "exited", "stopped"}, since : Nat, ceiling : Nat,
                  written : Seq(Streams), code : Codes]
    BY <1>2, <1>5 DEF ExecInvariant, ExecTypes
  <2>2. script' \in [pc : {"idle", "stream", "teardown", "result", "timed_out", "raised"},
                     limit : Nat, deadline : Nat, lines : Seq(Streams), code : Codes]
    <3>1. clock + limit \in Nat
      BY <1>1
    <3>. QED
      BY <1>1, <1>6, <3>1 DEF ExecInvariant, ExecTypes
  <2>. QED
    BY <1>4, <2>1, <2>2 DEF ExecInvariant, ExecTypes
<1>8. /\ script'.lines = << >> /\ script'.code = NoCode /\ job'.written = << >>
      /\ script'.pc \in {"stream", "raised"} /\ job'.state \in {"none", "running"}
      /\ script'.pc = "stream" => job'.state = "running"
  BY <1>2, <1>3, <1>5, <1>6 DEF ExecInvariant, ExecTypes
<1>. HIDE DEF started
<1>9. LinesKept' /\ WorkloadLife'
  BY <1>3, <1>4, <1>8 DEF LinesKept, WorkloadLife
<1>10. PipeHolds'
  BY <1>3, <1>4, <1>8 DEF PipeHolds
<1>. QED
  BY <1>7, <1>8, <1>9, <1>10 DEF ExecInvariant

\* The script writes a line: it is behind all the others in the pipe.
LEMMA WritesStep ==
    ASSUME ExecInvariant, NEW stream \in Streams, JobWrites(stream)
    PROVE  ExecInvariant'
<1>. DEFINE line == [stream |-> stream, code |-> NoCode]
<1>1. /\ job.written \in Seq(Streams) /\ script.lines \in Seq(Streams)
      /\ pipe \in Seq([stream : Streams \cup {"exit"}, code : Codes])
      /\ line \in [stream : Streams \cup {"exit"}, code : Codes]
  BY DEF ExecInvariant, ExecTypes, Codes
<1>2. /\ job.state = "running" /\ job' = [job EXCEPT !.written = Append(@, stream)]
      /\ pipe' = Append(pipe, line) /\ UNCHANGED <<clock, bridged, script, streamEnded>>
  BY DEF JobWrites
<1>3. /\ job'.written = Append(job.written, stream) /\ job'.state = job.state
      /\ job'.code = job.code
  BY <1>2 DEF ExecInvariant, ExecTypes
<1>4. ExecTypes'
  <2>1. Append(job.written, stream) \in Seq(Streams)
    BY <1>1
  <2>2. job' \in [state : {"none", "running", "exited", "stopped"}, since : Nat, ceiling : Nat,
                  written : Seq(Streams), code : Codes]
    BY <1>2, <2>1 DEF ExecInvariant, ExecTypes
  <2>. HIDE DEF line
  <2>3. pipe' \in Seq([stream : Streams \cup {"exit"}, code : Codes])
    BY <1>1, <1>2
  <2>. QED
    BY <1>2, <2>2, <2>3 DEF ExecInvariant, ExecTypes
<1>5. /\ Len(job'.written) = Len(job.written) + 1 /\ Len(pipe') = Len(pipe) + 1
      /\ \A k \in 1 .. Len(job.written) : job'.written[k] = job.written[k]
      /\ job'.written[Len(job.written) + 1] = stream
      /\ \A k \in 1 .. Len(pipe) : pipe'[k] = pipe[k]
      /\ pipe'[Len(pipe) + 1] = line
      /\ Len(job.written) \in Nat /\ Len(script.lines) \in Nat /\ Len(pipe) \in Nat
  <2>. HIDE DEF line
  <2>. QED
    BY <1>1, <1>2, <1>3
<1>6. LinesKept'
  BY <1>2, <1>5 DEF ExecInvariant, LinesKept
<1>7. WorkloadLife'
  BY <1>2, <1>3 DEF ExecInvariant, WorkloadLife
<1>8. ASSUME script.pc = "stream" PROVE PipeHolds'
  <2>. DEFINE ahead == Len(job.written) - Len(script.lines)
  <2>1. /\ script.code = NoCode /\ Len(pipe) = ahead /\ ahead \in Nat
        /\ \A k \in 1 .. ahead : pipe[k].stream = job.written[Len(script.lines) + k]
    BY <1>2, <1>5, <1>8 DEF ExecInvariant, PipeHolds, LinesKept
  <2>2. \A k \in 1 .. ahead + 1 : pipe'[k].stream = job'.written[Len(script.lines) + k]
    <3>. DEFINE W == Len(job.written)
                L == Len(script.lines)
                P == Len(pipe)
    <3>1. W \in Nat /\ L \in Nat /\ P \in Nat /\ P = W - L
      BY <1>5, <2>1
    <3>2. ASSUME NEW k \in 1 .. ahead
          PROVE  pipe'[k].stream = job'.written[L + k]
      <4>. HIDE DEF W, L, P
      <4>1. k \in 1 .. W - L
        BY DEF W, L
      <4>2. L + k \in 1 .. W /\ k \in 1 .. P
        BY <3>1, <4>1
      <4>3. job'.written[L + k] = job.written[L + k] /\ pipe'[k] = pipe[k]
        BY <1>5, <4>2 DEF W, P
      <4>. QED
        BY <2>1, <4>3 DEF L
    <3>3. pipe'[ahead + 1].stream = job'.written[L + (ahead + 1)]
      <4>1. line.stream = stream
        OBVIOUS
      <4>. HIDE DEF W, L, P, line
      <4>2. L + ((W - L) + 1) = W + 1 /\ (W - L) + 1 = P + 1
        BY <3>1
      <4>3. job'.written[W + 1] = stream /\ pipe'[P + 1] = line
        BY <1>5 DEF W, P
      <4>4. pipe'[(W - L) + 1].stream = job'.written[L + ((W - L) + 1)]
        BY <4>1, <4>2, <4>3
      <4>. QED
        BY <4>4 DEF W, L
    <3>4. \A k \in 1 .. ahead + 1 : k \in 1 .. ahead \/ k = ahead + 1
      <4>. HIDE DEF ahead
      <4>. QED
        BY <2>1
    <3>. HIDE DEF ahead
    <3>. QED
      BY <3>2, <3>3, <3>4
  <2>3. Len(job'.written) - Len(script'.lines) = ahead + 1
    BY <1>2, <1>5
  <2>. HIDE DEF line, ahead
  <2>. QED
    BY <1>2, <1>3, <1>5, <2>1, <2>2, <2>3 DEF PipeHolds
<1>9. script.pc \notin {"result", "timed_out"}
  BY <1>2 DEF ExecInvariant, WorkloadLife
<1>. QED
  BY <1>2, <1>4, <1>6, <1>7, <1>8, <1>9 DEF ExecInvariant

\* The script exits: the exit line is the last one in the pipe.
LEMMA ExitsStep ==
    ASSUME ExecInvariant, NEW code \in {0, 1}, JobExits(code)
    PROVE  ExecInvariant'
<1>. DEFINE line == [stream |-> "exit", code |-> code]
<1>1. /\ pipe \in Seq([stream : Streams \cup {"exit"}, code : Codes])
      /\ line \in [stream : Streams \cup {"exit"}, code : Codes]
  BY DEF ExecInvariant, ExecTypes, Codes
<1>2. /\ job.state = "running" /\ job' = [job EXCEPT !.state = "exited", !.code = code]
      /\ pipe' = Append(pipe, line) /\ streamEnded' = TRUE
      /\ UNCHANGED <<clock, bridged, script>>
  BY DEF JobExits
<1>3. job'.written = job.written /\ job'.state = "exited" /\ job'.code = code
  BY <1>2 DEF ExecInvariant, ExecTypes
<1>4. ExecTypes'
  <2>1. job' \in [state : {"none", "running", "exited", "stopped"}, since : Nat, ceiling : Nat,
                  written : Seq(Streams), code : Codes]
    BY <1>2 DEF ExecInvariant, ExecTypes, Codes
  <2>. HIDE DEF line
  <2>2. pipe' \in Seq([stream : Streams \cup {"exit"}, code : Codes])
    BY <1>1, <1>2
  <2>. QED
    BY <1>2, <2>1, <2>2 DEF ExecInvariant, ExecTypes
<1>5. /\ Len(pipe) \in Nat /\ Len(pipe') = Len(pipe) + 1
      /\ \A k \in 1 .. Len(pipe) : pipe'[k] = pipe[k]
      /\ pipe'[Len(pipe) + 1] = line
  <2>. HIDE DEF line
  <2>. QED
    BY <1>1, <1>2
<1>6. LinesKept' /\ WorkloadLife'
  BY <1>2, <1>3 DEF ExecInvariant, LinesKept, WorkloadLife
<1>7. ASSUME script.pc = "stream" PROVE PipeHolds'
  <2>. DEFINE ahead == Len(job.written) - Len(script.lines)
  <2>1. /\ script.code = NoCode /\ Len(pipe) = ahead
        /\ \A k \in 1 .. ahead : pipe[k].stream = job.written[Len(script.lines) + k]
    BY <1>2, <1>7 DEF ExecInvariant, PipeHolds
  <2>2. /\ Len(job'.written) - Len(script'.lines) = ahead
        /\ script' = script
    BY <1>2, <1>3
  <2>3. /\ Len(pipe') = ahead + 1
        /\ pipe'[ahead + 1] = [stream |-> "exit", code |-> job'.code]
    BY <1>3, <1>5, <2>1
  <2>4. \A k \in 1 .. ahead : pipe'[k].stream = job'.written[Len(script'.lines) + k]
    <3>. HIDE DEF ahead
    <3>. QED
      BY <1>3, <1>5, <2>1, <2>2
  <2>. HIDE DEF ahead
  <2>. QED
    BY <1>3, <2>1, <2>2, <2>3, <2>4 DEF PipeHolds
<1>8. script.pc \notin {"result", "timed_out"}
  BY <1>2 DEF ExecInvariant, WorkloadLife
<1>. QED
  BY <1>2, <1>4, <1>6, <1>7, <1>8 DEF ExecInvariant

\* The kernel stops the workload, time passes, the stream raises, the executor
\* tears the workload down: none of them touches a line.
LEMMA QuietExecStep ==
    ASSUME ExecInvariant, JobHitsCeiling \/ HalfSecond \/ StreamRaises \/ _timeout
    PROVE  ExecInvariant'
<1>1. /\ script'.lines = script.lines /\ job'.written = job.written /\ pipe' = pipe
      /\ job'.code = job.code
      /\ \/ job'.state = job.state /\ (streamEnded' = streamEnded \/ job.state # "running")
         \/ job.state = "running" /\ job'.state = "stopped"
  BY DEF JobHitsCeiling, HalfSecond, StreamRaises, _timeout, ExecInvariant, ExecTypes
<1>2. ExecTypes'
  <2>1. job' \in [state : {"none", "running", "exited", "stopped"}, since : Nat, ceiling : Nat,
                  written : Seq(Streams), code : Codes]
    BY DEF JobHitsCeiling, HalfSecond, StreamRaises, _timeout, ExecInvariant, ExecTypes
  <2>2. script' \in [pc : {"idle", "stream", "teardown", "result", "timed_out", "raised"},
                     limit : Nat, deadline : Nat, lines : Seq(Streams), code : Codes]
    BY DEF JobHitsCeiling, HalfSecond, StreamRaises, _timeout, ExecInvariant, ExecTypes, Codes
  <2>3. clock' \in Nat /\ bridged' = bridged
    BY DEF JobHitsCeiling, HalfSecond, StreamRaises, _timeout, ExecInvariant, ExecTypes
  <2>4. streamEnded' \in BOOLEAN
    BY DEF JobHitsCeiling, HalfSecond, StreamRaises, _timeout, ExecInvariant, ExecTypes
  <2>. QED
    BY <1>1, <2>1, <2>2, <2>3, <2>4 DEF ExecInvariant, ExecTypes
<1>3. LinesKept'
  BY <1>1 DEF ExecInvariant, LinesKept
<1>4. WorkloadLife' /\ (script'.pc = "stream" => script' = script)
  <2>1. CASE JobHitsCeiling
    BY <1>1, <2>1 DEF JobHitsCeiling, ExecInvariant, ExecTypes, WorkloadLife
  <2>2. CASE HalfSecond
    BY <2>2 DEF HalfSecond, ExecInvariant, WorkloadLife
  <2>3. CASE StreamRaises
    BY <2>3 DEF StreamRaises, ExecInvariant, ExecTypes, WorkloadLife
  <2>4. CASE _timeout
    <3>1. job.state /= "none" /\ job.state \in {"running", "exited", "stopped"}
      BY <2>4 DEF _timeout, ExecInvariant, ExecTypes, WorkloadLife
    <3>2. CASE /\ job' = [job EXCEPT !.state = IF @ = "running" THEN "stopped" ELSE @]
               /\ streamEnded' = TRUE
      <4>1. job'.state \in {"exited", "stopped"} /\ (job'.state = "exited" => job.state = "exited")
        BY <3>1, <3>2 DEF ExecInvariant, ExecTypes
      <4>2. \/ script'.pc = "timed_out" /\ script'.code = NoCode
            \/ script'.pc = "raised"
        BY <2>4 DEF _timeout, ExecInvariant, ExecTypes
      <4>. QED
        BY <1>1, <3>2, <4>1, <4>2 DEF ExecInvariant, WorkloadLife
    <3>3. CASE script' = [script EXCEPT !.pc = "raised"] /\ UNCHANGED <<job, streamEnded>>
      <4>1. script'.pc = "raised"
        BY <3>3 DEF ExecInvariant, ExecTypes
      <4>. QED
        BY <1>1, <3>3, <4>1 DEF ExecInvariant, WorkloadLife
    <3>. QED
      BY <2>4, <3>2, <3>3 DEF _timeout
  <2>. QED
    BY <2>1, <2>2, <2>3, <2>4
<1>5. ASSUME script'.pc = "stream" PROVE PipeHolds'
  <2>1. script' = script
    BY <1>4, <1>5
  <2>2. PipeHolds
    BY <1>5, <2>1 DEF ExecInvariant
  <2>3. job.state = "exited" <=> job'.state = "exited"
    BY <1>1
  <2>. QED
    BY <1>1, <2>1, <2>2, <2>3 DEF PipeHolds
<1>6. script'.pc = "result" => script' = script
  BY DEF JobHitsCeiling, HalfSecond, StreamRaises, _timeout, ExecInvariant, ExecTypes
<1>. QED
  BY <1>1, <1>2, <1>3, <1>4, <1>5, <1>6 DEF ExecInvariant

\* One turn of _capture: the line kept is the next one the script wrote, and
\* the exit line is read when nothing is left to keep.
LEMMA CaptureLineStep ==
    ASSUME ExecInvariant, CaptureLine
    PROVE  ExecInvariant'
<1>. DEFINE W == Len(job.written)
            L == Len(script.lines)
            P == Len(pipe)
            line == Head(pipe)
<1>1. /\ job.written \in Seq(Streams) /\ script.lines \in Seq(Streams)
      /\ pipe \in Seq([stream : Streams \cup {"exit"}, code : Codes])
      /\ W \in Nat /\ L \in Nat /\ P \in Nat
  BY DEF ExecInvariant, ExecTypes
<1>2. script.pc = "stream" /\ pipe /= << >> /\ UNCHANGED <<clock, bridged, job, streamEnded>>
      /\ pipe' = Tail(pipe)
  BY DEF CaptureLine, LineAvailable
<1>3. /\ P >= 1 /\ line = pipe[1] /\ Len(pipe') = P - 1
      /\ \A k \in 1 .. P - 1 : pipe'[k] = pipe[k + 1]
      /\ line \in [stream : Streams \cup {"exit"}, code : Codes]
      /\ pipe' \in Seq([stream : Streams \cup {"exit"}, code : Codes])
  <2>. DEFINE Lines == [stream : Streams \cup {"exit"}, code : Codes]
  <2>1. pipe \in Seq(Lines)
    BY <1>1
  <2>. HIDE DEF Lines
  <2>2. /\ Head(pipe) \in Lines /\ Tail(pipe) \in Seq(Lines)
        /\ Len(Tail(pipe)) = Len(pipe) - 1
        /\ \A k \in 1 .. Len(pipe) - 1 : Tail(pipe)[k] = pipe[k + 1]
    BY <1>2, <2>1, HeadTailProperties
  <2>3. Head(pipe) = pipe[1] /\ Len(pipe) >= 1
    BY <1>2, <2>1
  <2>. QED
    BY <1>2, <2>2, <2>3 DEF Lines
<1>4. PipeHolds /\ LinesKept /\ WorkloadLife
  BY <1>2 DEF ExecInvariant
<1>5. job.state /= "none"
  BY <1>2, <1>4 DEF WorkloadLife
<1>6. /\ script.code = NoCode /\ W - L \in Nat
      /\ \A k \in 1 .. W - L : pipe[k].stream = job.written[L + k]
      /\ job.state /= "exited" => P = W - L
      /\ job.state = "exited" => P = (W - L) + 1
                                 /\ pipe[(W - L) + 1] = [stream |-> "exit", code |-> job.code]
  <2>1. script.code = NoCode
    BY <1>3, <1>4 DEF PipeHolds
  <2>2. W - L \in Nat
    BY <1>1, <1>4 DEF LinesKept
  <2>. QED
    BY <1>4, <2>1, <2>2 DEF PipeHolds
<1>7. CASE clock > script.deadline
  <2>1. script' = [script EXCEPT !.pc = "teardown"]
    BY <1>7 DEF CaptureLine
  <2>2. ExecTypes'
    BY <1>2, <1>3, <2>1 DEF ExecInvariant, ExecTypes
  <2>3. script'.pc = "teardown" /\ script'.lines = script.lines /\ script'.code = script.code
    BY <2>1 DEF ExecInvariant, ExecTypes
  <2>4. LinesKept' /\ WorkloadLife'
    BY <1>2, <1>4, <1>5, <2>3 DEF LinesKept, WorkloadLife
  <2>. QED
    BY <2>2, <2>3, <2>4 DEF ExecInvariant
<1>8. CASE ~(clock > script.deadline) /\ line.stream = "exit"
  <2>1. script' = [script EXCEPT !.code = line.code]
    BY <1>8 DEF CaptureLine
  <2>2. ExecTypes'
    BY <1>2, <1>3, <2>1 DEF ExecInvariant, ExecTypes
  <2>3. script'.pc = "stream" /\ script'.lines = script.lines /\ script'.code = line.code
    BY <1>2, <2>1 DEF ExecInvariant, ExecTypes
  <2>4. W - L = 0
    <3>1. ASSUME W - L >= 1 PROVE FALSE
      <4>1. L + 1 \in 1 .. W /\ 1 \in 1 .. W - L
        BY <1>1, <3>1
      <4>2. pipe[1].stream \in Streams
        BY <1>1, <1>6, <4>1
      <4>. QED
        BY <1>3, <1>8, <4>2 DEF Streams
    <3>. HIDE DEF W, L
    <3>. QED
      BY <1>6, <3>1
  <2>5. job.state = "exited" /\ line.code = job.code /\ P = 1
    <3>. HIDE DEF W, L, P, line
    <3>. QED
      BY <1>3, <1>6, <2>4
  <2>6. LinesKept' /\ WorkloadLife'
    BY <1>2, <1>4, <1>5, <2>3 DEF LinesKept, WorkloadLife
  <2>7. PipeHolds'
    <3>1. /\ Len(job'.written) - Len(script'.lines) = 0 /\ Len(pipe') = 0
          /\ script'.code = job'.code /\ job'.state = "exited" /\ script'.code /= NoCode
      <4>1. job.code \in {0, 1}
        BY <1>4, <2>5 DEF WorkloadLife
      <4>. QED
        BY <1>2, <1>3, <2>3, <2>4, <2>5, <4>1 DEF NoCode
    <3>2. \A k \in 1 .. Len(job'.written) - Len(script'.lines) : FALSE
      BY <3>1
    <3>. HIDE DEF W, L, P, line
    <3>. QED
      BY <3>1, <3>2 DEF PipeHolds
  <2>. QED
    BY <2>2, <2>3, <2>6, <2>7 DEF ExecInvariant
<1>9. CASE ~(clock > script.deadline) /\ line.stream /= "exit"
  <2>1. script' = [script EXCEPT !.lines = Append(@, line.stream)] /\ line.stream \in Streams
    BY <1>3, <1>9 DEF CaptureLine
  <2>2. ExecTypes'
    <3>1. Append(script.lines, line.stream) \in Seq(Streams)
      BY <1>1, <2>1
    <3>. HIDE DEF line
    <3>. QED
      BY <1>2, <1>3, <2>1, <3>1 DEF ExecInvariant, ExecTypes
  <2>3. /\ script'.pc = "stream" /\ script'.lines = Append(script.lines, line.stream)
        /\ script'.code = script.code
    BY <1>2, <2>1 DEF ExecInvariant, ExecTypes
  <2>4. W - L >= 1
    <3>1. ASSUME W - L = 0 PROVE FALSE
      <4>. HIDE DEF W, L, P, line
      <4>1. P = 1 /\ pipe[1] = [stream |-> "exit", code |-> job.code]
        BY <1>3, <1>6, <3>1
      <4>. QED
        BY <1>3, <1>9, <4>1
    <3>. HIDE DEF W, L
    <3>. QED
      BY <1>6, <3>1
  <2>5. /\ Len(script'.lines) = L + 1
        /\ \A k \in 1 .. L : script'.lines[k] = script.lines[k]
        /\ script'.lines[L + 1] = line.stream
    <3>. HIDE DEF line
    <3>. QED
      BY <1>1, <2>1, <2>3
  <2>6. line.stream = job.written[L + 1]
    <3>. HIDE DEF W, L, P, line
    <3>1. 1 \in 1 .. W - L
      BY <1>1, <2>4
    <3>. QED
      BY <1>3, <1>6, <3>1
  <2>7. LinesKept'
    <3>1. L + 1 <= W /\ \A k \in 1 .. L + 1 : k \in 1 .. L \/ k = L + 1
      <4>. HIDE DEF W, L
      <4>. QED
        BY <1>1, <2>4
    <3>2. \A k \in 1 .. L : script.lines[k] = job.written[k]
      BY <1>4 DEF LinesKept
    <3>. HIDE DEF line
    <3>3. \A k \in 1 .. L + 1 : script'.lines[k] = job.written[k]
      BY <2>5, <2>6, <3>1, <3>2
    <3>. QED
      BY <1>2, <2>5, <3>1, <3>3 DEF LinesKept
  <2>8. WorkloadLife'
    BY <1>2, <1>4, <1>5, <2>3 DEF WorkloadLife
  <2>9. PipeHolds'
    <3>1. Len(job'.written) - Len(script'.lines) = (W - L) - 1 /\ Len(script'.lines) = L + 1
      <4>. HIDE DEF line
      <4>1. Len(job'.written) = W /\ Len(script'.lines) = L + 1
        BY <1>2, <2>5
      <4>. HIDE DEF W, L
      <4>. QED
        BY <1>1, <4>1
    <3>. HIDE DEF W, L, P, line
    <3>2. ASSUME NEW k \in 1 .. (W - L) - 1
          PROVE  pipe'[k].stream = job'.written[(L + 1) + k]
      <4>1. k + 1 \in 1 .. W - L /\ k \in 1 .. P - 1 /\ L + (k + 1) = (L + 1) + k
        BY <1>1, <1>6
      <4>2. pipe'[k] = pipe[k + 1]
        BY <1>3, <4>1
      <4>3. pipe[k + 1].stream = job.written[L + (k + 1)]
        BY <1>6, <4>1
      <4>. QED
        BY <1>2, <4>1, <4>2, <4>3
    <3>3. job.state /= "exited" => Len(pipe') = (W - L) - 1
      BY <1>3, <1>6
    <3>4. job.state = "exited" =>
            /\ Len(pipe') = ((W - L) - 1) + 1
            /\ pipe'[((W - L) - 1) + 1] = [stream |-> "exit", code |-> job.code]
      <4>1. ASSUME job.state = "exited"
            PROVE  /\ Len(pipe') = ((W - L) - 1) + 1
                   /\ pipe'[((W - L) - 1) + 1] = [stream |-> "exit", code |-> job.code]
        <5>1. /\ P = (W - L) + 1 /\ ((W - L) - 1) + 1 = W - L
              /\ W - L \in 1 .. P - 1 /\ P - 1 = W - L
          BY <1>1, <1>6, <2>4, <4>1
        <5>2. pipe'[W - L] = pipe[(W - L) + 1]
          BY <1>3, <5>1
        <5>. QED
          BY <1>3, <1>6, <4>1, <5>1, <5>2
      <4>. QED
        BY <4>1
    <3>. QED
      BY <1>2, <1>6, <2>3, <3>1, <3>2, <3>3, <3>4 DEF PipeHolds
  <2>. QED
    BY <2>2, <2>3, <2>7, <2>8, <2>9 DEF ExecInvariant
<1>. QED
  BY <1>7, <1>8, <1>9

\* The stream is exhausted: everything the script wrote has been kept.
LEMMA CaptureEndsStep ==
    ASSUME ExecInvariant, CaptureEnds
    PROVE  ExecInvariant'
<1>1. /\ script.pc = "stream" /\ pipe = << >> /\ streamEnded
      /\ UNCHANGED <<clock, bridged, job, pipe, streamEnded>>
      /\ script' = [script EXCEPT !.pc = IF clock > script.deadline THEN "teardown" ELSE "result"]
  BY DEF CaptureEnds
<1>2. /\ script'.pc \in {"teardown", "result"} /\ script'.lines = script.lines
      /\ script'.code = script.code
  BY <1>1 DEF ExecInvariant, ExecTypes
<1>3. ExecTypes'
  BY <1>1 DEF ExecInvariant, ExecTypes
<1>4. PipeHolds /\ WorkloadLife /\ LinesKept
  BY <1>1 DEF ExecInvariant
<1>5. LinesKept' /\ WorkloadLife'
  BY <1>1, <1>2, <1>4 DEF LinesKept, WorkloadLife
<1>6. script.code /= NoCode =>
        job.state = "exited" /\ script.code = job.code /\ Len(script.lines) = Len(job.written)
  <2>1. Len(script.lines) \in Nat /\ Len(job.written) \in Nat
    BY DEF ExecInvariant, ExecTypes
  <2>. QED
    BY <1>4, <2>1 DEF PipeHolds
<1>. QED
  BY <1>1, <1>2, <1>3, <1>5, <1>6 DEF ExecInvariant

\* The inductive step of script execution.
LEMMA ExecStep ==
    ASSUME ExecInvariant, [ExecNext]_execVars
    PROVE  ExecInvariant'
<1>1. CASE UNCHANGED execVars
  BY <1>1 DEF execVars, ExecInvariant, ExecTypes, LinesKept, WorkloadLife, PipeHolds
<1>. QED
  BY <1>1, ExecuteStep, WritesStep, ExitsStep, QuietExecStep, CaptureLineStep, CaptureEndsStep
  DEF ExecNext, Streams

\* The invariant says what a result is worth.
LEMMA ExecHonest ==
    ASSUME ExecInvariant
    PROVE  SandboxResultsHonest
<1>. DEFINE L == Len(script.lines)
            W == Len(job.written)
<1>1. /\ job.written \in Seq(Streams) /\ script.lines \in Seq(Streams)
      /\ L \in Nat /\ W \in Nat /\ L <= W
      /\ \A k \in 1 .. L : script.lines[k] = job.written[k]
  BY DEF ExecInvariant, ExecTypes, LinesKept
<1>2. L = W => script.lines = job.written
  <2>. SUFFICES ASSUME L = W PROVE script.lines = job.written
    OBVIOUS
  <2>. QED
    BY <1>1, SeqEqual
<1>3. /\ SubSeq(job.written, 1, L) \in Seq(Streams)
      /\ Len(SubSeq(job.written, 1, L)) = L
      /\ \A k \in 1 .. L : SubSeq(job.written, 1, L)[k] = job.written[k]
  BY <1>1
<1>4. script.lines = SubSeq(job.written, 1, L)
  BY <1>1, <1>3, SeqEqual
<1>5. \E n \in 0 .. Len(job.written) : script.lines = SubSeq(job.written, 1, n)
  <2>1. L \in 0 .. W
    BY <1>1
  <2>. QED
    BY <1>4, <2>1
<1>. QED
  BY <1>2, <1>5 DEF ExecInvariant, WorkloadLife, SandboxResultsHonest

(***************************************************************************)
(* Planning                                                                *)
(***************************************************************************)

\* A definition is a list of steps, and no step is named by the empty string.
IsDefinition(steps) ==
    /\ \E n \in Nat : DOMAIN steps = 1 .. n
    /\ \A i \in DOMAIN steps : steps[i].id /= "empty"

\* What the Planner has established of a definition it compiled, apart from
\* the catalogue, which may have changed since.
Compiled(steps) ==
    /\ NodePositions(steps) = DOMAIN steps
    /\ \A s \in DOMAIN Nodes(steps) : Nodes(steps)[s] \subseteq DOMAIN Nodes(steps)
    /\ Acyclic(KnownDeps(Nodes(steps)))

\* The canonical steps keep ids and dependencies.
StoredFrom(steps, stored) ==
    /\ DOMAIN stored = DOMAIN steps
    /\ \A i \in DOMAIN steps : /\ stored[i].id = steps[i].id
                               /\ stored[i].dependsOn = steps[i].deps
                               /\ ~SerializationFails(steps[i])

\* The step rows hold the dependencies of the step with their id.
RowsFrom(steps, stored) ==
    /\ DOMAIN stored = {steps[i].id : i \in DOMAIN steps}
    /\ \A i \in DOMAIN steps : stored[steps[i].id] = steps[i].deps

PlanningInvariant ==
    /\ IsDefinition(posted)
    /\ planning \in {"posted", "planned", "stored", "rejected"}
    /\ planning /= "stored" => definition = << >> /\ stepRows = << >>
    /\ planning \in {"planned", "stored"} =>
        Compiled(posted) /\ planned = KnownDeps(Nodes(posted))
    /\ planning = "stored" =>
        /\ StoredFrom(posted, definition)
        /\ stepRows /= << >> => RowsFrom(posted, stepRows)

\* In a definition that compiled every step has an id of its own.
LEMMA IdsDistinct ==
    ASSUME NEW steps, IsDefinition(steps), NodePositions(steps) = DOMAIN steps
    PROVE  \A i, j \in DOMAIN steps : steps[i].id = steps[j].id => i = j
<1>1. PICK n \in Nat : DOMAIN steps = 1 .. n
  BY DEF IsDefinition
<1>2. \A i \in DOMAIN steps : /\ IsWellFormed(steps[i])
                              /\ \A j \in 1 .. i - 1 : steps[j].id /= steps[i].id
  <2>1. ASSUME NEW i \in DOMAIN steps
        PROVE  /\ IsWellFormed(steps[i])
               /\ \A j \in 1 .. i - 1 : IsWellFormed(steps[j]) => steps[j].id /= steps[i].id
    BY DEF NodePositions
  <2>2. \A i \in DOMAIN steps : \A j \in 1 .. i - 1 : j \in DOMAIN steps
    BY <1>1
  <2>. QED
    BY <2>1, <2>2
<1>3. ASSUME NEW i \in DOMAIN steps, NEW j \in DOMAIN steps, steps[i].id = steps[j].id
      PROVE  i = j
  <2>1. i \in Int /\ j \in Int /\ i >= 1 /\ j >= 1
    BY <1>1
  <2>2. ~(i < j) /\ ~(j < i)
    <3>1. i < j => i \in 1 .. j - 1
      BY <2>1
    <3>2. j < i => j \in 1 .. i - 1
      BY <2>1
    <3>. QED
      BY <1>2, <1>3, <3>1, <3>2
  <2>. QED
    BY <2>1, <2>2
<1>. QED
  BY <1>3

\* Its nodes are its steps, with the dependencies they name.
LEMMA NodesOfCompiled ==
    ASSUME NEW steps, IsDefinition(steps), NodePositions(steps) = DOMAIN steps
    PROVE  /\ DOMAIN Nodes(steps) = {steps[i].id : i \in DOMAIN steps}
           /\ \A i \in DOMAIN steps : Nodes(steps)[steps[i].id] = StringTuple(steps[i])
<1>1. \A i, j \in DOMAIN steps : steps[i].id = steps[j].id => i = j
  BY IdsDistinct
<1>2. DOMAIN Nodes(steps) = {steps[i].id : i \in DOMAIN steps}
  BY DEF Nodes
<1>3. ASSUME NEW i \in DOMAIN steps
      PROVE  Nodes(steps)[steps[i].id] = StringTuple(steps[i])
  <2>. DEFINE k == CHOOSE k \in NodePositions(steps) : steps[k].id = steps[i].id
  <2>1. k \in DOMAIN steps /\ steps[k].id = steps[i].id
    <3>1. \E x \in NodePositions(steps) : steps[x].id = steps[i].id
      OBVIOUS
    <3>. QED
      BY <3>1
  <2>2. k = i
    BY <1>1, <2>1
  <2>3. Nodes(steps)[steps[i].id] = StringTuple(steps[k])
    BY <1>2 DEF Nodes
  <2>. QED
    BY <2>2, <2>3
<1>. QED
  BY <1>2, <1>3

\* No problem means a definition that compiles (_analyze).
LEMMA NoProblems ==
    ASSUME NEW steps, Problems(steps) = {}
    PROVE  Compiled(steps)
<1>1. DOMAIN steps \ NodePositions(steps) = {}
  <2>1. {"structure" : i \in DOMAIN steps \ NodePositions(steps)} = {}
    BY DEF Problems
  <2>. QED
    BY <2>1
<1>2. NodePositions(steps) \subseteq DOMAIN steps
  BY DEF NodePositions
<1>3. {s \in DOMAIN Nodes(steps) : ~(Nodes(steps)[s] \subseteq DOMAIN Nodes(steps))} = {}
  <2>1. {"missing_dependency" :
            s \in {s \in DOMAIN Nodes(steps) :
                    ~(Nodes(steps)[s] \subseteq DOMAIN Nodes(steps))}} = {}
    BY DEF Problems
  <2>. QED
    BY <2>1
<1>4. Acyclic(KnownDeps(Nodes(steps)))
  <2>1. {"cycle" : x \in {x \in {1} : ~Acyclic(KnownDeps(Nodes(steps)))}} = {}
    BY DEF Problems
  <2>. QED
    BY <2>1
<1>. QED
  BY <1>1, <1>2, <1>3, <1>4 DEF Compiled

\* A request, or nothing, is posted.
LEMMA PlanningStart ==
    ASSUME \/ PlanningInit
           \/ /\ posted = << >> /\ planning = "posted"
              /\ planned = << >> /\ definition = << >> /\ stepRows = << >>
    PROVE  PlanningInvariant
<1>1. CASE posted = << >>
  <2>1. DOMAIN posted = 1 .. 0
    BY <1>1
  <2>. QED
    BY <2>1 DEF PlanningInit, PlanningInvariant, IsDefinition
<1>2. ASSUME NEW n \in 0 .. MaxSteps, posted \in [1 .. n -> PostedSteps]
      PROVE  IsDefinition(posted)
  <2>1. \A step \in PostedSteps : step.id /= "empty"
    BY PlanningAssumption DEF PostedSteps, Step
  <2>2. n \in Nat
    OBVIOUS
  <2>. QED
    BY <1>2, <2>1, <2>2 DEF IsDefinition
<1>3. CASE PlanningInit
  <2>1. IsDefinition(posted)
    BY <1>2, <1>3 DEF PlanningInit
  <2>. QED
    BY <1>3, <2>1 DEF PlanningInit, PlanningInvariant
<1>. QED
  BY <1>1, <1>3

\* The inductive step of planning.
LEMMA PlanningStep ==
    ASSUME PlanningInvariant, [PlanningNext]_planningVars
    PROVE  PlanningInvariant'
<1>1. CASE InstantiateTemplate
  <2>1. IsDefinition(posted')
    BY <1>1, PlanningAssumption DEF InstantiateTemplate, IsDefinition
  <2>. QED
    BY <1>1, <2>1 DEF InstantiateTemplate, PlanningInvariant, IsDefinition
<1>2. CASE CompileOrRaise
  BY <1>2, NoProblems DEF CompileOrRaise, PlanningInvariant, IsDefinition, Compiled
<1>3. CASE PersistWorkflow
  <2>1. planning = "planned" /\ UNCHANGED <<posted, planned, stepRows>>
    BY <1>3 DEF PersistWorkflow
  <2>2. CASE \E i \in DOMAIN posted : SerializationFails(posted[i])
    BY <1>3, <2>1, <2>2 DEF PersistWorkflow, PlanningInvariant
  <2>3. CASE ~\E i \in DOMAIN posted : SerializationFails(posted[i])
    <3>1. planning' = "stored"
          /\ definition' = [i \in DOMAIN posted |->
                [id |-> posted[i].id, type |-> posted[i].type, dependsOn |-> posted[i].deps]]
      BY <1>3, <2>3 DEF PersistWorkflow
    <3>2. StoredFrom(posted, definition')
      BY <2>3, <3>1 DEF StoredFrom
    <3>3. stepRows' = << >>
      BY <2>1 DEF PlanningInvariant
    <3>. QED
      BY <2>1, <3>1, <3>2, <3>3 DEF PlanningInvariant
  <2>. QED
    BY <2>2, <2>3
<1>4. CASE StartRun
  <2>1. planning = "stored" /\ UNCHANGED <<posted, catalogued, planning, planned, definition>>
    BY <1>4 DEF StartRun
  <2>2. /\ IsDefinition(posted) /\ NodePositions(posted) = DOMAIN posted
        /\ StoredFrom(posted, definition)
    BY <2>1 DEF PlanningInvariant, Compiled
  <2>3. \A i, j \in DOMAIN posted : posted[i].id = posted[j].id => i = j
    BY <2>2, IdsDistinct
  <2>4. DOMAIN stepRows' = {posted[i].id : i \in DOMAIN posted}
    BY <1>4, <2>2 DEF StartRun, StoredFrom
  <2>5. ASSUME NEW i \in DOMAIN posted PROVE stepRows'[posted[i].id] = posted[i].deps
    <3>. DEFINE Latest(x) == /\ definition[x].id = posted[i].id
                           /\ \A j \in DOMAIN definition : definition[j].id = posted[i].id => j <= x
                k == CHOOSE x \in DOMAIN definition : Latest(x)
    <3>1. i \in Int
      BY <2>2 DEF IsDefinition
    <3>2. i \in DOMAIN definition /\ Latest(i)
      BY <2>2, <2>3, <3>1 DEF StoredFrom
    <3>3. k \in DOMAIN definition /\ Latest(k)
      <4>. HIDE DEF Latest
      <4>. QED
        BY <3>2
    <3>4. k = i
      BY <2>2, <2>3, <3>3 DEF StoredFrom
    <3>5. stepRows'[posted[i].id] = definition[k].dependsOn
      BY <1>4, <2>2, <3>2 DEF StartRun, StoredFrom
    <3>. HIDE DEF k
    <3>. QED
      BY <2>2, <3>4, <3>5 DEF StoredFrom
  <2>6. RowsFrom(posted, stepRows')
    BY <2>4, <2>5 DEF RowsFrom
  <2>. QED
    BY <2>1, <2>6 DEF PlanningInvariant
<1>5. CASE CatalogueChanges
  BY <1>5 DEF CatalogueChanges, PlanningInvariant
<1>6. CASE UNCHANGED planningVars
  BY <1>6 DEF planningVars, PlanningInvariant
<1>. QED
  BY <1>1, <1>2, <1>3, <1>4, <1>5, <1>6 DEF PlanningNext

\* What the executor rebuilds from the rows is what the Planner compiled.
LEMMA PlanningFaithful ==
    ASSUME PlanningInvariant
    PROVE  PlannedGraphRuns
<1>. SUFFICES ASSUME stepRows /= << >>
              PROVE  /\ LoadDag = planned
                     /\ \A s \in DOMAIN stepRows :
                            stepRows[s] \subseteq DOMAIN stepRows \cup {"empty"}
                     /\ Acyclic(LoadDag)
  BY DEF PlanningInvariant, PlannedGraphRuns
<1>1. /\ IsDefinition(posted) /\ Compiled(posted) /\ planned = KnownDeps(Nodes(posted))
      /\ StoredFrom(posted, definition) /\ RowsFrom(posted, stepRows)
  BY DEF PlanningInvariant
<1>. DEFINE ids == {posted[i].id : i \in DOMAIN posted}
            nodes == Nodes(posted)
<1>2. /\ DOMAIN nodes = ids
      /\ \A i \in DOMAIN posted : nodes[posted[i].id] = StringTuple(posted[i])
  BY <1>1, NodesOfCompiled DEF Compiled
<1>3. \A i \in DOMAIN posted : nodes[posted[i].id] = posted[i].deps \ {"empty"}
  <2>1. \A i \in DOMAIN posted : posted[i].listed /\ "number" \notin posted[i].deps
    BY <1>1 DEF StoredFrom, SerializationFails
  <2>. QED
    BY <1>2, <2>1 DEF StringTuple
<1>4. "empty" \notin ids
  BY <1>1 DEF IsDefinition
<1>5. DOMAIN stepRows = ids /\ \A s \in ids : nodes[s] = stepRows[s] \ {"empty"}
  BY <1>1, <1>3 DEF RowsFrom
<1>6. LoadDag = planned
  <2>. HIDE DEF ids, nodes
  <2>1. \A s \in ids : stepRows[s] \cap ids = nodes[s] \cap ids
    BY <1>4, <1>5
  <2>2. LoadDag = [s \in ids |-> stepRows[s] \cap ids]
    BY <1>5 DEF LoadDag, KnownDeps
  <2>3. planned = [s \in ids |-> nodes[s] \cap ids]
    BY <1>1, <1>2 DEF KnownDeps, nodes
  <2>. QED
    BY <2>1, <2>2, <2>3
<1>7. \A s \in DOMAIN stepRows : stepRows[s] \subseteq DOMAIN stepRows \cup {"empty"}
  <2>1. \A s \in ids : nodes[s] \subseteq ids
    BY <1>1, <1>2 DEF Compiled
  <2>. HIDE DEF ids, nodes
  <2>. QED
    BY <1>5, <2>1
<1>. QED
  BY <1>1, <1>6, <1>7 DEF Compiled

(***************************************************************************)
(* Hooks                                                                   *)
(***************************************************************************)

\* A trigger call, and what a run's history may hold.
TriggerCalls == [pc : {"idle", "next", "start", "returned"}, rest : Seq(HookKinds), seen : Nat,
                 done : Seq(HookOutcomes \cup {"dispatched"}), allowed : BOOLEAN]
HookRecords == {"hook.error", "hook.denied"}

\* The types of what a trigger keeps.
HookTypes ==
    /\ hooks \in Seq(HookKinds)
    /\ triggers \in [HookRuns -> TriggerCalls]
    /\ DOMAIN threads \subseteq HookRuns \X Nat
    /\ hookHistory \in [HookRuns -> Seq(HookRecords)]

\* Where run r's trigger is: what is left to do is what comes after what was
\* done among the hooks it started out with, and every guardrail passed so far
\* has agreed; or it was denied by the last hook that ran, and nothing is left.
TriggerStory(r) ==
    LET call == triggers[r]  n == Len(call.done) IN
    /\ n <= call.seen /\ call.seen <= Len(hooks)
    /\ call.allowed =>
        /\ Len(call.rest) = call.seen - n
        /\ \A k \in 1 .. Len(call.rest) : call.rest[k] = hooks[n + k]
        /\ \A i \in 1 .. n : hooks[i] = "guardrail" => call.done[i] = "returns"
        /\ "hook.denied" \notin Range(hookHistory[r])
    /\ ~call.allowed =>
        /\ call.rest = << >> /\ n >= 1 /\ call.pc \in {"next", "returned"}
        /\ hooks[n] = "guardrail" /\ call.done[n] \in {"denies", "raises"}
    /\ call.pc = "start" => call.rest /= << >> /\ Head(call.rest) = "async"
    /\ call.pc = "idle" => call.seen = 0 /\ call.done = << >> /\ call.allowed
    /\ call.pc = "returned" => call.rest = << >>

\* The threads of run r stand for plain hooks it has passed, or is starting.
ThreadsPassed(r) ==
    \A t \in DOMAIN threads : t[1] = r =>
        /\ t[2] \in 1 .. Len(hooks) /\ hooks[t[2]] = "async"
        /\ \/ t[2] <= Len(triggers[r].done)
           \/ triggers[r].pc = "start" /\ t[2] = Len(triggers[r].done) + 1

HookInvariant == HookTypes /\ \A r \in HookRuns : TriggerStory(r) /\ ThreadsPassed(r)

\* The hooks of an event are only ever added to.
HooksGrow ==
    /\ Len(hooks) <= Len(hooks')
    /\ \A k \in 1 .. Len(hooks) : hooks'[k] = hooks[k]

\* A run whose trigger is left alone, whatever is registered, started for
\* others, or recorded of an error.
RunUntouched(r) ==
    /\ triggers'[r] = triggers[r]
    /\ \A t \in DOMAIN threads' : t[1] = r => t \in DOMAIN threads
    /\ Range(hookHistory'[r]) \subseteq Range(hookHistory[r]) \cup {"hook.error"}

\* Such a run's story stays true.
LEMMA RunKept ==
    ASSUME HookInvariant, NEW r \in HookRuns, HooksGrow, RunUntouched(r), Len(hooks') \in Nat
    PROVE  TriggerStory(r)' /\ ThreadsPassed(r)'
<1>1. /\ Len(hooks) \in Nat /\ Len(triggers[r].done) \in Nat /\ triggers[r].seen \in Nat
      /\ Len(triggers[r].rest) \in Nat
  BY DEF HookInvariant, HookTypes, TriggerCalls
<1>2. TriggerStory(r) /\ ThreadsPassed(r)
  BY DEF HookInvariant
<1>3. ThreadsPassed(r)'
  BY <1>1, <1>2 DEF ThreadsPassed, HooksGrow, RunUntouched
<1>. DEFINE call == triggers[r]
            n == Len(call.done)
<1>4. n <= call.seen /\ call.seen <= Len(hooks')
  BY <1>1, <1>2 DEF TriggerStory, HooksGrow
<1>5. call.allowed =>
        /\ \A k \in 1 .. Len(call.rest) : call.rest[k] = hooks'[n + k]
        /\ \A i \in 1 .. n : hooks'[i] = "guardrail" => call.done[i] = "returns"
        /\ "hook.denied" \notin Range(hookHistory'[r])
  <2>. SUFFICES ASSUME call.allowed
                PROVE  /\ \A k \in 1 .. Len(call.rest) : call.rest[k] = hooks'[n + k]
                       /\ \A i \in 1 .. n : hooks'[i] = "guardrail" => call.done[i] = "returns"
                       /\ "hook.denied" \notin Range(hookHistory'[r])
    OBVIOUS
  <2>1. /\ Len(call.rest) = call.seen - n /\ call.seen <= Len(hooks)
        /\ \A k \in 1 .. Len(call.rest) : call.rest[k] = hooks[n + k]
        /\ \A i \in 1 .. n : hooks[i] = "guardrail" => call.done[i] = "returns"
        /\ "hook.denied" \notin Range(hookHistory[r])
    BY <1>2 DEF TriggerStory
  <2>2. \A k \in 1 .. Len(call.rest) : n + k \in 1 .. Len(hooks)
    <3>. DEFINE m == Len(call.rest)
                H == Len(hooks)
                seen == call.seen
    <3>1. m \in Nat /\ H \in Nat /\ seen \in Nat /\ n \in Nat /\ m = seen - n /\ seen <= H
      BY <1>1, <2>1
    <3>. HIDE DEF m, H, seen, n
    <3>2. \A k \in 1 .. m : n + k \in 1 .. H
      BY <3>1
    <3>. QED
      BY <3>2 DEF m, H
  <2>3. \A i \in 1 .. n : i \in 1 .. Len(hooks)
    BY <1>1, <1>2 DEF TriggerStory
  <2>. QED
    BY <2>1, <2>2, <2>3 DEF HooksGrow, RunUntouched
<1>6. ~call.allowed => hooks'[n] = hooks[n]
  <2>1. ~call.allowed => n \in 1 .. Len(hooks)
    BY <1>1, <1>2 DEF TriggerStory
  <2>. QED
    BY <2>1 DEF HooksGrow
<1>7. TriggerStory(r)'
  <2>1. triggers'[r] = triggers[r]
    BY DEF RunUntouched
  <2>2. ~call.allowed =>
            /\ call.rest = << >> /\ n >= 1 /\ call.pc \in {"next", "returned"}
            /\ hooks'[n] = "guardrail" /\ call.done[n] \in {"denies", "raises"}
    BY <1>2, <1>6 DEF TriggerStory
  <2>3. /\ call.allowed => Len(call.rest) = call.seen - n
        /\ call.pc = "start" => call.rest /= << >> /\ Head(call.rest) = "async"
        /\ call.pc = "idle" => call.seen = 0 /\ call.done = << >> /\ call.allowed
        /\ call.pc = "returned" => call.rest = << >>
    BY <1>2 DEF TriggerStory
  <2>. QED
    BY <1>4, <1>5, <2>1, <2>2, <2>3 DEF TriggerStory
<1>. QED
  BY <1>3, <1>7

\* What is recorded is part of what was to be recorded.
LEMMA RecordedRange ==
    ASSUME HookInvariant, NEW r \in HookRuns, NEW outcomes \in Seq(HookRecords),
           Recorded(r, outcomes)
    PROVE  /\ hookHistory' \in [HookRuns -> Seq(HookRecords)]
           /\ Range(hookHistory'[r]) \subseteq Range(hookHistory[r]) \cup Range(outcomes)
           /\ \A s \in HookRuns \ {r} : hookHistory'[s] = hookHistory[s]
<1>1. PICK written \in {<< >>, outcomes} \cup {<<outcomes[i]>> : i \in DOMAIN outcomes} :
        hookHistory' = [hookHistory EXCEPT ![r] = @ \o written]
  BY DEF Recorded
<1>2. written \in Seq(HookRecords) /\ Range(written) \subseteq Range(outcomes)
  <2>1. CASE written = << >>
    BY <2>1 DEF Range
  <2>2. CASE written = outcomes
    BY <2>2
  <2>3. ASSUME NEW i \in DOMAIN outcomes, written = <<outcomes[i]>>
        PROVE  written \in Seq(HookRecords) /\ Range(written) \subseteq Range(outcomes)
    <3>1. outcomes[i] \in HookRecords
      OBVIOUS
    <3>2. Range(written) = {outcomes[i]}
      BY <2>3 DEF Range
    <3>. QED
      BY <2>3, <3>1, <3>2 DEF Range
  <2>. QED
    BY <1>1, <2>1, <2>2, <2>3
<1>3. hookHistory[r] \in Seq(HookRecords)
  BY DEF HookInvariant, HookTypes, TriggerCalls
<1>4. hookHistory[r] \o written \in Seq(HookRecords)
  BY <1>2, <1>3
<1>5. Range(hookHistory[r] \o written) = Range(hookHistory[r]) \cup Range(written)
  BY <1>2, <1>3, RangeConcatenation
<1>6. /\ hookHistory'[r] = hookHistory[r] \o written
      /\ \A s \in HookRuns \ {r} : hookHistory'[s] = hookHistory[s]
      /\ hookHistory' \in [HookRuns -> Seq(HookRecords)]
  BY <1>1, <1>4 DEF HookInvariant, HookTypes, TriggerCalls
<1>. QED
  BY <1>2, <1>5, <1>6

\* Nothing is registered or triggered at first.
LEMMA HooksStart ==
    ASSUME HooksInit
    PROVE  HookInvariant
<1>1. /\ << >> \in Seq(HookKinds) /\ << >> \in Seq(HookOutcomes \cup {"dispatched"})
      /\ << >> \in Seq(HookRecords)
  OBVIOUS
<1>2. HookTypes
  BY <1>1 DEF HooksInit, HookTypes, TriggerCalls, NoTrigger
<1>3. ASSUME NEW r \in HookRuns PROVE TriggerStory(r) /\ ThreadsPassed(r)
  <2>1. Range(<< >>) = {}
    BY DEF Range
  <2>2. triggers[r] = NoTrigger /\ hookHistory[r] = << >> /\ hooks = << >> /\ DOMAIN threads = {}
    BY DEF HooksInit
  <2>. QED
    BY <2>1, <2>2 DEF TriggerStory, ThreadsPassed, NoTrigger
<1>. QED
  BY <1>2, <1>3 DEF HookInvariant

\* Registering a hook, ending or joining a thread, waiting: no trigger moves.
LEMMA QuietHookStep ==
    ASSUME HookInvariant,
           \/ \E kind \in HookKinds : register(kind)
           \/ \E t \in DOMAIN threads : ThreadEnds(t) \/ JoinThread(t)
           \/ wait_for_pending \/ WaitReturns
    PROVE  HookInvariant'
<1>1. ASSUME NEW kind \in HookKinds, register(kind) PROVE HookInvariant'
  <2>1. hooks' = Append(hooks, kind) /\ hooks \in Seq(HookKinds)
        /\ UNCHANGED <<triggers, threads, hookHistory>>
    BY <1>1 DEF register, HookInvariant, HookTypes, TriggerCalls
  <2>2. hooks' \in Seq(HookKinds) /\ HooksGrow /\ Len(hooks') \in Nat
    BY <2>1 DEF HooksGrow
  <2>3. HookTypes'
    BY <2>1, <2>2 DEF HookInvariant, HookTypes, TriggerCalls
  <2>4. \A r \in HookRuns : RunUntouched(r)
    BY <2>1 DEF RunUntouched
  <2>. QED
    BY <2>2, <2>3, <2>4, RunKept DEF HookInvariant
<1>2. ASSUME NEW t \in DOMAIN threads, ThreadEnds(t) PROVE HookInvariant'
  <2>1. t[1] \in HookRuns
    BY DEF HookInvariant, HookTypes, TriggerCalls
  <2>2. /\ UNCHANGED <<hooks, triggers>> /\ DOMAIN threads' = DOMAIN threads
        /\ Recorded(t[1], <<"hook.error">>)
    BY <1>2 DEF ThreadEnds
  <2>3. <<"hook.error">> \in Seq(HookRecords) /\ Range(<<"hook.error">>) = {"hook.error"}
    BY DEF HookRecords, Range
  <2>4. /\ hookHistory' \in [HookRuns -> Seq(HookRecords)]
        /\ Range(hookHistory'[t[1]]) \subseteq Range(hookHistory[t[1]]) \cup {"hook.error"}
        /\ \A s \in HookRuns \ {t[1]} : hookHistory'[s] = hookHistory[s]
    BY <2>1, <2>2, <2>3, RecordedRange
  <2>5. HookTypes' /\ HooksGrow /\ Len(hooks') \in Nat
    <3>1. HookTypes'
      BY <2>2, <2>4 DEF HookInvariant, HookTypes
    <3>2. hooks \in Seq(HookKinds) /\ hooks' = hooks
      BY <2>2 DEF HookInvariant, HookTypes
    <3>. QED
      BY <3>1, <3>2 DEF HooksGrow
  <2>6. \A r \in HookRuns : RunUntouched(r)
    BY <2>2, <2>4 DEF RunUntouched
  <2>. QED
    BY <2>5, <2>6, RunKept DEF HookInvariant
<1>3. CASE UNCHANGED <<hooks, triggers, threads, hookHistory>>
  <2>1. HookTypes'
    BY <1>3 DEF HookInvariant, HookTypes
  <2>2. ASSUME NEW r \in HookRuns PROVE TriggerStory(r)'
    BY <1>3 DEF HookInvariant, TriggerStory
  <2>3. ASSUME NEW r \in HookRuns PROVE ThreadsPassed(r)'
    BY <1>3 DEF HookInvariant, ThreadsPassed
  <2>. QED
    BY <2>1, <2>2, <2>3 DEF HookInvariant
<1>. QED
  BY <1>1, <1>2, <1>3 DEF JoinThread, wait_for_pending, WaitReturns

\* A step of run r's trigger: the others keep their story.
LEMMA OwnTriggerStep ==
    ASSUME HookInvariant, NEW r \in HookRuns, UNCHANGED hooks, HookTypes',
           TriggerStory(r)', ThreadsPassed(r)',
           \A s \in HookRuns \ {r} : RunUntouched(s)
    PROVE  HookInvariant'
<1>1. HooksGrow /\ Len(hooks') \in Nat
  BY DEF HooksGrow, HookInvariant, HookTypes, TriggerCalls
<1>2. \A s \in HookRuns \ {r} : TriggerStory(s)' /\ ThreadsPassed(s)'
  BY <1>1, RunKept
<1>. QED
  BY <1>2 DEF HookInvariant

\* trigger copies the hooks; dispatching puts a thread on the list, starting
\* it passes the hook; returning leaves everything as it is.
LEMMA TriggerStep ==
    ASSUME HookInvariant, NEW r \in HookRuns, trigger(r)
    PROVE  HookInvariant'
<1>. DEFINE call == triggers[r]
<1>1. /\ call.pc = "idle" /\ UNCHANGED <<hooks, threads, hookHistory>>
      /\ triggers' = [triggers EXCEPT ![r].pc = "next", ![r].rest = hooks, ![r].seen = Len(hooks)]
  BY DEF trigger
<1>2. /\ call \in TriggerCalls
      /\ hooks \in Seq(HookKinds) /\ Len(hooks) \in Nat
  BY DEF HookInvariant, HookTypes, TriggerCalls
<1>3. call.done = << >> /\ call.allowed /\ "hook.denied" \notin Range(hookHistory[r])
  BY <1>1 DEF HookInvariant, TriggerStory
<1>4. /\ triggers'[r] = [call EXCEPT !.pc = "next", !.rest = hooks, !.seen = Len(hooks)]
      /\ \A s \in HookRuns \ {r} : triggers'[s] = triggers[s]
  BY <1>1 DEF HookInvariant, HookTypes, TriggerCalls
<1>5. triggers'[r] \in TriggerCalls
  BY <1>2, <1>4 DEF TriggerCalls
<1>6. HookTypes'
  BY <1>1, <1>5 DEF HookInvariant, HookTypes, TriggerCalls
<1>7. /\ triggers'[r].pc = "next" /\ triggers'[r].rest = hooks /\ triggers'[r].seen = Len(hooks)
      /\ triggers'[r].done = << >> /\ triggers'[r].allowed
  BY <1>2, <1>3, <1>4
<1>8. TriggerStory(r)'
  <2>1. Len(<< >>) = 0 /\ Len(hooks) = Len(hooks) - 0 /\ \A k \in 1 .. Len(hooks) : 0 + k = k
    BY <1>2
  <2>2. \A k \in 1 .. Len(hooks) : hooks[k] = hooks[0 + k]
    BY <2>1
  <2>. DEFINE now == triggers'[r]
  <2>3. /\ now.pc = "next" /\ now.rest = hooks' /\ now.seen = Len(hooks') /\ now.allowed
        /\ Len(now.done) = 0 /\ Len(hooks') \in Nat
    BY <1>1, <1>2, <1>7, <2>1
  <2>4. \A k \in 1 .. Len(hooks') : hooks'[k] = hooks'[0 + k]
    BY <1>1, <2>2
  <2>. HIDE DEF now
  <2>5. /\ 0 <= now.seen /\ now.seen <= Len(hooks') /\ Len(now.rest) = now.seen - 0
        /\ \A k \in 1 .. Len(now.rest) : now.rest[k] = hooks'[0 + k]
    BY <2>3, <2>4
  <2>6. \A i \in 1 .. 0 : hooks'[i] = "guardrail" => now.done[i] = "returns"
    OBVIOUS
  <2>7. "hook.denied" \notin Range(hookHistory'[r])
    BY <1>1, <1>3
  <2>. QED
    BY <2>3, <2>5, <2>6, <2>7 DEF TriggerStory, now
<1>9. ThreadsPassed(r)'
  <2>1. ThreadsPassed(r)
    BY DEF HookInvariant
  <2>. QED
    BY <1>1, <1>3, <1>7, <2>1 DEF ThreadsPassed
<1>10. \A s \in HookRuns \ {r} : RunUntouched(s)
  BY <1>1, <1>4 DEF RunUntouched
<1>. QED
  BY <1>1, <1>6, <1>8, <1>9, <1>10, OwnTriggerStep

\* The next hook of an allowed trigger is the one after those that are done.
LEMMA NextHook ==
    ASSUME HookInvariant, NEW r \in HookRuns, triggers[r].rest /= << >>
    PROVE  LET call == triggers[r]  n == Len(call.done) IN
           /\ call.allowed /\ n \in Nat /\ n + 1 \in 1 .. Len(hooks) /\ n + 1 <= call.seen
           /\ Head(call.rest) = hooks[n + 1] /\ Head(call.rest) \in HookKinds
           /\ Tail(call.rest) \in Seq(HookKinds)
           /\ Len(Tail(call.rest)) = call.seen - (n + 1)
           /\ \A k \in 1 .. Len(Tail(call.rest)) : Tail(call.rest)[k] = hooks[(n + 1) + k]
<1>. DEFINE call == triggers[r]
            n == Len(call.done)
            m == Len(call.rest)
            H == Len(hooks)
            seen == call.seen
<1>1. /\ call.rest \in Seq(HookKinds) /\ seen \in Nat /\ n \in Nat /\ m \in Nat /\ H \in Nat
  BY DEF HookInvariant, HookTypes, TriggerCalls
<1>2. /\ call.allowed /\ m = seen - n /\ seen <= H
      /\ \A k \in 1 .. m : call.rest[k] = hooks[n + k]
  BY DEF HookInvariant, TriggerStory
<1>3. /\ m >= 1 /\ Head(call.rest) = call.rest[1] /\ Head(call.rest) \in HookKinds
      /\ Tail(call.rest) \in Seq(HookKinds) /\ Len(Tail(call.rest)) = m - 1
      /\ \A k \in 1 .. m - 1 : Tail(call.rest)[k] = call.rest[k + 1]
  <2>1. call.rest /= << >>
    OBVIOUS
  <2>. HIDE DEF call
  <2>. QED
    BY <1>1, <2>1, HeadTailProperties
<1>. HIDE DEF n, m, H, seen, call
<1>4. n + 1 \in 1 .. H /\ n + 1 <= seen /\ m - 1 = seen - (n + 1) /\ 1 \in 1 .. m
  BY <1>1, <1>2, <1>3
<1>5. ASSUME NEW k \in 1 .. m - 1 PROVE Tail(call.rest)[k] = hooks[(n + 1) + k]
  <2>1. k + 1 \in 1 .. m /\ n + (k + 1) = (n + 1) + k
    BY <1>1
  <2>. QED
    BY <1>2, <1>3, <2>1
<1>6. Head(call.rest) = hooks[n + 1]
  BY <1>2, <1>3, <1>4
<1>. QED
  BY <1>1, <1>2, <1>3, <1>4, <1>5, <1>6 DEF n, m, H, seen, call

\* _dispatch_async: a thread for the next hook, which is a plain one.
LEMMA DispatchStep ==
    ASSUME HookInvariant, NEW r \in HookRuns, DispatchAsync(r)
    PROVE  HookInvariant'
<1>. DEFINE call == triggers[r]
            n == Len(call.done)
<1>1. /\ call.pc = "next" /\ call.rest /= << >> /\ Head(call.rest) = "async"
      /\ DOMAIN threads' = DOMAIN threads \cup {<<r, n + 1>>}
      /\ triggers' = [triggers EXCEPT ![r].pc = "start"]
      /\ UNCHANGED <<hooks, hookHistory>>
  BY DEF DispatchAsync, Position
<1>2. /\ call.allowed /\ n \in Nat /\ n + 1 \in 1 .. Len(hooks) /\ hooks[n + 1] = "async"
  BY <1>1, NextHook
<1>3. /\ triggers'[r] = [call EXCEPT !.pc = "start"]
      /\ \A s \in HookRuns \ {r} : triggers'[s] = triggers[s]
      /\ call \in TriggerCalls
  BY <1>1 DEF HookInvariant, HookTypes, TriggerCalls
<1>4. /\ triggers'[r].pc = "start" /\ triggers'[r].rest = call.rest
      /\ triggers'[r].seen = call.seen /\ triggers'[r].done = call.done /\ triggers'[r].allowed
  BY <1>2, <1>3
<1>5. HookTypes'
  <2>1. triggers'[r] \in TriggerCalls
    BY <1>3 DEF TriggerCalls
  <2>2. triggers' \in [HookRuns -> TriggerCalls]
    BY <1>1, <2>1 DEF HookInvariant, HookTypes, TriggerCalls
  <2>3. DOMAIN threads' \subseteq HookRuns \X Nat
    BY <1>1, <1>2 DEF HookInvariant, HookTypes, TriggerCalls
  <2>. QED
    BY <1>1, <2>2, <2>3 DEF HookInvariant, HookTypes, TriggerCalls
<1>6. TriggerStory(r)'
  <2>1. TriggerStory(r)
    BY DEF HookInvariant
  <2>. QED
    BY <1>1, <1>2, <1>4, <2>1 DEF TriggerStory
<1>7. ThreadsPassed(r)'
  <2>1. ThreadsPassed(r)
    BY DEF HookInvariant
  <2>2. <<r, n + 1>>[1] = r /\ <<r, n + 1>>[2] = n + 1
    OBVIOUS
  <2>3. \A t \in DOMAIN threads' : t \in DOMAIN threads \/ t = <<r, n + 1>>
    BY <1>1
  <2>4. ASSUME NEW t \in DOMAIN threads, t[1] = r
        PROVE  t[2] \in 1 .. Len(hooks) /\ hooks[t[2]] = "async" /\ t[2] <= n
    BY <1>1, <2>1, <2>4 DEF ThreadsPassed
  <2>. QED
    BY <1>1, <1>2, <1>4, <2>2, <2>3, <2>4 DEF ThreadsPassed
<1>8. \A s \in HookRuns \ {r} : RunUntouched(s)
  BY <1>1, <1>3 DEF RunUntouched
<1>. QED
  BY <1>1, <1>5, <1>6, <1>7, <1>8, OwnTriggerStep

\* A hook is passed: the thread is started, or a hook that was waited for has
\* ended without denying.  What is left is what comes after it.
LEMMA PassedStep ==
    ASSUME HookInvariant, NEW r \in HookRuns, triggers[r].rest /= << >>,
           NEW outcome \in HookOutcomes \cup {"dispatched"},
           triggers[r].pc \in {"next", "start"}, triggers[r].pc = "start" => outcome = "dispatched",
           UNCHANGED hooks, DOMAIN threads' = DOMAIN threads,
           hookHistory' \in [HookRuns -> Seq(HookRecords)],
           Range(hookHistory'[r]) \subseteq Range(hookHistory[r]) \cup {"hook.error"},
           \A s \in HookRuns \ {r} : hookHistory'[s] = hookHistory[s],
           hooks[Len(triggers[r].done) + 1] = "guardrail" => outcome = "returns",
           triggers' \in [HookRuns -> TriggerCalls],
           \A s \in HookRuns \ {r} : triggers'[s] = triggers[s],
           triggers'[r].pc = "next", triggers'[r].rest = Tail(triggers[r].rest),
           triggers'[r].seen = triggers[r].seen,
           triggers'[r].done = Append(triggers[r].done, outcome), triggers'[r].allowed
    PROVE  HookInvariant'
<1>. DEFINE call == triggers[r]
            n == Len(call.done)
<1>1. /\ call.allowed /\ n \in Nat /\ n + 1 \in 1 .. Len(hooks) /\ n + 1 <= call.seen
      /\ Head(call.rest) = hooks[n + 1]
      /\ Tail(call.rest) \in Seq(HookKinds)
      /\ Len(Tail(call.rest)) = call.seen - (n + 1)
      /\ \A k \in 1 .. Len(Tail(call.rest)) : Tail(call.rest)[k] = hooks[(n + 1) + k]
  BY NextHook
<1>2. /\ call.done \in Seq(HookOutcomes \cup {"dispatched"}) /\ call.seen \in Nat
      /\ TriggerStory(r) /\ ThreadsPassed(r)
  BY DEF HookInvariant, HookTypes, TriggerCalls
<1>3. /\ Append(call.done, outcome) \in Seq(HookOutcomes \cup {"dispatched"})
      /\ Len(Append(call.done, outcome)) = n + 1
      /\ \A i \in 1 .. n : Append(call.done, outcome)[i] = call.done[i]
      /\ Append(call.done, outcome)[n + 1] = outcome
  BY <1>2
<1>5. HookTypes'
  BY DEF HookInvariant, HookTypes
<1>6. TriggerStory(r)'
  <2>1. \A i \in 1 .. n + 1 : hooks[i] = "guardrail" => Append(call.done, outcome)[i] = "returns"
    <3>1. \A i \in 1 .. n : hooks[i] = "guardrail" => call.done[i] = "returns"
      BY <1>1, <1>2 DEF TriggerStory
    <3>2. \A i \in 1 .. n + 1 : i \in 1 .. n \/ i = n + 1
      <4>. HIDE DEF n
      <4>. QED
        BY <1>1
    <3>. QED
      BY <1>3, <3>1, <3>2
  <2>2. "hook.denied" \notin Range(hookHistory'[r])
    BY <1>1, <1>2 DEF TriggerStory
  <2>3. call.seen <= Len(hooks)
    BY <1>2 DEF TriggerStory
  <2>5. Len(triggers'[r].done) = n + 1
    BY <1>3
  <2>6. /\ Len(triggers'[r].rest) = triggers'[r].seen - (n + 1)
        /\ \A k \in 1 .. Len(triggers'[r].rest) : triggers'[r].rest[k] = hooks'[(n + 1) + k]
        /\ \A i \in 1 .. n + 1 : hooks'[i] = "guardrail" => triggers'[r].done[i] = "returns"
        /\ n + 1 <= triggers'[r].seen /\ triggers'[r].seen <= Len(hooks')
    <3>1. /\ triggers'[r].rest = Tail(call.rest) /\ triggers'[r].seen = call.seen
          /\ triggers'[r].done = Append(call.done, outcome) /\ hooks' = hooks
      OBVIOUS
    <3>. HIDE DEF call, n
    <3>2. \A i \in 1 .. n + 1 : hooks'[i] = "guardrail" => triggers'[r].done[i] = "returns"
      BY <2>1, <3>1
    <3>3. \A k \in 1 .. Len(triggers'[r].rest) : triggers'[r].rest[k] = hooks'[(n + 1) + k]
      <4>. DEFINE rest == Tail(call.rest)
      <4>1. \A k \in 1 .. Len(rest) : rest[k] = hooks[(n + 1) + k]
        BY <1>1
      <4>. HIDE DEF rest
      <4>2. triggers'[r].rest = rest /\ hooks' = hooks
        BY <3>1 DEF rest
      <4>. QED
        BY Zenon, <4>1, <4>2
    <3>. QED
      BY <1>1, <2>3, <3>1, <3>2, <3>3
  <2>. HIDE DEF call, n
  <2>. QED
    BY <2>2, <2>5, <2>6 DEF TriggerStory
<1>7. ThreadsPassed(r)'
  <2>1. /\ triggers'[r].pc = "next" /\ Len(triggers'[r].done) = n + 1
    BY <1>3
  <2>2. ASSUME NEW t \in DOMAIN threads, t[1] = r
        PROVE  t[2] \in 1 .. Len(hooks) /\ hooks[t[2]] = "async" /\ t[2] <= n + 1
    <3>1. t[2] \in 1 .. Len(hooks) /\ hooks[t[2]] = "async" /\ (t[2] <= n \/ t[2] = n + 1)
      BY <1>2, <2>2 DEF ThreadsPassed
    <3>. HIDE DEF n
    <3>. QED
      BY <1>1, <3>1
  <2>. QED
    BY <2>1, <2>2 DEF ThreadsPassed
<1>8. \A s \in HookRuns \ {r} : RunUntouched(s)
  BY DEF RunUntouched
<1>. QED
  BY <1>5, <1>6, <1>7, <1>8, OwnTriggerStep

\* thread.start(): the hook has been dispatched and trigger goes on.
LEMMA StartThreadStep ==
    ASSUME HookInvariant, NEW r \in HookRuns, StartThread(r)
    PROVE  HookInvariant'
<1>. DEFINE call == triggers[r]
<1>1. /\ call.pc = "start" /\ UNCHANGED <<hooks, hookHistory>> /\ DOMAIN threads' = DOMAIN threads
      /\ triggers' = [triggers EXCEPT ![r].pc = "next", ![r].rest = Tail(@),
                                      ![r].done = Append(@, "dispatched")]
  BY DEF StartThread
<1>2. call.rest /= << >> /\ Head(call.rest) = "async"
  BY <1>1 DEF HookInvariant, TriggerStory
<1>3. call.allowed /\ hooks[Len(call.done) + 1] = "async"
  BY <1>2, NextHook
<1>4. call \in TriggerCalls
  BY DEF HookInvariant, HookTypes, TriggerCalls
<1>5. /\ triggers' \in [HookRuns -> TriggerCalls]
      /\ \A x \in HookRuns \ {r} : triggers'[x] = triggers[x]
      /\ triggers'[r].pc = "next" /\ triggers'[r].rest = Tail(call.rest)
      /\ triggers'[r].seen = call.seen /\ triggers'[r].allowed
      /\ triggers'[r].done = Append(call.done, "dispatched")
  <2>. DEFINE next == [call EXCEPT !.pc = "next", !.rest = Tail(@),
                                   !.done = Append(@, "dispatched")]
  <2>1. triggers' = [triggers EXCEPT ![r] = next]
    BY <1>1 DEF HookInvariant, HookTypes
  <2>2. /\ Tail(call.rest) \in Seq(HookKinds)
        /\ Append(call.done, "dispatched") \in Seq(HookOutcomes \cup {"dispatched"})
    BY <1>2, <1>4, HeadTailProperties DEF TriggerCalls
  <2>3. /\ next \in TriggerCalls /\ next.pc = "next" /\ next.rest = Tail(call.rest)
        /\ next.seen = call.seen /\ next.allowed /\ next.done = Append(call.done, "dispatched")
    BY <1>3, <1>4, <2>2 DEF TriggerCalls
  <2>. HIDE DEF next
  <2>. QED
    BY <2>1, <2>3 DEF HookInvariant, HookTypes
<1>6. hookHistory' \in [HookRuns -> Seq(HookRecords)]
  BY <1>1 DEF HookInvariant, HookTypes, TriggerCalls
<1>. QED
  BY <1>1, <1>2, <1>3, <1>5, <1>6, PassedStep

\* A guardrail denies: the loop ends with what it has done.
LEMMA DeniedStep ==
    ASSUME HookInvariant, NEW r \in HookRuns, triggers[r].rest /= << >>,
           NEW outcome \in {"denies", "raises"}, triggers[r].pc = "next",
           UNCHANGED <<hooks, threads>>,
           hookHistory' \in [HookRuns -> Seq(HookRecords)],
           \A s \in HookRuns \ {r} : hookHistory'[s] = hookHistory[s],
           hooks[Len(triggers[r].done) + 1] = "guardrail",
           triggers' \in [HookRuns -> TriggerCalls],
           \A s \in HookRuns \ {r} : triggers'[s] = triggers[s],
           triggers'[r].pc = "next", triggers'[r].rest = << >>,
           triggers'[r].seen = triggers[r].seen,
           triggers'[r].done = Append(triggers[r].done, outcome), ~triggers'[r].allowed
    PROVE  HookInvariant'
<1>. DEFINE call == triggers[r]
            n == Len(call.done)
<1>1. n \in Nat /\ n + 1 \in 1 .. Len(hooks) /\ n + 1 <= call.seen
  BY NextHook
<1>2. /\ call.done \in Seq(HookOutcomes \cup {"dispatched"}) /\ call.seen \in Nat
      /\ TriggerStory(r) /\ ThreadsPassed(r)
  BY DEF HookInvariant, HookTypes, TriggerCalls
<1>3. /\ Append(call.done, outcome) \in Seq(HookOutcomes \cup {"dispatched"})
      /\ Len(Append(call.done, outcome)) = n + 1
      /\ Append(call.done, outcome)[n + 1] = outcome
  BY <1>2 DEF HookOutcomes
<1>5. HookTypes'
  BY DEF HookInvariant, HookTypes
<1>6. /\ triggers'[r].pc = "next" /\ triggers'[r].rest = << >> /\ triggers'[r].allowed = FALSE
      /\ triggers'[r].seen = call.seen /\ Len(triggers'[r].done) = n + 1
      /\ triggers'[r].done[n + 1] = outcome
  BY <1>3
<1>7. TriggerStory(r)'
  <2>1. call.seen <= Len(hooks) /\ n + 1 >= 1
    BY <1>1, <1>2 DEF TriggerStory
  <2>2. hooks'[n + 1] = "guardrail" /\ Len(hooks') = Len(hooks)
    OBVIOUS
  <2>. HIDE DEF call, n
  <2>. QED
    BY <1>1, <1>6, <2>1, <2>2 DEF TriggerStory
<1>8. ThreadsPassed(r)'
  <2>1. ASSUME NEW t \in DOMAIN threads, t[1] = r
        PROVE  t[2] \in 1 .. Len(hooks) /\ hooks[t[2]] = "async" /\ t[2] <= n + 1
    <3>1. t[2] \in 1 .. Len(hooks) /\ hooks[t[2]] = "async" /\ t[2] <= n
      BY <1>2, <2>1 DEF ThreadsPassed
    <3>. HIDE DEF n
    <3>. QED
      BY <1>1, <3>1
  <2>. QED
    BY <1>6, <2>1 DEF ThreadsPassed
<1>9. \A s \in HookRuns \ {r} : RunUntouched(s)
  BY DEF RunUntouched
<1>. QED
  BY <1>5, <1>7, <1>8, <1>9, OwnTriggerStep

\* A blocking hook or guardrail runs to its end.
LEMMA RunBlockingStep ==
    ASSUME HookInvariant, NEW r \in HookRuns, RunBlocking(r)
    PROVE  HookInvariant'
<1>. DEFINE call == triggers[r]
            kind == Head(call.rest)
            records(outcome) == (IF outcome = "raises" THEN <<"hook.error">> ELSE << >>)
                                \o (IF Denies(kind, outcome) THEN <<"hook.denied">> ELSE << >>)
<1>1. PICK outcome \in HookOutcomes :
        /\ triggers' = [triggers EXCEPT
              ![r].done = Append(@, outcome),
              ![r].rest = IF Denies(kind, outcome) THEN << >> ELSE Tail(@),
              ![r].allowed = ~Denies(kind, outcome)]
        /\ Recorded(r, records(outcome))
  BY DEF RunBlocking
<1>2. /\ call.pc = "next" /\ call.rest /= << >> /\ kind /= "async"
      /\ UNCHANGED <<hooks, threads>>
  BY DEF RunBlocking
<1>3. call \in TriggerCalls
  BY DEF HookInvariant, HookTypes, TriggerCalls
<1>4. kind = hooks[Len(call.done) + 1] /\ call.allowed
  BY <1>2, NextHook
<1>5. /\ triggers' \in [HookRuns -> TriggerCalls]
      /\ \A x \in HookRuns \ {r} : triggers'[x] = triggers[x]
      /\ triggers'[r].pc = "next" /\ triggers'[r].seen = call.seen
      /\ triggers'[r].rest = (IF Denies(kind, outcome) THEN << >> ELSE Tail(call.rest))
      /\ triggers'[r].allowed = ~Denies(kind, outcome)
      /\ triggers'[r].done = Append(call.done, outcome)
  <2>. DEFINE no == Denies(kind, outcome)
              next == [call EXCEPT !.done = Append(@, outcome),
                                   !.rest = IF no THEN << >> ELSE Tail(@), !.allowed = ~no]
  <2>1. triggers' = [triggers EXCEPT ![r] = next]
    BY <1>1 DEF HookInvariant, HookTypes
  <2>2. /\ Tail(call.rest) \in Seq(HookKinds) /\ << >> \in Seq(HookKinds)
        /\ Append(call.done, outcome) \in Seq(HookOutcomes \cup {"dispatched"})
    BY <1>2, <1>3, HeadTailProperties DEF TriggerCalls
  <2>3. no \in BOOLEAN
    BY DEF Denies
  <2>. HIDE DEF no
  <2>4. /\ next \in TriggerCalls /\ next.pc = "next" /\ next.seen = call.seen
        /\ next.rest = (IF no THEN << >> ELSE Tail(call.rest)) /\ next.allowed = ~no
        /\ next.done = Append(call.done, outcome)
    BY <1>2, <1>3, <2>2, <2>3 DEF TriggerCalls
  <2>. HIDE DEF next
  <2>. QED
    BY <2>1, <2>4 DEF HookInvariant, HookTypes, no
<1>6. records(outcome) \in Seq(HookRecords)
      /\ (~Denies(kind, outcome) => Range(records(outcome)) \subseteq {"hook.error"})
  <2>1. /\ << >> \in Seq(HookRecords) /\ <<"hook.error">> \in Seq(HookRecords)
        /\ <<"hook.denied">> \in Seq(HookRecords)
    BY DEF HookRecords
  <2>2. records(outcome) \in Seq(HookRecords)
    BY <2>1
  <2>3. ASSUME ~Denies(kind, outcome) PROVE Range(records(outcome)) \subseteq {"hook.error"}
    <3>1. records(outcome) = IF outcome = "raises" THEN <<"hook.error">> ELSE << >>
      BY <2>1, <2>3
    <3>2. Range(<<"hook.error">>) = {"hook.error"} /\ Range(<< >>) = {}
      BY DEF Range
    <3>. HIDE DEF records
    <3>. QED
      BY <3>1, <3>2
  <2>. QED
    BY <2>2, <2>3
<1>. HIDE DEF records
<1>7. /\ hookHistory' \in [HookRuns -> Seq(HookRecords)]
      /\ Range(hookHistory'[r]) \subseteq Range(hookHistory[r]) \cup Range(records(outcome))
      /\ \A s \in HookRuns \ {r} : hookHistory'[s] = hookHistory[s]
  BY <1>1, <1>6, RecordedRange
<1>8. CASE Denies(kind, outcome)
  <2>1. outcome \in {"denies", "raises"} /\ hooks[Len(call.done) + 1] = "guardrail"
    BY <1>4, <1>8 DEF Denies
  <2>2. triggers'[r].rest = << >> /\ ~triggers'[r].allowed
    BY <1>5, <1>8
  <2>. QED
    BY <1>2, <1>5, <1>7, <2>1, <2>2, DeniedStep
<1>9. CASE ~Denies(kind, outcome)
  <2>1. hooks[Len(call.done) + 1] = "guardrail" => outcome = "returns"
    BY <1>4, <1>9 DEF Denies, HookOutcomes
  <2>2. triggers'[r].rest = Tail(call.rest) /\ triggers'[r].allowed
    BY <1>5, <1>9
  <2>3. Range(hookHistory'[r]) \subseteq Range(hookHistory[r]) \cup {"hook.error"}
    BY <1>6, <1>7, <1>9
  <2>. QED
    BY <1>2, <1>5, <1>7, <2>1, <2>2, <2>3, PassedStep
<1>. QED
  BY <1>8, <1>9

\* trigger returns when nothing is left.
LEMMA ReturnsStep ==
    ASSUME HookInvariant, NEW r \in HookRuns, TriggerReturns(r)
    PROVE  HookInvariant'
<1>. DEFINE call == triggers[r]
<1>1. /\ call.pc = "next" /\ call.rest = << >> /\ UNCHANGED <<hooks, threads, hookHistory>>
      /\ triggers' = [triggers EXCEPT ![r].pc = "returned"]
  BY DEF TriggerReturns
<1>2. /\ triggers'[r] = [call EXCEPT !.pc = "returned"]
      /\ \A s \in HookRuns \ {r} : triggers'[s] = triggers[s]
      /\ call \in TriggerCalls
  BY <1>1 DEF HookInvariant, HookTypes, TriggerCalls
<1>3. /\ triggers'[r].pc = "returned" /\ triggers'[r].rest = call.rest
      /\ triggers'[r].seen = call.seen /\ triggers'[r].done = call.done
      /\ triggers'[r].allowed = call.allowed
  BY <1>2
<1>4. HookTypes'
  <2>1. triggers'[r] \in TriggerCalls
    BY <1>2 DEF TriggerCalls
  <2>2. triggers' \in [HookRuns -> TriggerCalls]
    BY <1>1, <2>1 DEF HookInvariant, HookTypes, TriggerCalls
  <2>. QED
    BY <1>1, <2>2 DEF HookInvariant, HookTypes, TriggerCalls
<1>5. TriggerStory(r) /\ ThreadsPassed(r)
  BY DEF HookInvariant
<1>6. TriggerStory(r)' /\ ThreadsPassed(r)'
  BY <1>1, <1>3, <1>5 DEF TriggerStory, ThreadsPassed
<1>7. \A s \in HookRuns \ {r} : RunUntouched(s)
  BY <1>1, <1>2 DEF RunUntouched
<1>. QED
  BY <1>1, <1>4, <1>6, <1>7, OwnTriggerStep

\* The inductive step of the hooks.
LEMMA HookStep ==
    ASSUME HookInvariant, [HooksNext]_hookVars
    PROVE  HookInvariant'
<1>1. CASE UNCHANGED hookVars
  <2>1. UNCHANGED <<hooks, triggers, threads, hookHistory>>
    BY <1>1 DEF hookVars
  <2>2. HookTypes'
    BY <2>1 DEF HookInvariant, HookTypes
  <2>3. ASSUME NEW r \in HookRuns PROVE TriggerStory(r)'
    BY <2>1 DEF HookInvariant, TriggerStory
  <2>4. ASSUME NEW r \in HookRuns PROVE ThreadsPassed(r)'
    BY <2>1 DEF HookInvariant, ThreadsPassed
  <2>. QED
    BY <2>2, <2>3, <2>4 DEF HookInvariant
<1>. QED
  BY <1>1, QuietHookStep, TriggerStep, DispatchStep, StartThreadStep, RunBlockingStep, ReturnsStep
  DEF HooksNext

\* The invariant says what it means to be allowed, and to be denied.
LEMMA HookClosed ==
    ASSUME HookInvariant
    PROVE  HooksFailClosed
<1>. SUFFICES ASSUME NEW r \in HookRuns, triggers[r].pc = "returned"
              PROVE  LET done == triggers[r].done  n == Len(done) IN
                     /\ triggers[r].allowed =>
                         /\ n = triggers[r].seen
                         /\ \A i \in 1 .. n : hooks[i] = "guardrail" => done[i] = "returns"
                         /\ "hook.denied" \notin Range(hookHistory[r])
                     /\ ~triggers[r].allowed =>
                         /\ hooks[n] = "guardrail" /\ done[n] \in {"denies", "raises"}
                         /\ \A t \in DOMAIN threads : t[1] = r => t[2] < n
  BY DEF HooksFailClosed
<1>1. TriggerStory(r) /\ ThreadsPassed(r)
  BY DEF HookInvariant
<1>2. Len(triggers[r].done) \in Nat /\ triggers[r].seen \in Nat /\ triggers[r].rest = << >>
  BY <1>1 DEF HookInvariant, HookTypes, TriggerCalls, TriggerStory
<1>3. triggers[r].allowed => Len(triggers[r].done) = triggers[r].seen
  BY <1>1, <1>2 DEF TriggerStory
<1>4. ASSUME ~triggers[r].allowed, NEW t \in DOMAIN threads, t[1] = r
      PROVE  t[2] < Len(triggers[r].done)
  <2>1. hooks[Len(triggers[r].done)] = "guardrail"
    BY <1>1, <1>4 DEF TriggerStory
  <2>2. t[2] \in Int /\ hooks[t[2]] = "async" /\ t[2] <= Len(triggers[r].done)
    BY <1>1, <1>4 DEF ThreadsPassed
  <2>3. t[2] /= Len(triggers[r].done)
    BY <2>1, <2>2
  <2>. QED
    BY <1>2, <2>2, <2>3
<1>. QED
  BY <1>1, <1>3, <1>4 DEF TriggerStory

(***************************************************************************)
(* Tools and MCP servers                                                   *)
(***************************************************************************)

\* The calls under way are records with the fields their next steps set.
ToolShapes ==
    /\ DOMAIN connecting = Connectors /\ DOMAIN invoking = ToolCallers
    /\ \A h \in Connectors : connecting[h].pc /= "idle" =>
          {"pc", "todo", "name"} \subseteq DOMAIN connecting[h]
    /\ \A c \in ToolCallers : invoking[c].pc \in {"read", "gated"} =>
          {"pc", "overtaken"} \subseteq DOMAIN invoking[c]

\* Who is between the two parts of registering a name that is not contested is
\* alone there, and its specification is the one in the catalogue.
HalfWayAlone ==
    \A h \in Connectors :
        connecting[h].pc = "handler" /\ connecting[h].name \notin contested =>
            /\ connecting[h].name \in DOMAIN catalog
            /\ catalog[connecting[h].name] = Tool(connecting[h].server, connecting[h].name)
            /\ \A g \in Connectors :
                  connecting[g].pc = "handler" /\ connecting[g].name = connecting[h].name
                    => g = h

\* A name that is neither contested nor being registered has the handler of the
\* tool in the catalogue.
TablesAgree ==
    \A n \in DOMAIN catalog :
        n \notin contested /\ ~HalfRegistered(n) =>
            n \in DOMAIN handlers /\ handlers[n] = catalog[n]

\* The handler of a call's name is still that of the specification it has read,
\* unless the name was registered since; past the gate, its scope enables it.
InvokeStory(c) ==
    LET call == invoking[c] IN
    /\ call.pc = "gated" => is_toolset_enabled(call.scope, call.spec.toolset)
    /\ call.pc \in {"read", "gated"} /\ ~call.overtaken /\ call.name \notin contested =>
          call.name \in DOMAIN handlers /\ handlers[call.name] = call.spec
    /\ call.pc = "ran" /\ ~call.overtaken /\ call.name \notin contested => InScope(call)

ToolInvariant ==
    ToolShapes /\ HalfWayAlone /\ TablesAgree /\ \A c \in ToolCallers : InvokeStory(c)

\* The registry is empty to begin with and nobody is at work.
LEMMA ToolsStart == ToolsInit => ToolInvariant
<1>. SUFFICES ASSUME ToolsInit PROVE ToolInvariant
  OBVIOUS
<1>1. /\ DOMAIN connecting = Connectors /\ DOMAIN invoking = ToolCallers
      /\ \A h \in Connectors : connecting[h].pc = "idle"
      /\ \A c \in ToolCallers : invoking[c].pc = "idle"
      /\ DOMAIN catalog = {}
  BY DEF ToolsInit, NotConnecting, NotInvoking
<1>. QED
  BY <1>1 DEF ToolInvariant, ToolShapes, HalfWayAlone, TablesAgree, InvokeStory

\* A step of connector h that is neither part of registering a tool.
LEMMA OtherConnectStep ==
    ASSUME ToolInvariant, NEW h \in Connectors,
           UNCHANGED <<catalog, handlers, contested, invoking>>,
           connecting[h].pc /= "handler",
           DOMAIN connecting' = Connectors,
           \A g \in Connectors : g /= h => connecting'[g] = connecting[g],
           connecting'[h].pc /= "handler",
           connecting'[h].pc /= "idle" =>
              {"pc", "todo", "name"} \subseteq DOMAIN connecting'[h]
    PROVE  ToolInvariant'
<1>1. ToolShapes'
  BY DEF ToolInvariant, ToolShapes
<1>2. \A g \in Connectors : connecting[g].pc = "handler" \/ connecting'[g].pc = "handler"
                              => g /= h /\ connecting'[g] = connecting[g]
  OBVIOUS
<1>3. HalfWayAlone'
  BY <1>2 DEF ToolInvariant, HalfWayAlone, Tool
<1>4. ASSUME NEW n PROVE HalfRegistered(n)' <=> HalfRegistered(n)
  BY <1>2 DEF HalfRegistered
<1>5. TablesAgree'
  BY <1>4 DEF ToolInvariant, TablesAgree
<1>6. ASSUME NEW c \in ToolCallers PROVE InvokeStory(c)'
  <2>1. InvokeStory(c)
    BY DEF ToolInvariant
  <2>. QED
    BY <2>1 DEF InvokeStory, InScope, is_toolset_enabled
<1>. QED
  BY <1>1, <1>3, <1>5, <1>6 DEF ToolInvariant

\* Everything a connect or a disconnect does but registering.
LEMMA QuietConnectStep ==
    ASSUME ToolInvariant, NEW h \in Connectors,
           \/ \E s \in Servers : StartConnect(h, s) \/ StartDisconnect(h, s)
           \/ \E n \in ToolNames : RetireTool(h, n)
           \/ _obtain_grant(h) \/ ConnectFails(h) \/ ConnectOpens(h)
           \/ ConnectReturns(h) \/ RetireEnds(h)
    PROVE  ToolInvariant'
<1>. DEFINE old == connecting[h]
            new == connecting'[h]
<1>1. /\ DOMAIN connecting = Connectors
      /\ old.pc /= "idle" => {"pc", "todo", "name"} \subseteq DOMAIN old
  BY DEF ToolInvariant, ToolShapes
<1>2. UNCHANGED <<catalog, handlers, contested, invoking>>
  BY DEF StartConnect, StartDisconnect, RetireTool, _obtain_grant, ConnectFails, ConnectOpens,
     ConnectReturns, RetireEnds, registryVars
<1>3. old.pc \in {"idle", "grant", "transport", "spec", "retire"}
  BY DEF StartConnect, StartDisconnect, RetireTool, _obtain_grant, ConnectFails, ConnectOpens,
     ConnectReturns, RetireEnds
<1>4. \E call : connecting' = [connecting EXCEPT ![h] = call]
  BY DEF StartConnect, StartDisconnect, RetireTool, _obtain_grant, ConnectFails, ConnectOpens,
     ConnectReturns, RetireEnds
<1>5. /\ DOMAIN connecting' = Connectors
      /\ \A g \in Connectors : g /= h => connecting'[g] = connecting[g]
  BY <1>1, <1>4
<1>6. new.pc /= "handler" /\ (new.pc /= "idle" => {"pc", "todo", "name"} \subseteq DOMAIN new)
  <2>1. CASE \E s \in Servers : StartConnect(h, s) \/ StartDisconnect(h, s)
    <3>1. PICK s \in Servers : StartConnect(h, s) \/ StartDisconnect(h, s)
      BY <2>1
    <3>2. new = Request("connect", "grant", s, {})
          \/ new = Request("disconnect", "retire", s, registered[s])
      BY <1>1, <3>1 DEF StartConnect, StartDisconnect
    <3>3. ASSUME NEW op, NEW pc, NEW todo
          PROVE  /\ Request(op, pc, s, todo).pc = pc
                 /\ {"pc", "todo", "name"} \subseteq DOMAIN Request(op, pc, s, todo)
      BY DEF Request
    <3>. HIDE DEF new
    <3>4. new.pc \in {"grant", "retire"} /\ {"pc", "todo", "name"} \subseteq DOMAIN new
      BY <3>2, <3>3
    <3>. QED
      BY <3>4
  <2>2. CASE ConnectReturns(h) \/ RetireEnds(h)
    BY <1>1, <2>2 DEF ConnectReturns, RetireEnds, NotConnecting
  <2>3. CASE _obtain_grant(h)
    BY <1>1, <2>3 DEF _obtain_grant, NotConnecting
  <2>4. CASE \E n \in ToolNames : RetireTool(h, n)
    BY <1>1, <2>4 DEF RetireTool
  <2>5. CASE ConnectFails(h)
    BY <1>1, <2>5 DEF ConnectFails
  <2>6. CASE ConnectOpens(h)
    BY <1>1, <2>6 DEF ConnectOpens
  <2>. QED
    BY <2>1, <2>2, <2>3, <2>4, <2>5, <2>6
<1>. QED
  BY <1>2, <1>3, <1>5, <1>6, OtherConnectStep

\* A step that leaves the tables and all calls as they are.
LEMMA ToolTablesKept ==
    ASSUME ToolInvariant, UNCHANGED <<catalog, handlers, contested, connecting, invoking>>
    PROVE  ToolInvariant'
<1>1. ToolShapes'
  BY DEF ToolInvariant, ToolShapes
<1>2. HalfWayAlone'
  BY DEF ToolInvariant, HalfWayAlone, Tool
<1>3. TablesAgree'
  BY DEF ToolInvariant, TablesAgree, HalfRegistered
<1>4. ASSUME NEW c \in ToolCallers PROVE InvokeStory(c)'
  <2>1. InvokeStory(c)
    BY DEF ToolInvariant
  <2>. QED
    BY <2>1 DEF InvokeStory, InScope, is_toolset_enabled
<1>. QED
  BY <1>1, <1>2, <1>3, <1>4 DEF ToolInvariant

\* The routes that only touch rows.
LEMMA RouteStep ==
    ASSUME ToolInvariant, NEW s \in Servers, configure_mcp_server(s) \/ remove_mcp_server(s)
    PROVE  ToolInvariant'
<1>1. UNCHANGED <<catalog, handlers, contested, connecting, invoking>>
  BY DEF configure_mcp_server, remove_mcp_server, registryVars
<1>. QED
  BY <1>1, ToolTablesKept

\* The calls past the gate after their name was registered.
LEMMA OvertakeStep ==
    ASSUME ToolInvariant, NEW n, Overtake(n), contested \subseteq contested',
           \A m : m /= n => (m \in DOMAIN handlers => m \in DOMAIN handlers')
                            /\ (m \in DOMAIN handlers => handlers'[m] = handlers[m])
    PROVE  /\ DOMAIN invoking' = ToolCallers
           /\ \A c \in ToolCallers :
                 /\ invoking'[c].pc \in {"read", "gated"} =>
                    {"pc", "overtaken"} \subseteq DOMAIN invoking'[c]
                 /\ InvokeStory(c)'
<1>1. invoking' = [c \in ToolCallers |->
        IF invoking[c].pc \in {"read", "gated"} /\ invoking[c].name = n
        THEN [invoking[c] EXCEPT !.overtaken = TRUE] ELSE invoking[c]]
  BY DEF Overtake
<1>2. ASSUME NEW c \in ToolCallers
      PROVE  /\ invoking'[c].pc \in {"read", "gated"} =>
                    {"pc", "overtaken"} \subseteq DOMAIN invoking'[c]
             /\ InvokeStory(c)'
  <2>1. /\ invoking[c].pc \in {"read", "gated"} =>
              {"pc", "overtaken"} \subseteq DOMAIN invoking[c]
        /\ InvokeStory(c)
    BY DEF ToolInvariant, ToolShapes
  <2>2. CASE invoking[c].pc \in {"read", "gated"} /\ invoking[c].name = n
    <3>. DEFINE old == invoking[c]
                new == invoking'[c]
    <3>1. new = [old EXCEPT !.overtaken = TRUE]
      BY <1>1, <2>2
    <3>2. {"pc", "overtaken"} \subseteq DOMAIN old
      BY <2>1, <2>2
    <3>3. /\ new.overtaken = TRUE /\ new.pc = old.pc /\ new.scope = old.scope
          /\ new.spec = old.spec /\ {"pc", "overtaken"} \subseteq DOMAIN new
      BY <3>1, <3>2
    <3>4. old.pc = "gated" => is_toolset_enabled(old.scope, old.spec.toolset)
      BY <2>1 DEF InvokeStory
    <3>. QED
      BY <2>2, <3>3, <3>4 DEF InvokeStory, is_toolset_enabled
  <2>3. CASE ~(invoking[c].pc \in {"read", "gated"} /\ invoking[c].name = n)
    <3>1. invoking'[c] = invoking[c]
      BY <1>1, <2>3
    <3>. QED
      BY <2>1, <2>3, <3>1 DEF InvokeStory, InScope, is_toolset_enabled
  <2>. QED
    BY <2>2, <2>3
<1>. QED
  BY <1>1, <1>2

\* A specification replaces the one of the name: whoever is half-way with that
\* name makes it contested, every other name is as it was.
LEMMA RegisterSpecStep ==
    ASSUME ToolInvariant, NEW h \in Connectors, NEW n \in ToolNames, RegisterSpec(h, n)
    PROVE  ToolInvariant'
<1>. DEFINE spec == Tool(connecting[h].server, n)
<1>1. /\ DOMAIN connecting = Connectors /\ connecting[h].pc = "spec"
      /\ {"pc", "todo", "name"} \subseteq DOMAIN connecting[h]
  BY DEF ToolInvariant, ToolShapes, RegisterSpec
<1>2. /\ connecting' = [connecting EXCEPT ![h].pc = "handler", ![h].name = n]
      /\ handlers' = handlers
      /\ catalog' = [x \in DOMAIN catalog \cup {n} |-> IF x = n THEN spec ELSE catalog[x]]
      /\ contested' = IF HalfRegistered(n) THEN contested \cup {n} ELSE contested
      /\ Overtake(n)
  BY DEF RegisterSpec, Put
<1>3. /\ connecting'[h].pc = "handler" /\ connecting'[h].name = n
      /\ connecting'[h].server = connecting[h].server
      /\ {"pc", "todo", "name"} \subseteq DOMAIN connecting'[h]
      /\ DOMAIN connecting' = Connectors
      /\ \A g \in Connectors : g /= h => connecting'[g] = connecting[g]
  BY <1>1, <1>2
<1>4. /\ DOMAIN invoking' = ToolCallers
      /\ \A c \in ToolCallers :
            /\ invoking'[c].pc \in {"read", "gated"} =>
                    {"pc", "overtaken"} \subseteq DOMAIN invoking'[c]
            /\ InvokeStory(c)'
  BY <1>2, OvertakeStep
<1>5. ToolShapes'
  BY <1>3, <1>4 DEF ToolInvariant, ToolShapes
<1>6. /\ n \in DOMAIN catalog' /\ catalog'[n] = spec
      /\ \A x : x /= n => (x \in DOMAIN catalog' <=> x \in DOMAIN catalog)
                          /\ (x \in DOMAIN catalog => catalog'[x] = catalog[x])
  BY <1>2
<1>. HIDE DEF spec
<1>7. \A x : x \notin contested' =>
          x \notin contested /\ (x = n => \A g \in Connectors :
                                   ~(connecting[g].pc = "handler" /\ connecting[g].name = n))
  BY <1>2 DEF HalfRegistered
<1>8. HalfWayAlone'
  <2>. SUFFICES ASSUME NEW k \in Connectors,
                       connecting'[k].pc = "handler", connecting'[k].name \notin contested'
                PROVE  /\ connecting'[k].name \in DOMAIN catalog'
                       /\ catalog'[connecting'[k].name]
                            = Tool(connecting'[k].server, connecting'[k].name)
                       /\ \A g \in Connectors :
                             connecting'[g].pc = "handler"
                               /\ connecting'[g].name = connecting'[k].name => g = k
    BY DEF HalfWayAlone, Tool
  <2>1. CASE k = h
    BY <1>3, <1>6, <1>7, <2>1 DEF spec
  <2>2. CASE k /= h
    <3>1. /\ connecting[k].pc = "handler" /\ connecting[k].name \notin contested
          /\ connecting'[k] = connecting[k] /\ connecting[k].name /= n
      BY <1>3, <1>7, <2>2
    <3>2. /\ connecting[k].name \in DOMAIN catalog
          /\ catalog[connecting[k].name] = Tool(connecting[k].server, connecting[k].name)
          /\ \A g \in Connectors :
                connecting[g].pc = "handler" /\ connecting[g].name = connecting[k].name => g = k
      BY <3>1 DEF ToolInvariant, HalfWayAlone
    <3>. QED
      BY <1>3, <1>6, <3>1, <3>2
  <2>. QED
    BY <2>1, <2>2
<1>9. TablesAgree'
  <2>. SUFFICES ASSUME NEW x \in DOMAIN catalog', x \notin contested', ~HalfRegistered(x)'
                PROVE  x \in DOMAIN handlers' /\ handlers'[x] = catalog'[x]
    BY DEF TablesAgree
  <2>1. x /= n
    BY <1>3 DEF HalfRegistered
  <2>2. ~HalfRegistered(x)
    BY <1>1, <1>3 DEF HalfRegistered
  <2>. QED
    BY <1>2, <1>6, <1>7, <2>1, <2>2 DEF ToolInvariant, TablesAgree
<1>. QED
  BY <1>4, <1>5, <1>8, <1>9 DEF ToolInvariant

\* Then its handler is put down, and the name is whole again.
LEMMA RegisterHandlerStep ==
    ASSUME ToolInvariant, NEW h \in Connectors, RegisterHandler(h)
    PROVE  ToolInvariant'
<1>. DEFINE n == connecting[h].name
            tool == Tool(connecting[h].server, n)
<1>1. /\ DOMAIN connecting = Connectors /\ connecting[h].pc = "handler"
      /\ {"pc", "todo", "name"} \subseteq DOMAIN connecting[h]
  BY DEF ToolInvariant, ToolShapes, RegisterHandler
<1>2. /\ \E todo : connecting' = [connecting EXCEPT ![h].pc = "spec", ![h].todo = todo]
      /\ catalog' = catalog /\ contested' = contested
      /\ handlers' = [x \in DOMAIN handlers \cup {n} |-> IF x = n THEN tool ELSE handlers[x]]
      /\ Overtake(n)
  BY DEF RegisterHandler, HandlerPut, Put
<1>3. /\ connecting'[h].pc = "spec" /\ {"pc", "todo", "name"} \subseteq DOMAIN connecting'[h]
      /\ DOMAIN connecting' = Connectors
      /\ \A g \in Connectors : g /= h => connecting'[g] = connecting[g]
  BY <1>1, <1>2
<1>4. /\ n \in DOMAIN handlers' /\ handlers'[n] = tool
      /\ \A x : x /= n => (x \in DOMAIN handlers' <=> x \in DOMAIN handlers)
                          /\ (x \in DOMAIN handlers => handlers'[x] = handlers[x])
  BY <1>2
<1>5. /\ DOMAIN invoking' = ToolCallers
      /\ \A c \in ToolCallers :
            /\ invoking'[c].pc \in {"read", "gated"} =>
                    {"pc", "overtaken"} \subseteq DOMAIN invoking'[c]
            /\ InvokeStory(c)'
  BY <1>2, <1>4, OvertakeStep
<1>6. ToolShapes'
  BY <1>3, <1>5 DEF ToolInvariant, ToolShapes
<1>7. \A g \in Connectors : connecting'[g].pc = "handler" =>
          g /= h /\ connecting[g].pc = "handler" /\ connecting'[g] = connecting[g]
  BY <1>3
<1>8. HalfWayAlone'
  <2>. SUFFICES ASSUME NEW k \in Connectors,
                       connecting'[k].pc = "handler", connecting'[k].name \notin contested
                PROVE  /\ connecting'[k].name \in DOMAIN catalog
                       /\ catalog[connecting'[k].name]
                            = Tool(connecting'[k].server, connecting'[k].name)
                       /\ \A g \in Connectors :
                             connecting'[g].pc = "handler"
                               /\ connecting'[g].name = connecting'[k].name => g = k
    BY <1>2 DEF HalfWayAlone, Tool
  <2>1. /\ connecting[k].pc = "handler" /\ connecting'[k] = connecting[k]
        /\ connecting[k].name \notin contested
    BY <1>7
  <2>2. /\ connecting[k].name \in DOMAIN catalog
        /\ catalog[connecting[k].name] = Tool(connecting[k].server, connecting[k].name)
        /\ \A g \in Connectors :
              connecting[g].pc = "handler" /\ connecting[g].name = connecting[k].name => g = k
    BY <2>1 DEF ToolInvariant, HalfWayAlone
  <2>. QED
    BY <1>7, <2>1, <2>2
<1>9. TablesAgree'
  <2>. SUFFICES ASSUME NEW x \in DOMAIN catalog, x \notin contested, ~HalfRegistered(x)'
                PROVE  x \in DOMAIN handlers' /\ handlers'[x] = catalog[x]
    BY <1>2 DEF TablesAgree
  <2>1. CASE x = n
    <3>1. catalog[n] = tool
      BY <1>1, <2>1 DEF ToolInvariant, HalfWayAlone
    <3>. QED
      BY <1>4, <2>1, <3>1
  <2>2. CASE x /= n
    <3>1. ~HalfRegistered(x)
      BY <1>3, <2>2 DEF HalfRegistered
    <3>2. x \in DOMAIN handlers /\ handlers[x] = catalog[x]
      BY <3>1 DEF ToolInvariant, TablesAgree
    <3>. QED
      BY <1>4, <2>2, <3>2
  <2>. QED
    BY <2>1, <2>2
<1>. QED
  BY <1>5, <1>6, <1>8, <1>9 DEF ToolInvariant

\* A call is gated by the catalogue of the moment it reads; the handler that
\* runs it is fetched later, under the same name.
LEMMA InvocationStep ==
    ASSUME ToolInvariant, NEW c \in ToolCallers,
           invoke(c) \/ CheckGate(c) \/ RunTool(c) \/ ToolReturns(c)
    PROVE  ToolInvariant'
<1>1. UNCHANGED <<catalog, handlers, contested, connecting>>
  BY DEF invoke, CheckGate, RunTool, ToolReturns, registryVars
<1>2. HalfWayAlone' /\ TablesAgree'
  BY <1>1 DEF ToolInvariant, HalfWayAlone, TablesAgree, HalfRegistered, Tool
<1>3. DOMAIN invoking = ToolCallers
  BY DEF ToolInvariant, ToolShapes
<1>4. DOMAIN invoking' = ToolCallers
      /\ \A d \in ToolCallers : d /= c => invoking'[d] = invoking[d]
  BY <1>3 DEF invoke, CheckGate, RunTool, ToolReturns, Ran
<1>5. InvokeStory(c)' /\ (invoking'[c].pc \in {"read", "gated"} =>
                            {"pc", "overtaken"} \subseteq DOMAIN invoking'[c])
  <2>1. CASE invoke(c)
    <3>1. PICK n \in DOMAIN catalog, scope \in Scopes :
            invoking' = [invoking EXCEPT ![c] =
                [pc |-> "read", name |-> n, scope |-> scope, spec |-> catalog[n],
                 overtaken |-> HalfRegistered(n)]]
      BY <2>1 DEF invoke
    <3>2. /\ invoking'[c].pc = "read" /\ invoking'[c].name = n
          /\ invoking'[c].spec = catalog[n]
          /\ {"pc", "overtaken"} \subseteq DOMAIN invoking'[c]
      BY <1>3, <3>1
    <3>3. invoking'[c].overtaken <=> HalfRegistered(n)
      BY <1>3, <3>1
    <3>4. n \notin contested /\ ~HalfRegistered(n) =>
              n \in DOMAIN handlers /\ handlers[n] = catalog[n]
      BY <3>1 DEF ToolInvariant, TablesAgree
    <3>. QED
      BY <1>1, <3>2, <3>3, <3>4 DEF InvokeStory
  <2>4. CASE CheckGate(c)
    <3>1. CASE invoking' = [invoking EXCEPT ![c] = NotInvoking]
      <4>1. invoking'[c].pc = "idle"
        BY <1>3, <3>1 DEF NotInvoking
      <4>. QED
        BY <4>1 DEF InvokeStory
    <3>2. CASE GateOpen(invoking[c]) /\ invoking' = [invoking EXCEPT ![c].pc = "gated"]
      <4>. DEFINE old == invoking[c]
                  new == invoking'[c]
      <4>1. /\ old.pc = "read" /\ {"pc", "overtaken"} \subseteq DOMAIN old
            /\ InvokeStory(c)
        BY <2>4 DEF CheckGate, ToolInvariant, ToolShapes
      <4>2. new = [old EXCEPT !.pc = "gated"]
        BY <1>3, <3>2
      <4>3. /\ new.pc = "gated" /\ new.name = old.name /\ new.scope = old.scope
            /\ new.spec = old.spec /\ {"pc", "overtaken"} \subseteq DOMAIN new
        BY <4>1, <4>2
      <4>4. new.overtaken = old.overtaken
        BY <4>1, <4>2
      <4>5. is_toolset_enabled(old.scope, old.spec.toolset)
        BY <3>2 DEF GateOpen
      <4>6. ~old.overtaken /\ old.name \notin contested =>
                old.name \in DOMAIN handlers /\ handlers[old.name] = old.spec
        BY <4>1 DEF InvokeStory
      <4>. QED
        BY <1>1, <4>3, <4>4, <4>5, <4>6 DEF InvokeStory, is_toolset_enabled
    <3>. QED
      BY <2>4, <3>1, <3>2 DEF CheckGate
  <2>2. CASE RunTool(c)
    <3>. DEFINE call == invoking[c]
    <3>1. /\ is_toolset_enabled(call.scope, call.spec.toolset)
          /\ ~call.overtaken /\ call.name \notin contested =>
                call.name \in DOMAIN handlers /\ handlers[call.name] = call.spec
      BY <2>2 DEF RunTool, ToolInvariant, InvokeStory
    <3>2. CASE invoking' = [invoking EXCEPT ![c] = NotInvoking]
      <4>1. invoking'[c].pc = "idle"
        BY <1>3, <3>2 DEF NotInvoking
      <4>. QED
        BY <4>1 DEF InvokeStory
    <3>3. CASE Ran(c, "sandboxed", call.spec)
      <4>1. /\ invoking'[c].pc = "ran" /\ invoking'[c].tool = call.spec
            /\ invoking'[c].scope = call.scope /\ invoking'[c].how = "sandboxed"
        BY <1>3, <3>3 DEF Ran
      <4>. QED
        BY <3>1, <4>1 DEF InvokeStory, InScope, is_toolset_enabled
    <3>4. CASE /\ ~call.spec.mutating /\ call.name \in DOMAIN handlers
               /\ Ran(c, "in_process", handlers[call.name])
      <4>1. /\ invoking'[c].pc = "ran" /\ invoking'[c].tool = handlers[call.name]
            /\ invoking'[c].scope = call.scope /\ invoking'[c].name = call.name
        BY <1>3, <3>4 DEF Ran
      <4>2. invoking'[c].overtaken = call.overtaken
        BY <1>3, <3>4 DEF Ran
      <4>. QED
        BY <1>1, <3>1, <3>4, <4>1, <4>2 DEF InvokeStory, InScope, is_toolset_enabled
    <3>. QED
      BY <2>2, <3>2, <3>3, <3>4, <1>3 DEF RunTool, Ran, NotInvoking
  <2>3. CASE ToolReturns(c)
    <3>1. invoking'[c].pc = "idle"
      BY <1>3, <2>3 DEF ToolReturns, NotInvoking
    <3>. QED
      BY <3>1 DEF InvokeStory
  <2>. QED
    BY <2>1, <2>2, <2>3, <2>4
<1>6. ToolShapes'
  BY <1>1, <1>4, <1>5 DEF ToolInvariant, ToolShapes
<1>7. ASSUME NEW d \in ToolCallers PROVE InvokeStory(d)'
  <2>1. CASE d = c
    BY <1>5, <2>1
  <2>2. CASE d /= c
    <3>1. invoking'[d] = invoking[d]
      BY <1>4, <2>2
    <3>2. InvokeStory(d)
      BY DEF ToolInvariant
    <3>. QED
      BY <1>1, <3>1, <3>2 DEF InvokeStory, InScope, is_toolset_enabled
  <2>. QED
    BY <2>1, <2>2
<1>. QED
  BY <1>2, <1>6, <1>7 DEF ToolInvariant

\* Every step of the registry and its clients keeps the invariant.
LEMMA ToolStep ==
    ASSUME ToolInvariant, [ToolsNext]_toolVars
    PROVE  ToolInvariant'
<1>1. CASE UNCHANGED toolVars
  BY <1>1, ToolTablesKept DEF toolVars
<1>2. CASE ToolsNext
  BY <1>2, RouteStep, QuietConnectStep, RegisterSpecStep, RegisterHandlerStep, InvocationStep
     DEF ToolsNext
<1>. QED
  BY <1>1, <1>2

(***************************************************************************)
(* The cron parser                                                         *)
(***************************************************************************)

\* Counting out a range: the last turn is the last multiple of the step that
\* fits.
LEMMA Turns ==
    ASSUME NEW d \in Nat, NEW s \in Nat \ {0}, NEW i \in Nat
    PROVE  /\ d \div s \in Nat /\ i * s \in Nat /\ i <= i * s
           /\ i <= d \div s <=> i * s <= d
<1>. DEFINE q == d \div s
<1>1. q \in Nat
  OBVIOUS
<1>2. s * q <= d /\ d < s * q + s /\ s * q \in Nat
  OBVIOUS
<1>. HIDE DEF q
<1>3. i * s \in Nat /\ i <= i * s
  OBVIOUS
<1>4. i <= q => i * s <= s * q
  BY <1>1
<1>5. i >= q + 1 => i * s >= s * q + s
  BY <1>1
<1>6. i <= q \/ i >= q + 1
  BY <1>1
<1>7. i <= q <=> i * s <= d
  BY <1>1, <1>2, <1>3, <1>4, <1>5, <1>6
<1>. QED
  BY <1>1, <1>3, <1>7 DEF q

\* The bounds of the two fields.
LEMMA FieldBounds ==
    ASSUME NEW f \in CronFields
    PROVE  /\ MinValue(f) \in Nat /\ MaxValue(f) \in Nat /\ Upper(f) \in Nat
           /\ MinValue(f) <= MaxValue(f)
           /\ f = "dow" => /\ MinValue(f) = 0 /\ MaxValue(f) = DowMax
                           /\ Upper(f) = DowMax + 1 /\ DowMax \in Nat
           /\ f /= "dow" => Upper(f) = MaxValue(f)
BY CronAssumption DEF CronFields, MinValue, MaxValue, Upper

\* The steps of a part, and the values it stands for before the alias is folded.
StepOf(p) == IF p.step = NoStep THEN 1 ELSE p.step
Reaches(p, f, w) ==
    /\ Low(p, f) <= w /\ w <= High(p, f)
    /\ p.step > 0 => \E k \in 0 .. w : w = Low(p, f) + k * p.step

\* What a part that does not raise spans.
LEMMA PartBounds ==
    ASSUME NEW f \in CronFields, NEW p \in CronParts, ~PartRaises(p, f)
    PROVE  /\ Low(p, f) \in Nat /\ High(p, f) \in Nat /\ Low(p, f) <= High(p, f)
           /\ MinValue(f) <= Low(p, f) /\ High(p, f) <= Upper(f)
           /\ StepOf(p) \in Nat \ {0} /\ (p.step > 0 <=> p.step /= NoStep)
           /\ p.step > 0 => StepOf(p) = p.step
           /\ ~(p.step > 0) => StepOf(p) = 1
<1>1. /\ p.base \in {"star", "value", "range", "bad"} /\ p.low \in Nat /\ p.high \in Nat
      /\ p.step \in Int
  BY DEF CronParts
<1>2. /\ p.base /= "bad" /\ (p.step = NoStep \/ p.step > 0)
      /\ p.base /= "star" => MinValue(f) <= p.low /\ p.low <= Upper(f)
      /\ p.base = "range" => p.high <= Upper(f) /\ p.low <= p.high
  BY <1>1, FieldBounds DEF PartRaises, _parse_value, NoStep
<1>3. MaxValue(f) <= Upper(f)
  BY FieldBounds
<1>4. Low(p, f) = IF p.base = "star" THEN MinValue(f) ELSE p.low
  BY DEF Low
<1>5. /\ p.base = "star" => High(p, f) = MaxValue(f)
      /\ p.base = "range" => High(p, f) = p.high
      /\ p.base = "value" => High(p, f) = IF p.step = NoStep THEN p.low ELSE Upper(f)
  BY DEF High
<1>6. /\ StepOf(p) \in Nat \ {0} /\ (p.step > 0 <=> p.step /= NoStep)
      /\ p.step > 0 => StepOf(p) = p.step
      /\ ~(p.step > 0) => StepOf(p) = 1
  BY <1>1, <1>2 DEF StepOf, NoStep
<1>7. CASE p.base = "star"
  BY <1>3, <1>4, <1>5, <1>6, <1>7, FieldBounds
<1>8. CASE p.base = "range"
  BY <1>1, <1>2, <1>4, <1>5, <1>6, <1>8, FieldBounds
<1>9. CASE p.base = "value"
  BY <1>1, <1>2, <1>4, <1>5, <1>6, <1>9, FieldBounds
<1>. QED
  BY <1>1, <1>2, <1>7, <1>8, <1>9

\* Counting out a part reaches the values between its bounds at multiples of
\* its step, and no others.
LEMMA CountedOut ==
    ASSUME NEW f \in CronFields, NEW p \in CronParts, ~PartRaises(p, f), NEW w \in Int
    PROVE  Reaches(p, f, w) <=>
             \E i \in 0 .. (High(p, f) - Low(p, f)) \div StepOf(p) : w = Low(p, f) + i * StepOf(p)
<1>. DEFINE lo == Low(p, f)
            hi == High(p, f)
            s == StepOf(p)
            d == hi - lo
            q == d \div s
<1>1. /\ lo \in Nat /\ hi \in Nat /\ lo <= hi /\ s \in Nat \ {0}
      /\ (p.step > 0 => s = p.step) /\ (~(p.step > 0) => s = 1)
  BY PartBounds
<1>. HIDE DEF lo, hi, s
<1>2. d \in Nat /\ hi = lo + d
  BY <1>1
<1>. HIDE DEF d
<1>3. \A i \in Nat : i * s \in Nat /\ i <= i * s /\ (i <= q <=> i * s <= d)
  BY <1>1, <1>2, Turns
<1>4. q \in Nat
  BY <1>1, <1>2, Turns
<1>. HIDE DEF q
<1>5. ASSUME Reaches(p, f, w) PROVE \E i \in 0 .. q : w = lo + i * s
  <2>1. lo <= w /\ w <= hi
    BY <1>5 DEF Reaches, lo, hi
  <2>2. CASE p.step > 0
    <3>1. PICK k \in 0 .. w : w = lo + k * s
      BY <1>1, <1>5, <2>2 DEF Reaches, lo
    <3>2. k \in Nat
      BY <1>1, <2>1
    <3>3. k * s \in Nat /\ (k <= q <=> k * s <= d)
      BY <1>3, <3>2
    <3>. DEFINE ks == k * s
    <3>. HIDE DEF ks
    <3>4. ks <= d
      BY <1>1, <1>2, <2>1, <3>1, <3>3 DEF ks
    <3>5. k \in 0 .. q
      BY <1>4, <3>2, <3>3, <3>4 DEF ks
    <3>. QED
      BY <3>1, <3>5
  <2>3. CASE ~(p.step > 0)
    <3>. DEFINE k == w - lo
    <3>1. k \in Nat /\ w = lo + k /\ k <= d /\ s = 1
      BY <1>1, <1>2, <2>1, <2>3
    <3>2. k * s = k
      BY <3>1
    <3>3. k <= q
      BY <1>3, <3>1, <3>2
    <3>. HIDE DEF k
    <3>4. k \in 0 .. q /\ w = lo + k * s
      BY <1>4, <3>1, <3>2, <3>3
    <3>. QED
      BY <3>4
  <2>. QED
    BY <2>2, <2>3
<1>6. ASSUME NEW i \in 0 .. q, w = lo + i * s PROVE Reaches(p, f, w)
  <2>1. i \in Nat /\ i <= q
    BY <1>4
  <2>2. i * s \in Nat /\ i <= i * s /\ i * s <= d
    BY <1>3, <2>1
  <2>. DEFINE is == i * s
  <2>. HIDE DEF is
  <2>3. is \in Nat /\ i <= is /\ is <= d /\ w = lo + is
    BY <1>6, <2>2 DEF is
  <2>4. lo <= w /\ w <= hi /\ i \in 0 .. w
    BY <1>1, <1>2, <2>1, <2>3
  <2>5. p.step > 0 => w = lo + i * p.step
    BY <1>1, <1>6
  <2>. QED
    BY <2>4, <2>5 DEF Reaches, lo, hi
<1>7. Reaches(p, f, w) <=> \E i \in 0 .. q : w = lo + i * s
  BY <1>5, <1>6
<1>. QED
  BY <1>7 DEF q, d, lo, hi, s

\* Between the bounds of the field, to be named by a part is to be reached by
\* it, as oneself or as the alias.
LEMMA NamedIsReached ==
    ASSUME NEW f \in CronFields, NEW p \in CronParts, ~PartRaises(p, f),
           NEW v \in MinValue(f) .. MaxValue(f)
    PROVE  Names(p, f, v) <=>
             Reaches(p, f, v) \/ (f = "dow" /\ v = 0 /\ Reaches(p, f, DowMax + 1))
<1>. DEFINE Form(w) ==
        CASE p.base = "star"  -> w \in MinValue(f) .. MaxValue(f)
          [] p.base = "range" -> p.low <= w /\ w <= p.high
          [] OTHER            -> IF p.step = NoStep THEN w = p.low ELSE p.low <= w
<1>1. ASSUME NEW w \in MinValue(f) .. Upper(f)
      PROVE  Form(w) <=> Low(p, f) <= w /\ w <= High(p, f)
  <2>1. p.low \in Nat /\ p.high \in Nat /\ w \in Int /\ MinValue(f) <= w /\ w <= Upper(f)
    BY FieldBounds DEF CronParts
  <2>2. CASE p.base = "star"
    BY <2>1, <2>2, FieldBounds DEF Low, High
  <2>3. CASE p.base = "range"
    BY <2>1, <2>3 DEF Low, High
  <2>4. CASE p.base \notin {"star", "range"}
    BY <2>1, <2>4 DEF Low, High
  <2>. QED
    BY <2>2, <2>3, <2>4
<1>2. v \in MinValue(f) .. Upper(f) /\ v \in Int
  BY FieldBounds
<1>3. f = "dow" => DowMax + 1 \in MinValue(f) .. Upper(f)
  BY FieldBounds
<1>4. Names(p, f, v) <=>
        \E w \in {v} \cup {u \in {DowMax + 1} : f = "dow" /\ v = 0} :
            Form(w) /\ (p.step > 0 => \E k \in 0 .. w : w = Low(p, f) + k * p.step)
  BY DEF Names
<1>. HIDE DEF Form
<1>5. ASSUME NEW w \in {v} \cup {u \in {DowMax + 1} : f = "dow" /\ v = 0}
      PROVE  (Form(w) /\ (p.step > 0 => \E k \in 0 .. w : w = Low(p, f) + k * p.step))
               <=> Reaches(p, f, w)
  <2>1. w \in MinValue(f) .. Upper(f)
    BY <1>2, <1>3
  <2>. QED
    BY <1>1, <2>1 DEF Reaches
<1>. QED
  BY <1>4, <1>5

\* A part that does not raise parses to the values it names, and there are some.
LEMMA PartValues ==
    ASSUME NEW f \in CronFields, NEW p \in CronParts, ~PartRaises(p, f)
    PROVE  /\ _parse_part(p, f) = {v \in MinValue(f) .. MaxValue(f) : Names(p, f, v)}
           /\ _parse_part(p, f) /= {}
<1>. DEFINE lo == Low(p, f)
            s == StepOf(p)
            q == (High(p, f) - lo) \div s
            mx == MaxValue(f)
            mn == MinValue(f)
<1>1. _parse_part(p, f) = {_normalize(lo + i * s, f) : i \in 0 .. q}
  BY DEF _parse_part, StepOf
<1>2. /\ lo \in Nat /\ s \in Nat \ {0} /\ mn <= lo /\ mn \in Nat /\ mx \in Nat
      /\ \A i \in Nat : lo + i * s \in Int
  BY PartBounds, FieldBounds, Turns
<1>3. \A w \in Int : Reaches(p, f, w) <=> \E i \in 0 .. q : w = lo + i * s
  BY CountedOut
<1>4. q \in Nat
  <2>1. High(p, f) - lo \in Nat
    BY PartBounds
  <2>. QED
    BY <1>2, <2>1, Turns
<1>. HIDE DEF lo, s, q
<1>5. ASSUME NEW v PROVE v \in _parse_part(p, f) <=>
                           \E w \in Int : Reaches(p, f, w) /\ v = _normalize(w, f)
  <2>1. \A i \in 0 .. q : lo + i * s \in Int
    BY <1>2, <1>4
  <2>. QED
    BY <1>1, <1>3, <2>1
<1>6. ASSUME NEW w \in Int, Reaches(p, f, w)
      PROVE  /\ w \in mn .. Upper(f)
             /\ _normalize(w, f) \in mn .. mx
             /\ Names(p, f, _normalize(w, f))
  <2>1. w \in mn .. Upper(f)
    BY <1>6, PartBounds, FieldBounds DEF Reaches
  <2>2. CASE f = "dow" /\ w = DowMax + 1
    <3>1. _normalize(w, f) = 0 /\ 0 \in mn .. mx
      BY <2>2, FieldBounds DEF _normalize
    <3>. QED
      BY <1>6, <2>1, <2>2, <3>1, NamedIsReached
  <2>3. CASE ~(f = "dow" /\ w = DowMax + 1)
    <3>1. _normalize(w, f) = w
      BY <2>3 DEF _normalize
    <3>2. w \in mn .. mx
      BY <2>1, <2>3, FieldBounds
    <3>. QED
      BY <1>6, <2>1, <3>1, <3>2, NamedIsReached
  <2>. QED
    BY <2>2, <2>3
<1>7. ASSUME NEW v \in mn .. mx, Names(p, f, v)
      PROVE  \E w \in Int : Reaches(p, f, w) /\ v = _normalize(w, f)
  <2>1. CASE Reaches(p, f, v)
    <3>1. v \in Int /\ ~(f = "dow" /\ v = DowMax + 1)
      BY <1>2, FieldBounds
    <3>2. _normalize(v, f) = v
      BY <3>1 DEF _normalize
    <3>. QED
      BY <2>1, <3>1, <3>2
  <2>2. CASE f = "dow" /\ v = 0 /\ Reaches(p, f, DowMax + 1)
    <3>1. _normalize(DowMax + 1, f) = 0 /\ DowMax + 1 \in Int
      BY <2>2, FieldBounds DEF _normalize
    <3>. QED
      BY <2>2, <3>1
  <2>. QED
    BY <1>7, <2>1, <2>2, NamedIsReached
<1>8. _parse_part(p, f) = {v \in mn .. mx : Names(p, f, v)}
  <2>. HIDE DEF mn, mx
  <2>. QED
    BY <1>5, <1>6, <1>7
<1>9. _normalize(lo + 0 * s, f) \in _parse_part(p, f)
  BY <1>1, <1>4
<1>. QED
  BY <1>8, <1>9

\* A part parses to nothing exactly when it raises.
LEMMA PartFails ==
    ASSUME NEW f \in CronFields, NEW p \in CronParts
    PROVE  _parse_part(p, f) = Raised <=> PartRaises(p, f)
<1>1. PartRaises(p, f) => _parse_part(p, f) = Raised
  BY DEF _parse_part
<1>2. ~PartRaises(p, f) => _parse_part(p, f) /= Raised
  BY PartValues DEF Raised
<1>. QED
  BY <1>1, <1>2

\* The malformed parts are those that raise.
LEMMA RaisesIsMalformed ==
    ASSUME NEW f \in CronFields, NEW p \in CronParts
    PROVE  ~PartRaises(p, f) <=>
             /\ p.base \in {"star", "value", "range"}
             /\ p.step = NoStep \/ p.step > 0
             /\ p.base = "value" => p.low \in MinValue(f) .. Upper(f)
             /\ p.base = "range" => /\ MinValue(f) <= p.low /\ p.low <= p.high
                                    /\ p.high <= Upper(f)
<1>1. /\ p.base \in {"star", "value", "range", "bad"} /\ p.low \in Nat /\ p.high \in Nat
      /\ p.step \in Int
  BY DEF CronParts
<1>2. MinValue(f) \in Nat /\ Upper(f) \in Nat
  BY FieldBounds
<1>. QED
  BY <1>1, <1>2 DEF PartRaises, _parse_value, NoStep

\* A field raises exactly when it is malformed, and otherwise parses to the
\* values it names.
LEMMA FieldValues ==
    ASSUME NEW f \in CronFields, NEW parts \in SUBSET CronParts
    PROVE  /\ _parse_field(parts, f) = Raised <=> ~WellFormed(parts, f)
           /\ (\A p \in parts : ~PartRaises(p, f)) =>
                _parse_field(parts, f) =
                  {v \in MinValue(f) .. MaxValue(f) : FieldNames(parts, f, v)}
<1>1. (\E p \in parts : _parse_part(p, f) = Raised) <=> \E p \in parts : PartRaises(p, f)
  BY PartFails
<1>2. ASSUME \A p \in parts : ~PartRaises(p, f)
      PROVE  _parse_field(parts, f) =
                {v \in MinValue(f) .. MaxValue(f) : FieldNames(parts, f, v)}
  <2>1. _parse_field(parts, f) = UNION {_parse_part(p, f) : p \in parts}
    BY <1>1, <1>2 DEF _parse_field
  <2>2. \A p \in parts :
            _parse_part(p, f) = {v \in MinValue(f) .. MaxValue(f) : Names(p, f, v)}
    BY <1>2, PartValues
  <2>. QED
    BY <2>1, <2>2 DEF FieldNames
<1>3. WellFormed(parts, f) <=> parts /= {} /\ \A p \in parts : ~PartRaises(p, f)
  BY RaisesIsMalformed DEF WellFormed
<1>4. CASE \E p \in parts : PartRaises(p, f)
  BY <1>1, <1>2, <1>3, <1>4 DEF _parse_field
<1>5. CASE \A p \in parts : ~PartRaises(p, f)
  <2>1. _parse_field(parts, f) = UNION {_parse_part(p, f) : p \in parts}
    BY <1>1, <1>5 DEF _parse_field
  <2>2. \A p \in parts : _parse_part(p, f) /= {}
    BY <1>5, PartValues
  <2>3. _parse_field(parts, f) = {} <=> parts = {}
    BY <2>1, <2>2
  <2>. QED
    BY <1>2, <1>3, <1>5, <2>3 DEF Raised
<1>. QED
  BY <1>4, <1>5

\* Formatting values and parsing the result gives the same values.
LEMMA FormatParses ==
    ASSUME NEW f \in CronFields, NEW V \in SUBSET (MinValue(f) .. MaxValue(f))
    PROVE  _parse_field(_format_field(V, f), f) = V
<1>1. /\ MinValue(f) \in Nat /\ MaxValue(f) \in Nat /\ MaxValue(f) <= Upper(f)
      /\ Upper(f) \in Nat /\ (f = "dow" => MaxValue(f) = DowMax /\ DowMax \in Nat)
  BY FieldBounds
<1>2. CASE V = MinValue(f) .. MaxValue(f)
  <2>. DEFINE p == Part("star", 0, 0, NoStep)
  <2>1. p \in CronParts /\ p.base = "star" /\ p.step = NoStep
    BY DEF Part, CronParts, NoStep
  <2>. HIDE DEF p
  <2>2. ~PartRaises(p, f)
    BY <2>1 DEF PartRaises, NoStep
  <2>3. _format_field(V, f) = {p}
    BY <1>2 DEF _format_field, p
  <2>4. _parse_field({p}, f) =
            {v \in MinValue(f) .. MaxValue(f) : FieldNames({p}, f, v)}
    BY <2>1, <2>2, FieldValues
  <2>5. \A v \in MinValue(f) .. MaxValue(f) : Names(p, f, v)
    BY <2>1 DEF Names, NoStep
  <2>. QED
    BY <1>2, <2>3, <2>4, <2>5 DEF FieldNames
<1>3. CASE V /= MinValue(f) .. MaxValue(f)
  <2>. DEFINE P(v) == Part("value", v, v, NoStep)
              parts == {P(v) : v \in V}
  <2>1. \A v \in V : v \in Nat /\ v <= MaxValue(f) /\ MinValue(f) <= v
    BY <1>1
  <2>2. \A v \in V : /\ P(v) \in CronParts /\ P(v).base = "value" /\ P(v).step = NoStep
                     /\ P(v).low = v
    BY <2>1 DEF Part, CronParts, NoStep
  <2>3. _format_field(V, f) = parts
    BY <1>3 DEF _format_field
  <2>. HIDE DEF P
  <2>4. \A v \in V : ~PartRaises(P(v), f)
    BY <1>1, <2>1, <2>2 DEF PartRaises, _parse_value, NoStep
  <2>5. parts \in SUBSET CronParts /\ \A p \in parts : ~PartRaises(p, f)
    BY <2>2, <2>4
  <2>6. _parse_field(parts, f) =
            {u \in MinValue(f) .. MaxValue(f) : FieldNames(parts, f, u)}
    BY <2>5, FieldValues
  <2>7. ASSUME NEW v \in V, NEW u \in MinValue(f) .. MaxValue(f)
        PROVE  Names(P(v), f, u) <=> u = v
    <3>1. Names(P(v), f, u) <=>
            \E w \in {u} \cup {x \in {DowMax + 1} : f = "dow" /\ u = 0} : w = v
      BY <2>2 DEF Names, NoStep
    <3>2. f = "dow" => DowMax + 1 /= v
      BY <1>1, <2>1
    <3>. QED
      BY <3>1, <3>2
  <2>8. \A u \in MinValue(f) .. MaxValue(f) : FieldNames(parts, f, u) <=> u \in V
    BY <2>7 DEF FieldNames
  <2>. QED
    BY <2>3, <2>6, <2>8
<1>. QED
  BY <1>2, <1>3

\* The request under way: a field of parts, parsed or not.
CronInvariant ==
    /\ cronField.f \in CronFields /\ cronField.parts \in SUBSET CronParts
    /\ cronValues = Unparsed \/ cronValues = _parse_field(cronField.parts, cronField.f)

\* The fields of the run, and the empty one of a service that does not move.
LEMMA CronStart ==
    ASSUME \/ CronInit
           \/ cronField = [f |-> "plain", parts |-> {}] /\ cronValues = Unparsed
    PROVE  CronInvariant
<1>1. AllParts \subseteq CronParts
  <2>. DEFINE written == 0 .. Max({PlainMax, DowMax + 1}) + 1
              steps == StepChoices \cup {NoStep}
  <2>1. written \subseteq Nat /\ 0 \in Nat
    OBVIOUS
  <2>2. steps \subseteq Int /\ NoStep \in Int
    BY StepsAssumption DEF NoStep
  <2>3. AllParts = {Part("bad", 0, 0, NoStep)}
                   \cup {Part("star", 0, 0, s) : s \in steps}
                   \cup {Part("value", v, v, s) : v \in written, s \in steps}
                   \cup {Part("range", v, w, s) : v \in written, w \in written, s \in steps}
    BY DEF AllParts
  <2>. HIDE DEF written, steps
  <2>4. \A v, w \in Nat, s \in Int, b \in {"star", "value", "range", "bad"} :
            Part(b, v, w, s) \in CronParts
    BY DEF Part, CronParts
  <2>5. Part("bad", 0, 0, NoStep) \in CronParts
    BY <2>2, <2>4
  <2>6. \A s \in steps : Part("star", 0, 0, s) \in CronParts
    BY <2>2, <2>4
  <2>7. \A v \in written, s \in steps : Part("value", v, v, s) \in CronParts
    BY <2>1, <2>2, <2>4
  <2>8. \A v, w \in written, s \in steps : Part("range", v, w, s) \in CronParts
    BY <2>1, <2>2, <2>4
  <2>. DEFINE stars == {Part("star", 0, 0, s) : s \in steps}
              values == {Part("value", v, v, s) : v \in written, s \in steps}
              ranges == {Part("range", v, w, s) : v \in written, w \in written, s \in steps}
  <2>9. stars \subseteq CronParts
    BY <2>6
  <2>10. values \subseteq CronParts
    BY <2>7
  <2>11. ranges \subseteq CronParts
    BY <2>8
  <2>12. AllParts = {Part("bad", 0, 0, NoStep)} \cup stars \cup values \cup ranges
    BY <2>3
  <2>. HIDE DEF stars, values, ranges
  <2>. QED
    BY <2>5, <2>9, <2>10, <2>11, <2>12
<1>2. CASE CronInit
  BY <1>1, <1>2 DEF CronInit, CronInvariant
<1>3. CASE cronField = [f |-> "plain", parts |-> {}] /\ cronValues = Unparsed
  BY <1>3 DEF CronInvariant, CronFields
<1>. QED
  BY <1>2, <1>3

\* Parsing returns what _parse_field computes.
LEMMA CronStep ==
    ASSUME CronInvariant, [CronNext]_cronVars
    PROVE  CronInvariant'
BY DEF CronInvariant, CronNext, cronVars

\* What _parse_field computes is what the field says.
LEMMA CronIsFaithful ==
    ASSUME CronInvariant
    PROVE  CronFaithful
<1>. DEFINE f == cronField.f
            parts == cronField.parts
<1>. SUFFICES ASSUME cronValues /= Unparsed
              PROVE  /\ (cronValues = Raised) <=> ~WellFormed(parts, f)
                     /\ cronValues /= Raised =>
                         /\ cronValues =
                              {v \in MinValue(f) .. MaxValue(f) : FieldNames(parts, f, v)}
                         /\ _parse_field(_format_field(cronValues, f), f) = cronValues
  BY DEF CronFaithful
<1>1. f \in CronFields /\ parts \in SUBSET CronParts /\ cronValues = _parse_field(parts, f)
  BY DEF CronInvariant
<1>. HIDE DEF f, parts
<1>2. (cronValues = Raised) <=> ~WellFormed(parts, f)
  BY <1>1, FieldValues
<1>3. ASSUME cronValues /= Raised
      PROVE  cronValues = {v \in MinValue(f) .. MaxValue(f) : FieldNames(parts, f, v)}
  <2>1. \A p \in parts : ~PartRaises(p, f)
    BY <1>1, <1>3, PartFails DEF _parse_field
  <2>. QED
    BY <1>1, <2>1, FieldValues
<1>4. ASSUME cronValues /= Raised
      PROVE  _parse_field(_format_field(cronValues, f), f) = cronValues
  <2>1. cronValues \in SUBSET (MinValue(f) .. MaxValue(f))
    BY <1>3, <1>4
  <2>. QED
    BY <1>1, <2>1, FormatParses
<1>. QED
  BY <1>2, <1>3, <1>4

(***************************************************************************)
(* The scheduler                                                           *)
(***************************************************************************)

\* An expression that create let in, and the minutes it names.
Accepted(e) == e \in DOMAIN Expressions /\ ~ParseRaises(Expressions[e])
ExpressionNames(e, moment) ==
    /\ FieldNames(Expressions[e]["plain"], "plain", PlainValue(moment))
    /\ FieldNames(Expressions[e]["dow"], "dow", CronDow(moment))

\* What a row says of its next run: only an active task has one, at a minute its
\* expression names.
RowHonest(row) ==
    /\ Accepted(row.expr)
    /\ row.next /= Never => row.state = "active" /\ ExpressionNames(row.expr, row.next)

\* A minute that matches the parsed schedule is one the expression names.
LEMMA MatchesNamed ==
    ASSUME NEW e, Accepted(e), NEW moment, _matches(parse(Expressions[e]), moment)
    PROVE  ExpressionNames(e, moment)
<1>1. \A f \in CronFields : Expressions[e][f] \in SUBSET CronParts
  BY SchedulerAssumption DEF Accepted
<1>2. \A f \in CronFields : parse(Expressions[e])[f] = _parse_field(Expressions[e][f], f)
  BY DEF parse
<1>3. \A f \in CronFields : _parse_field(Expressions[e][f], f) /= Raised
  BY <1>2 DEF Accepted, ParseRaises
<1>4. ASSUME NEW f \in CronFields, NEW v \in _parse_field(Expressions[e][f], f)
      PROVE  FieldNames(Expressions[e][f], f, v)
  <2>. DEFINE parts == Expressions[e][f]
  <2>1. parts \in SUBSET CronParts /\ _parse_field(parts, f) /= Raised
    BY <1>1, <1>3
  <2>. HIDE DEF parts
  <2>2. \A p \in parts : ~PartRaises(p, f)
    BY <2>1, PartFails DEF _parse_field
  <2>3. _parse_field(parts, f) = {u \in MinValue(f) .. MaxValue(f) : FieldNames(parts, f, u)}
    BY <2>1, <2>2, FieldValues
  <2>. QED
    BY <1>4, <2>3 DEF parts
<1>5. /\ PlainValue(moment) \in _parse_field(Expressions[e]["plain"], "plain")
      /\ CronDow(moment) \in _parse_field(Expressions[e]["dow"], "dow")
  BY <1>2 DEF _matches, CronFields
<1>. QED
  BY <1>4, <1>5 DEF ExpressionNames, CronFields

\* The scan finds a minute the expression names, or none.
LEMMA ScanFinds ==
    ASSUME NEW e, Accepted(e), NEW after \in Nat
    PROVE  LET found == _next_run_at(parse(Expressions[e]), after) IN
           found \in Int /\ (found /= Never => ExpressionNames(e, found))
<1>. DEFINE s == parse(Expressions[e])
            found == {m \in after .. after + ScanMinutes - 1 : _matches(s, m)}
<1>1. _next_run_at(s, after) = IF found = {} THEN Never ELSE Min(found)
  BY DEF _next_run_at
<1>2. found \in SUBSET Nat
  BY SchedulerAssumption
<1>3. \A m \in found : _matches(s, m)
  OBVIOUS
<1>. HIDE DEF found
<1>4. CASE found = {}
  BY <1>1, <1>4 DEF Never
<1>5. CASE found /= {}
  <2>1. PICK m \in found : \A u \in found : ~(<<u, m>> \in OpToRel(<, Nat))
    BY <1>2, <1>5, NatLessThanWellFounded, WFMin
  <2>2. ASSUME NEW u \in found PROVE m <= u
    <3>1. u \in Nat /\ m \in Nat
      BY <1>2
    <3>2. ~(u < m)
      BY <2>1, <3>1 DEF OpToRel
    <3>. QED
      BY <3>1, <3>2
  <2>3. Min(found) \in found
    BY <2>2 DEF Min
  <2>4. ExpressionNames(e, Min(found))
    BY <1>3, <2>3, MatchesNamed
  <2>. QED
    BY <1>1, <1>2, <1>5, <2>3, <2>4
<1>. QED
  BY <1>4, <1>5

\* The shapes of a row and of the calls.
TaskRows == [expr : DOMAIN Expressions, state : {"active", "paused"}, next : Int]
TickCalls == [pc : {"idle", "wait", "scan", "advance"}, moment : Nat, rows : Seq(Nat)]

SchedulerTypes ==
    /\ minute \in Nat
    /\ starts \in [Tasks -> Nat]
    /\ IsFiniteSet(DOMAIN tasks) /\ DOMAIN tasks \subseteq Tasks
    /\ \A k \in DOMAIN tasks : tasks[k] \in TaskRows
    /\ ticking \in [Tickers -> TickCalls]
    /\ DOMAIN creating = Creators

\* A tick that goes through its rows holds the lock, and they are all still
\* active: whoever would pause one waits.
TickHolds(t) ==
    LET call == ticking[t] IN
    /\ call.moment <= minute
    /\ call.pc \in {"scan", "advance"} =>
        /\ schedulerLock = t
        /\ \A i \in 1 .. Len(call.rows) :
            call.rows[i] \in DOMAIN tasks /\ tasks[call.rows[i]].state = "active"
    /\ call.pc = "advance" => call.rows /= << >>

SchedulerInvariant ==
    /\ SchedulerTypes
    /\ \A k \in DOMAIN tasks : RowHonest(tasks[k])
    /\ \A c \in Creators : creating[c].pc = "insert" =>
        /\ RowHonest(creating[c])
        /\ creating[c].state \in {"active", "paused"} /\ creating[c].next \in Int
    /\ \A t \in Tickers : TickHolds(t)

\* Nothing is scheduled at first.
LEMMA SchedulerStart == SchedulerInit => SchedulerInvariant
<1>. SUFFICES ASSUME SchedulerInit PROVE SchedulerInvariant
  OBVIOUS
<1>1. DOMAIN tasks = {} /\ IsFiniteSet({})
  BY FS_EmptySet DEF SchedulerInit
<1>2. NotTicking \in TickCalls /\ NotTicking.pc = "idle" /\ NotTicking.moment = 0
  BY DEF NotTicking, TickCalls
<1>3. \A t \in Tickers : ticking[t] = NotTicking
  BY DEF SchedulerInit
<1>4. \A c \in Creators : creating[c].pc = "idle"
  BY DEF SchedulerInit, NotCreating
<1>5. SchedulerTypes
  BY <1>1, <1>2 DEF SchedulerInit, SchedulerTypes
<1>6. \A t \in Tickers : TickHolds(t)
  BY <1>2, <1>3 DEF TickHolds, SchedulerInit
<1>. QED
  BY <1>1, <1>4, <1>5, <1>6 DEF SchedulerInvariant

\* The SELECT lists active rows.
LEMMA ActiveRowsListed ==
    ASSUME SchedulerTypes
    PROVE  /\ ActiveRows \in Seq(Nat)
           /\ \A i \in 1 .. Len(ActiveRows) :
                ActiveRows[i] \in DOMAIN tasks /\ tasks[ActiveRows[i]].state = "active"
<1>. DEFINE S == {k \in DOMAIN tasks : tasks[k].state = "active"}
            R == {pair \in S \X S : pair[1] < pair[2]}
            Listed(s) == \A a, b \in DOMAIN s : a < b => s[a] < s[b]
<1>1. IsFiniteSet(S) /\ S \subseteq Nat
  <2>1. IsFiniteSet(DOMAIN tasks) /\ S \in SUBSET (DOMAIN tasks) /\ DOMAIN tasks \subseteq Nat
    BY SchedulerAssumption DEF SchedulerTypes
  <2>. HIDE DEF S
  <2>. QED
    BY <2>1, FS_Subset
<1>2. \A k \in S : k \in DOMAIN tasks /\ tasks[k].state = "active"
  OBVIOUS
<1>3. ActiveRows = CHOOSE rows \in SetToSeqs(S) : Listed(rows)
  BY DEF ActiveRows
<1>. HIDE DEF S
<1>4. \A x, y \in S : <<x, y>> \in R <=> x < y
  OBVIOUS
<1>5. StrictlyOrders(R, S)
  <2>. HIDE DEF R
  <2>. QED
    BY <1>1, <1>4 DEF StrictlyOrders
<1>6. PICK s \in SetToSeqs(S) : \A i, j \in DOMAIN s : i < j => <<s[i], s[j]>> \in R
  BY <1>1, <1>5, ListingExists
<1>7. Listed(s)
  BY <1>6
<1>. HIDE DEF Listed
<1>8. ActiveRows \in SetToSeqs(S)
  BY <1>3, <1>7
<1>9. ActiveRows \in Seq(S)
  BY <1>1, <1>8, ListingCovers
<1>. DEFINE rows == ActiveRows
<1>. HIDE DEF rows
<1>10. rows \in Seq(Nat) /\ \A i \in 1 .. Len(rows) : rows[i] \in S
  <2>1. rows \in Seq(S)
    BY <1>9 DEF rows
  <2>2. Len(rows) \in Nat /\ rows \in [1 .. Len(rows) -> S]
    BY <2>1
  <2>3. rows \in [1 .. Len(rows) -> Nat]
    BY <1>1, <2>2
  <2>. QED
    BY <2>2, <2>3
<1>. QED
  BY <1>2, <1>10 DEF rows

\* create works out the first run before it takes the lock.
LEMMA CreateTaskStep ==
    ASSUME SchedulerInvariant, NEW c \in Creators, CreateTask(c)
    PROVE  SchedulerInvariant'
<1>1. PICK e \in DOMAIN Expressions, state \in {"active", "paused"} :
        /\ ~ParseRaises(Expressions[e])
        /\ creating' = [creating EXCEPT ![c] =
              [pc |-> "insert", expr |-> e, state |-> state,
               next |-> IF state = "active"
                        THEN _next_run_at(parse(Expressions[e]), minute) ELSE Never]]
  BY DEF CreateTask
<1>2. /\ tasks' = tasks /\ minute' = minute /\ schedulerLock' = schedulerLock
      /\ ticking' = ticking /\ starts' = starts
  BY DEF CreateTask
<1>. DEFINE found == _next_run_at(parse(Expressions[e]), minute)
            next == IF state = "active" THEN found ELSE Never
            call == [pc |-> "insert", expr |-> e, state |-> state, next |-> next]
<1>3. found \in Int /\ (found /= Never => ExpressionNames(e, found))
  BY <1>1, ScanFinds DEF Accepted, SchedulerInvariant, SchedulerTypes
<1>. HIDE DEF found
<1>4. /\ next \in Int
      /\ next /= Never => state = "active" /\ ExpressionNames(e, next)
  BY <1>3 DEF Never
<1>5. creating' = [creating EXCEPT ![c] = call]
  BY <1>1 DEF found
<1>. HIDE DEF next
<1>6. /\ RowHonest(call) /\ call.state \in {"active", "paused"} /\ call.next \in Int
  BY <1>1, <1>4 DEF RowHonest, Accepted
<1>. HIDE DEF call
<1>7. /\ DOMAIN creating' = Creators
      /\ \A d \in Creators : creating'[d] = IF d = c THEN call ELSE creating[d]
  BY <1>5 DEF SchedulerInvariant, SchedulerTypes
<1>8. \A d \in Creators : creating'[d].pc = "insert" =>
        /\ RowHonest(creating'[d])
        /\ creating'[d].state \in {"active", "paused"} /\ creating'[d].next \in Int
  BY <1>6, <1>7 DEF SchedulerInvariant
<1>9. SchedulerTypes'
  BY <1>2, <1>7 DEF SchedulerInvariant, SchedulerTypes
<1>10. \A t \in Tickers : TickHolds(t)'
  BY <1>2 DEF SchedulerInvariant, TickHolds
<1>11. \A k \in DOMAIN tasks' : RowHonest(tasks[k])'
  BY <1>2 DEF SchedulerInvariant, RowHonest
<1>12. \A d \in Creators : RowHonest(creating[d])' <=> RowHonest(creating'[d])
  BY DEF RowHonest
<1>. QED
  BY <1>8, <1>9, <1>10, <1>11, <1>12 DEF SchedulerInvariant

\* A step outside the lock leaves every tick that goes through rows at its rows,
\* as there is none.
LEMMA UnlockedTicks ==
    ASSUME SchedulerInvariant, schedulerLock = NoHolder, NEW t \in Tickers
    PROVE  ticking[t].pc \in {"idle", "wait"} /\ ticking[t].moment <= minute
BY SchedulerAssumption DEF SchedulerInvariant, SchedulerTypes, TickHolds, TickCalls

\* The INSERT writes the row as it was worked out.
LEMMA InsertTaskStep ==
    ASSUME SchedulerInvariant, NEW c \in Creators, InsertTask(c)
    PROVE  SchedulerInvariant'
<1>. DEFINE row == [expr |-> creating[c].expr, state |-> creating[c].state,
                    next |-> creating[c].next]
<1>1. PICK k \in Tasks \ DOMAIN tasks :
        tasks' = [j \in DOMAIN tasks \cup {k} |-> IF j = k THEN row ELSE tasks[j]]
  BY DEF InsertTask
<1>2. /\ creating[c].pc = "insert" /\ schedulerLock = NoHolder
      /\ creating' = [creating EXCEPT ![c] = NotCreating]
      /\ minute' = minute /\ schedulerLock' = schedulerLock
      /\ ticking' = ticking /\ starts' = starts
  BY DEF InsertTask
<1>3. /\ RowHonest(creating[c])
      /\ creating[c].state \in {"active", "paused"} /\ creating[c].next \in Int
  BY <1>2 DEF SchedulerInvariant
<1>4. row \in TaskRows /\ RowHonest(row)
  BY <1>3 DEF TaskRows, RowHonest, Accepted
<1>. HIDE DEF row
<1>5. /\ DOMAIN tasks' = DOMAIN tasks \cup {k}
      /\ \A j \in DOMAIN tasks' : tasks'[j] = IF j = k THEN row ELSE tasks[j]
  BY <1>1
<1>6. /\ DOMAIN creating' = Creators
      /\ \A d \in Creators : creating'[d] = IF d = c THEN NotCreating ELSE creating[d]
      /\ NotCreating.pc = "idle"
  BY <1>2 DEF SchedulerInvariant, SchedulerTypes, NotCreating
<1>7. SchedulerTypes'
  <2>1. IsFiniteSet(DOMAIN tasks')
    BY <1>5, FS_AddElement DEF SchedulerInvariant, SchedulerTypes
  <2>2. \A j \in DOMAIN tasks' : tasks'[j] \in TaskRows
    BY <1>4, <1>5 DEF SchedulerInvariant, SchedulerTypes
  <2>. QED
    BY <1>2, <1>5, <1>6, <2>1, <2>2 DEF SchedulerInvariant, SchedulerTypes
<1>8. \A j \in DOMAIN tasks' : RowHonest(tasks'[j])
  BY <1>4, <1>5 DEF SchedulerInvariant
<1>9. \A d \in Creators : creating'[d].pc = "insert" =>
        /\ RowHonest(creating'[d])
        /\ creating'[d].state \in {"active", "paused"} /\ creating'[d].next \in Int
  BY <1>6 DEF SchedulerInvariant
<1>10. \A t \in Tickers : TickHolds(t)'
  BY <1>2, UnlockedTicks DEF TickHolds
<1>11. /\ \A d \in Creators : RowHonest(creating[d])' <=> RowHonest(creating'[d])
       /\ \A j : RowHonest(tasks[j])' <=> RowHonest(tasks'[j])
  BY DEF RowHonest
<1>. QED
  BY <1>7, <1>8, <1>9, <1>10, <1>11 DEF SchedulerInvariant

\* pause and resume, between two ticks.
LEMMA SetStateStep ==
    ASSUME SchedulerInvariant, NEW k \in Tasks, NEW state \in {"active", "paused"},
           _set_state(k, state)
    PROVE  SchedulerInvariant'
<1>. DEFINE e == tasks[k].expr
            found == _next_run_at(parse(Expressions[e]), minute)
            next == IF state = "active" THEN found ELSE Never
<1>1. /\ k \in DOMAIN tasks /\ schedulerLock = NoHolder
      /\ tasks' = [tasks EXCEPT ![k].state = state, ![k].next = next]
      /\ minute' = minute /\ schedulerLock' = schedulerLock
      /\ ticking' = ticking /\ creating' = creating /\ starts' = starts
  BY DEF _set_state
<1>2. Accepted(e) /\ tasks[k] \in TaskRows
  BY <1>1 DEF SchedulerInvariant, SchedulerTypes, RowHonest
<1>3. found \in Int /\ (found /= Never => ExpressionNames(e, found))
  BY <1>2, ScanFinds DEF SchedulerInvariant, SchedulerTypes
<1>. HIDE DEF found
<1>4. /\ next \in Int
      /\ next /= Never => state = "active" /\ ExpressionNames(e, next)
  BY <1>3 DEF Never
<1>. HIDE DEF next
<1>. DEFINE row == [expr |-> e, state |-> state, next |-> next]
<1>5. /\ DOMAIN tasks' = DOMAIN tasks
      /\ \A j \in DOMAIN tasks : j /= k => tasks'[j] = tasks[j]
      /\ tasks'[k] = row
  BY <1>1, <1>2 DEF TaskRows
<1>6. row \in TaskRows /\ RowHonest(row)
  BY <1>2, <1>4 DEF TaskRows, RowHonest, Accepted
<1>. HIDE DEF row
<1>7. SchedulerTypes'
  BY <1>1, <1>5, <1>6 DEF SchedulerInvariant, SchedulerTypes
<1>8. \A j \in DOMAIN tasks' : RowHonest(tasks'[j])
  BY <1>5, <1>6 DEF SchedulerInvariant
<1>9. \A t \in Tickers : TickHolds(t)'
  BY <1>1, UnlockedTicks DEF TickHolds
<1>10. \A j : RowHonest(tasks[j])' <=> RowHonest(tasks'[j])
  BY DEF RowHonest
<1>11. \A c \in Creators : RowHonest(creating[c]) => RowHonest(creating[c])'
  BY <1>1 DEF RowHonest
<1>. QED
  BY <1>1, <1>7, <1>8, <1>9, <1>10, <1>11 DEF SchedulerInvariant

\* A call of tick, and what a turn of its loop makes of it.
LEMMA TickFields ==
    ASSUME NEW call \in TickCalls, call.rows /= << >>
    PROVE  /\ [call EXCEPT !.pc = "advance"] \in TickCalls
           /\ [call EXCEPT !.pc = "advance"].pc = "advance"
           /\ [call EXCEPT !.pc = "advance"].moment = call.moment
           /\ [call EXCEPT !.pc = "advance"].rows = call.rows
           /\ [call EXCEPT !.pc = "scan", !.rows = Tail(@)] \in TickCalls
           /\ [call EXCEPT !.pc = "scan", !.rows = Tail(@)].pc = "scan"
           /\ [call EXCEPT !.pc = "scan", !.rows = Tail(@)].moment = call.moment
           /\ [call EXCEPT !.pc = "scan", !.rows = Tail(@)].rows = Tail(call.rows)
           /\ Len(call.rows) \in Nat /\ 1 \in 1 .. Len(call.rows)
           /\ Head(call.rows) = call.rows[1]
           /\ Len(Tail(call.rows)) = Len(call.rows) - 1
           /\ \A i \in 1 .. Len(call.rows) - 1 :
                 Tail(call.rows)[i] = call.rows[i + 1] /\ i + 1 \in 1 .. Len(call.rows)
<1>. DEFINE Q == Seq(Nat)
            rest == Tail(call.rows)
<1>1. call.rows \in Seq(Nat)
  BY DEF TickCalls
<1>2. /\ Len(call.rows) \in Nat /\ 1 \in 1 .. Len(call.rows)
      /\ Head(call.rows) = call.rows[1] /\ rest \in Q
      /\ Len(Tail(call.rows)) = Len(call.rows) - 1
      /\ \A i \in 1 .. Len(call.rows) - 1 :
            Tail(call.rows)[i] = call.rows[i + 1] /\ i + 1 \in 1 .. Len(call.rows)
  BY <1>1
<1>3. call \in [pc : {"idle", "wait", "scan", "advance"}, moment : Nat, rows : Q]
  BY DEF TickCalls
<1>. HIDE DEF Q, rest
<1>4. /\ [call EXCEPT !.pc = "advance"] \in
           [pc : {"idle", "wait", "scan", "advance"}, moment : Nat, rows : Q]
      /\ [call EXCEPT !.pc = "advance"].pc = "advance"
      /\ [call EXCEPT !.pc = "advance"].moment = call.moment
      /\ [call EXCEPT !.pc = "advance"].rows = call.rows
  BY <1>3
<1>5. /\ [call EXCEPT !.pc = "scan", !.rows = rest] \in
           [pc : {"idle", "wait", "scan", "advance"}, moment : Nat, rows : Q]
      /\ [call EXCEPT !.pc = "scan", !.rows = rest].pc = "scan"
      /\ [call EXCEPT !.pc = "scan", !.rows = rest].moment = call.moment
      /\ [call EXCEPT !.pc = "scan", !.rows = rest].rows = rest
  BY <1>2, <1>3
<1>6. [call EXCEPT !.pc = "scan", !.rows = Tail(@)] =
        [call EXCEPT !.pc = "scan", !.rows = rest]
  BY <1>3 DEF rest
<1>. QED
  BY <1>2, <1>4, <1>5, <1>6 DEF TickCalls, Q, rest

\* A tick's step keeps the invariant when its own call still holds what it held,
\* and no other tick is inside the lock.
LEMMA TickMoves ==
    ASSUME SchedulerInvariant, NEW t \in Tickers, NEW call \in TickCalls,
           ticking' = [ticking EXCEPT ![t] = call],
           UNCHANGED <<tasks, minute, creating>>, starts' \in [Tasks -> Nat],
           TickHolds(t)',
           \A u \in Tickers \ {t} : ticking[u].pc \in {"idle", "wait"}
    PROVE  SchedulerInvariant'
<1>1. \A u \in Tickers : ticking'[u] = IF u = t THEN call ELSE ticking[u]
  BY DEF SchedulerInvariant, SchedulerTypes
<1>2. SchedulerTypes'
  BY DEF SchedulerInvariant, SchedulerTypes
<1>3. \A u \in Tickers : TickHolds(u)'
  BY <1>1 DEF SchedulerInvariant, TickHolds
<1>. QED
  BY <1>2, <1>3 DEF SchedulerInvariant, RowHonest

\* A tick inside the lock is alone there.
LEMMA AloneInside ==
    ASSUME SchedulerInvariant, NEW t \in Tickers, ticking[t].pc \in {"scan", "advance"}
    PROVE  /\ schedulerLock = t
           /\ \A u \in Tickers \ {t} : ticking[u].pc \in {"idle", "wait"}
<1>1. \A u \in Tickers : ticking[u].pc \in {"idle", "wait", "scan", "advance"}
  BY DEF SchedulerInvariant, SchedulerTypes, TickCalls
<1>2. \A u \in Tickers : ticking[u].pc \in {"scan", "advance"} => schedulerLock = u
  BY DEF SchedulerInvariant, TickHolds
<1>. QED
  BY <1>1, <1>2

\* tick reads the clock.
LEMMA TickCalledStep ==
    ASSUME SchedulerInvariant, NEW t \in Tickers, TickCalled(t)
    PROVE  SchedulerInvariant'
<1>. DEFINE call == [ticking[t] EXCEPT !.pc = "wait", !.moment = minute]
<1>1. /\ ticking' = [ticking EXCEPT ![t].pc = "wait", ![t].moment = minute]
      /\ UNCHANGED <<tasks, minute, schedulerLock, creating, starts>>
  BY DEF TickCalled
<1>2. ticking \in [Tickers -> TickCalls] /\ minute \in Nat
  BY DEF SchedulerInvariant, SchedulerTypes
<1>3. call \in TickCalls /\ call.pc = "wait" /\ call.moment = minute
  <2>. DEFINE Q == Seq(Nat)
  <2>1. ticking[t] \in [pc : {"idle", "wait", "scan", "advance"}, moment : Nat, rows : Q]
    BY <1>2 DEF TickCalls
  <2>. HIDE DEF Q
  <2>2. /\ call \in [pc : {"idle", "wait", "scan", "advance"}, moment : Nat, rows : Q]
        /\ call.pc = "wait" /\ call.moment = minute
    BY <1>2, <2>1
  <2>. QED
    BY <2>2 DEF TickCalls, Q
<1>4. ticking' = [ticking EXCEPT ![t] = call]
  BY <1>1, <1>2
<1>. HIDE DEF call
<1>5. \A u \in Tickers : ticking'[u] = IF u = t THEN call ELSE ticking[u]
  BY <1>2, <1>4
<1>6. SchedulerTypes'
  BY <1>1, <1>2, <1>3, <1>4 DEF SchedulerInvariant, SchedulerTypes
<1>7. ASSUME NEW u \in Tickers PROVE TickHolds(u)'
  <2>1. CASE u = t
    BY <1>1, <1>2, <1>3, <1>5, <2>1 DEF TickHolds
  <2>2. CASE u /= t
    <3>1. ticking'[u] = ticking[u] /\ TickHolds(u)
      BY <1>5, <2>2 DEF SchedulerInvariant
    <3>. QED
      BY <1>1, <3>1 DEF TickHolds
  <2>. QED
    BY <2>1, <2>2
<1>. QED
  BY <1>1, <1>6, <1>7 DEF SchedulerInvariant, RowHonest

\* The lock is taken: the rows are active and no other tick is inside.
LEMMA TickEntersStep ==
    ASSUME SchedulerInvariant, NEW t \in Tickers, TickEnters(t)
    PROVE  SchedulerInvariant'
<1>. DEFINE call == [ticking[t] EXCEPT !.pc = "scan", !.rows = ActiveRows]
<1>1. /\ ticking' = [ticking EXCEPT ![t].pc = "scan", ![t].rows = ActiveRows]
      /\ schedulerLock = NoHolder /\ schedulerLock' = t
      /\ UNCHANGED <<tasks, minute, creating, starts>>
  BY DEF TickEnters
<1>2. ticking \in [Tickers -> TickCalls] /\ SchedulerTypes
  BY DEF SchedulerInvariant, SchedulerTypes
<1>3. call \in TickCalls /\ call.pc = "scan" /\ call.moment = ticking[t].moment
      /\ call.rows = ActiveRows
  <2>. DEFINE Q == Seq(Nat)
  <2>1. ticking[t] \in [pc : {"idle", "wait", "scan", "advance"}, moment : Nat, rows : Q]
    BY <1>2 DEF TickCalls
  <2>2. ActiveRows \in Q
    BY <1>2, ActiveRowsListed
  <2>. HIDE DEF Q
  <2>3. /\ call \in [pc : {"idle", "wait", "scan", "advance"}, moment : Nat, rows : Q]
        /\ call.pc = "scan" /\ call.moment = ticking[t].moment /\ call.rows = ActiveRows
    BY <2>1, <2>2
  <2>. QED
    BY <2>3 DEF TickCalls, Q
<1>4. ticking' = [ticking EXCEPT ![t] = call]
  BY <1>1, <1>2
<1>. HIDE DEF call
<1>5. ticking'[t] = call
  BY <1>2, <1>4
<1>6. \A u \in Tickers : ticking[u].pc \in {"idle", "wait"} /\ ticking[u].moment <= minute
  BY <1>1, UnlockedTicks
<1>7. TickHolds(t)'
  BY <1>1, <1>2, <1>3, <1>5, <1>6, ActiveRowsListed DEF TickHolds
<1>8. starts' \in [Tasks -> Nat]
  BY <1>1, <1>2 DEF SchedulerTypes
<1>. QED
  BY <1>1, <1>3, <1>4, <1>6, <1>7, <1>8, TickMoves

\* The lock is left.
LEMMA LeaveTickStep ==
    ASSUME SchedulerInvariant, NEW t \in Tickers, LeaveTick(t),
           ticking[t].pc \in {"scan", "advance"},
           UNCHANGED <<tasks, minute, creating, starts>>
    PROVE  SchedulerInvariant'
<1>1. ticking' = [ticking EXCEPT ![t] = NotTicking] /\ ticking \in [Tickers -> TickCalls]
  BY DEF LeaveTick, SchedulerInvariant, SchedulerTypes
<1>2. NotTicking \in TickCalls /\ NotTicking.pc = "idle" /\ NotTicking.moment = 0
  BY DEF NotTicking, TickCalls
<1>3. starts' \in [Tasks -> Nat] /\ minute \in Nat
  BY DEF SchedulerInvariant, SchedulerTypes
<1>4. TickHolds(t)'
  BY <1>1, <1>2, <1>3 DEF TickHolds
<1>. QED
  BY <1>1, <1>2, <1>3, <1>4, AloneInside, TickMoves

\* A turn of the loop: a row is passed over, started, or ends the tick; what is
\* started is active and its expression names the minute of the tick.
LEMMA TickRowStep ==
    ASSUME SchedulerInvariant, NEW t \in Tickers, TickRow(t)
    PROVE  /\ SchedulerInvariant'
           /\ \A k \in Tasks : starts'[k] > starts[k] =>
                /\ tasks[k].state = "active"
                /\ ticking[t].pc = "scan" /\ ticking[t].moment <= minute
                /\ Head(ticking[t].rows) = k
                /\ NamesMinute(k, ticking[t].moment)
<1>. DEFINE call == ticking[t]
            k == Head(call.rows)
            due == _matches(parse(Expressions[tasks[k].expr]), call.moment)
            passed == [call EXCEPT !.pc = "scan", !.rows = Tail(@)]
            started == [call EXCEPT !.pc = "advance"]
<1>1. /\ call.pc = "scan" /\ call.rows /= << >>
      /\ UNCHANGED <<tasks, minute, creating>>
      /\ \/ /\ ticking' = [ticking EXCEPT ![t].rows = Tail(@)]
            /\ UNCHANGED <<starts, schedulerLock>>
         \/ /\ due
            /\ starts' = [starts EXCEPT ![k] = @ + 1]
            /\ ticking' = [ticking EXCEPT ![t].pc = "advance"]
            /\ UNCHANGED schedulerLock
         \/ LeaveTick(t) /\ UNCHANGED starts
  BY DEF TickRow
<1>2. /\ ticking \in [Tickers -> TickCalls] /\ call \in TickCalls
      /\ starts \in [Tasks -> Nat] /\ DOMAIN tasks \subseteq Tasks
  BY DEF SchedulerInvariant, SchedulerTypes
<1>3. /\ call.moment <= minute /\ schedulerLock = t
      /\ \A i \in 1 .. Len(call.rows) :
            call.rows[i] \in DOMAIN tasks /\ tasks[call.rows[i]].state = "active"
  BY <1>1 DEF SchedulerInvariant, TickHolds
<1>4. \A u \in Tickers \ {t} : ticking[u].pc \in {"idle", "wait"}
  BY <1>1, AloneInside
<1>5. /\ Len(call.rows) \in Nat /\ 1 \in 1 .. Len(call.rows) /\ k = call.rows[1]
      /\ Len(Tail(call.rows)) = Len(call.rows) - 1
      /\ \A i \in 1 .. Len(call.rows) - 1 :
            Tail(call.rows)[i] = call.rows[i + 1] /\ i + 1 \in 1 .. Len(call.rows)
  BY <1>1, <1>2, TickFields
<1>6. /\ passed \in TickCalls /\ passed.pc = "scan" /\ passed.moment = call.moment
      /\ passed.rows = Tail(call.rows)
      /\ started \in TickCalls /\ started.pc = "advance" /\ started.moment = call.moment
      /\ started.rows = call.rows
  BY <1>1, <1>2, TickFields
<1>7. k \in DOMAIN tasks /\ tasks[k].state = "active"
  BY <1>3, <1>5
<1>8. CASE ticking' = [ticking EXCEPT ![t].rows = Tail(@)] /\ UNCHANGED <<starts, schedulerLock>>
  <2>1. ticking' = [ticking EXCEPT ![t] = passed]
    <3>1. [call EXCEPT !.rows = Tail(@)] = passed
      BY <1>1, <1>2 DEF TickCalls
    <3>2. ticking' = [ticking EXCEPT ![t] = [call EXCEPT !.rows = Tail(@)]]
      BY <1>2, <1>8
    <3>. QED
      BY <3>1, <3>2
  <2>. HIDE DEF passed
  <2>2. ticking'[t] = passed
    BY <1>2, <2>1
  <2>3. \A i \in 1 .. Len(passed.rows) :
            passed.rows[i] \in DOMAIN tasks /\ tasks[passed.rows[i]].state = "active"
    BY <1>3, <1>5, <1>6
  <2>4. TickHolds(t)'
    BY <1>1, <1>3, <1>6, <1>8, <2>2, <2>3 DEF TickHolds
  <2>5. starts' \in [Tasks -> Nat] /\ \A j \in Tasks : ~(starts'[j] > starts[j])
    BY <1>2, <1>8
  <2>6. SchedulerInvariant'
    BY <1>1, <1>4, <1>6, <2>1, <2>4, <2>5, TickMoves
  <2>. QED
    BY <2>5, <2>6
<1>9. CASE /\ due
           /\ starts' = [starts EXCEPT ![k] = @ + 1]
           /\ ticking' = [ticking EXCEPT ![t].pc = "advance"]
           /\ UNCHANGED schedulerLock
  <2>1. ticking' = [ticking EXCEPT ![t] = started]
    BY <1>2, <1>9
  <2>. HIDE DEF started
  <2>2. ticking'[t] = started
    BY <1>2, <2>1
  <2>3. TickHolds(t)'
    BY <1>1, <1>3, <1>6, <1>9, <2>2 DEF TickHolds
  <2>4. Accepted(tasks[k].expr)
    BY <1>7 DEF SchedulerInvariant, RowHonest
  <2>5. NamesMinute(k, call.moment)
    BY <1>9, <2>4, MatchesNamed DEF NamesMinute, ExpressionNames
  <2>. HIDE DEF k, due
  <2>6. starts' \in [Tasks -> Nat] /\ \A j \in Tasks : starts'[j] > starts[j] => j = k
    BY <1>2, <1>7, <1>9
  <2>7. SchedulerInvariant'
    BY <1>1, <1>4, <1>6, <2>1, <2>3, <2>6, TickMoves
  <2>. QED
    BY <1>1, <1>3, <1>7, <2>5, <2>6, <2>7 DEF k
<1>10. CASE LeaveTick(t) /\ UNCHANGED starts
  <2>1. SchedulerInvariant'
    BY <1>1, <1>10, LeaveTickStep
  <2>2. \A j \in Tasks : ~(starts'[j] > starts[j])
    BY <1>2, <1>10
  <2>. QED
    BY <2>1, <2>2
<1>. QED
  BY <1>1, <1>8, <1>9, <1>10

\* The row of the run that was started is moved to the next match.
LEMMA TickAdvancesStep ==
    ASSUME SchedulerInvariant, NEW t \in Tickers, TickAdvances(t)
    PROVE  SchedulerInvariant'
<1>. DEFINE call == ticking[t]
            k == Head(call.rows)
            found == _next_run_at(parse(Expressions[tasks[k].expr]), call.moment + 1)
            passed == [call EXCEPT !.pc = "scan", !.rows = Tail(@)]
<1>1. /\ call.pc = "advance"
      /\ tasks' = [tasks EXCEPT ![k].next = found]
      /\ ticking' = [ticking EXCEPT ![t].pc = "scan", ![t].rows = Tail(@)]
      /\ UNCHANGED <<minute, schedulerLock, creating, starts>>
  BY DEF TickAdvances
<1>2. /\ ticking \in [Tickers -> TickCalls] /\ call \in TickCalls /\ call.moment + 1 \in Nat
      /\ \A j \in DOMAIN tasks : tasks[j] \in TaskRows
  BY DEF SchedulerInvariant, SchedulerTypes, TickCalls
<1>3. /\ call.moment <= minute /\ schedulerLock = t /\ call.rows /= << >>
      /\ \A i \in 1 .. Len(call.rows) :
            call.rows[i] \in DOMAIN tasks /\ tasks[call.rows[i]].state = "active"
  BY <1>1 DEF SchedulerInvariant, TickHolds
<1>4. \A u \in Tickers \ {t} : ticking[u].pc \in {"idle", "wait"}
  BY <1>1, AloneInside
<1>5. /\ Len(call.rows) \in Nat /\ 1 \in 1 .. Len(call.rows) /\ k = call.rows[1]
      /\ Len(Tail(call.rows)) = Len(call.rows) - 1
      /\ \A i \in 1 .. Len(call.rows) - 1 :
            Tail(call.rows)[i] = call.rows[i + 1] /\ i + 1 \in 1 .. Len(call.rows)
      /\ passed \in TickCalls /\ passed.pc = "scan" /\ passed.moment = call.moment
      /\ passed.rows = Tail(call.rows)
  BY <1>2, <1>3, TickFields
<1>6. k \in DOMAIN tasks /\ tasks[k].state = "active" /\ Accepted(tasks[k].expr)
  BY <1>3, <1>5 DEF SchedulerInvariant, RowHonest
<1>7. found \in Int /\ (found /= Never => ExpressionNames(tasks[k].expr, found))
  BY <1>2, <1>6, ScanFinds
<1>8. ticking' = [ticking EXCEPT ![t] = passed]
  BY <1>1, <1>2
<1>. HIDE DEF passed, found
<1>. DEFINE row == [tasks[k] EXCEPT !.next = found]
<1>9. /\ row \in TaskRows /\ row.expr = tasks[k].expr /\ row.state = "active"
      /\ row.next = found
  BY <1>2, <1>6, <1>7 DEF TaskRows
<1>10. /\ DOMAIN tasks' = DOMAIN tasks
       /\ \A j \in DOMAIN tasks : tasks'[j] = IF j = k THEN row ELSE tasks[j]
  BY <1>1, <1>6
<1>. HIDE DEF row, k
<1>11. \A u \in Tickers : ticking'[u] = IF u = t THEN passed ELSE ticking[u]
  BY <1>2, <1>8
<1>12. SchedulerTypes'
  <2>1. \A j \in DOMAIN tasks' : tasks'[j] \in TaskRows
    BY <1>2, <1>9, <1>10
  <2>2. ticking' \in [Tickers -> TickCalls]
    BY <1>2, <1>5, <1>8
  <2>. QED
    BY <1>1, <1>10, <2>1, <2>2 DEF SchedulerInvariant, SchedulerTypes
<1>13. \A j \in DOMAIN tasks' : RowHonest(tasks'[j])
  BY <1>6, <1>7, <1>9, <1>10 DEF SchedulerInvariant, RowHonest
<1>14. \A j \in DOMAIN tasks : tasks[j].state = "active" => tasks'[j].state = "active"
  BY <1>9, <1>10
<1>15. ASSUME NEW u \in Tickers PROVE TickHolds(u)'
  <2>1. CASE u = t
    <3>1. \A i \in 1 .. Len(passed.rows) :
            passed.rows[i] \in DOMAIN tasks' /\ tasks'[passed.rows[i]].state = "active"
      BY <1>3, <1>5, <1>10, <1>14
    <3>2. ticking'[u] = passed /\ passed.pc = "scan" /\ passed.moment <= minute'
      BY <1>1, <1>3, <1>5, <1>11, <2>1
    <3>3. schedulerLock' = u
      BY <1>1, <1>3, <2>1
    <3>. QED
      BY <3>1, <3>2, <3>3 DEF TickHolds
  <2>2. CASE u /= t
    <3>1. ticking'[u] = ticking[u] /\ ticking[u].pc \in {"idle", "wait"}
      BY <1>4, <1>11, <2>2
    <3>. QED
      BY <1>1, <3>1 DEF SchedulerInvariant, TickHolds
  <2>. QED
    BY <2>1, <2>2
<1>16. /\ \A j : RowHonest(tasks[j])' <=> RowHonest(tasks'[j])
       /\ \A c \in Creators : RowHonest(creating[c]) => RowHonest(creating[c])'
  BY <1>1 DEF RowHonest
<1>. QED
  BY <1>1, <1>12, <1>13, <1>15, <1>16 DEF SchedulerInvariant

\* Whoever moves, rows and ticks stay as honest as they were, and a run is
\* started for an active task only, at a minute its expression names.
LEMMA SchedulerStep ==
    ASSUME SchedulerInvariant, [SchedulerNext]_schedulerVars
    PROVE  /\ SchedulerInvariant'
           /\ \A k \in Tasks : starts'[k] > starts[k] =>
                /\ tasks[k].state = "active"
                /\ \E t \in Tickers : /\ ticking[t].pc = "scan"
                                      /\ ticking[t].moment <= minute
                                      /\ Head(ticking[t].rows) = k
                                      /\ NamesMinute(k, ticking[t].moment)
<1>. DEFINE Quiet == \A k \in Tasks : ~(starts'[k] > starts[k])
<1>1. starts' = starts => Quiet
  BY DEF SchedulerInvariant, SchedulerTypes
<1>2. CASE UNCHANGED schedulerVars
  BY <1>1, <1>2 DEF schedulerVars, SchedulerInvariant, SchedulerTypes, TickHolds, RowHonest
<1>3. ASSUME NextMinute PROVE SchedulerInvariant' /\ Quiet
  <2>1. /\ minute' = minute + 1 /\ starts' = starts
        /\ UNCHANGED <<tasks, schedulerLock, ticking, creating>>
    BY <1>3 DEF NextMinute
  <2>2. \A t \in Tickers : ticking[t].moment \in Nat /\ minute \in Nat
    BY DEF SchedulerInvariant, SchedulerTypes, TickCalls
  <2>3. SchedulerTypes'
    BY <2>1 DEF SchedulerInvariant, SchedulerTypes
  <2>4. \A t \in Tickers : TickHolds(t)'
    BY <2>1, <2>2 DEF SchedulerInvariant, TickHolds
  <2>. QED
    BY <1>1, <2>1, <2>3, <2>4 DEF SchedulerInvariant, RowHonest
<1>4. ASSUME NEW c \in Creators, CreateTask(c) \/ InsertTask(c)
      PROVE  SchedulerInvariant' /\ Quiet
  BY <1>1, <1>4, CreateTaskStep, InsertTaskStep DEF CreateTask, InsertTask
<1>5. ASSUME NEW k \in Tasks, NEW state \in {"active", "paused"}, _set_state(k, state)
      PROVE  SchedulerInvariant' /\ Quiet
  BY <1>1, <1>5, SetStateStep DEF _set_state
<1>6. ASSUME NEW t \in Tickers, TickCalled(t) \/ TickEnters(t) \/ TickAdvances(t)
      PROVE  SchedulerInvariant' /\ Quiet
  BY <1>1, <1>6, TickCalledStep, TickEntersStep, TickAdvancesStep
     DEF TickCalled, TickEnters, TickAdvances
<1>7. ASSUME NEW t \in Tickers, TickReturns(t)
      PROVE  SchedulerInvariant' /\ Quiet
  BY <1>1, <1>7, LeaveTickStep DEF TickReturns
<1>8. CASE SchedulerNext
  <2>1. CASE \E t \in Tickers : TickRow(t)
    BY <2>1, TickRowStep
  <2>. HIDE DEF Quiet
  <2>2. CASE ~\E t \in Tickers : TickRow(t)
    <3>1. SchedulerInvariant' /\ Quiet
      BY <1>3, <1>4, <1>5, <1>6, <1>7, <1>8, <2>2 DEF SchedulerNext
    <3>. QED
      BY <3>1 DEF Quiet
  <2>. QED
    BY <2>1, <2>2
<1>. QED
  BY <1>2, <1>8

(***************************************************************************)
(* The services together                                                   *)
(***************************************************************************)

\* A step of the system is, for each service, one of its own steps or none.
LEMMA Interleaving ==
    ASSUME [Next]_vars
    PROVE  /\ [CheckpointsNext]_checkpointVars /\ [ExecNext]_execVars
           /\ [PlanningNext]_planningVars /\ [HooksNext]_hookVars /\ [ToolsNext]_toolVars
           /\ [CronNext]_cronVars /\ [SchedulerNext]_schedulerVars
           /\ [MemoryNext]_memoryVars
<1>1. CASE UNCHANGED vars
  BY <1>1 DEF vars
<1>2. CASE Next
  BY <1>2 DEF Next, Memory, ParseCron, Schedule, Checkpoint, UseTools, RunScripts, RunHooks,
     Plan
<1>. QED
  BY <1>1, <1>2

\* Each service starts where its own invariant holds, whichever one moves.
LEMMA ServicesStart ==
    ASSUME Init
    PROVE  /\ CheckpointInvariant /\ ExecInvariant /\ PlanningInvariant /\ HookInvariant
           /\ ToolInvariant /\ CronInvariant /\ SchedulerInvariant /\ MemoryInvariant
<1>1. /\ CheckpointsInit /\ ExecInit /\ HooksInit /\ ToolsInit /\ SchedulerInit
      /\ MemoryInit
  BY DEF Init
<1>2. PlanningInvariant
  BY PlanningStart DEF Init
<1>3. CronInvariant
  BY CronStart DEF Init
<1>. QED
  BY <1>1, <1>2, <1>3, CheckpointStart, ExecStart, HooksStart, ToolsStart,
     SchedulerStart, MemoryStart

\* Whatever callers snapshot, mutate and restore at once, and whatever fails,
\* comes late or dies between asking, the kernel's copy and the row: every
\* mutation in a workspace has a recorded checkpoint, whose snapshot of that
\* workspace the mutation is not in (checkpoint_manager.py).
THEOREM CheckpointsStayBacked == Spec => []CheckpointsBacked
<1>1. CheckpointInvariant /\ [Next]_vars => CheckpointInvariant'
  BY Interleaving, CheckpointStep
<1>2. Init => CheckpointInvariant
  BY ServicesStart
<1>3. CheckpointInvariant => CheckpointsBacked
  BY DEF CheckpointInvariant, IsBacked, SnapshotSound, ContentsRecorded, CheckpointsBacked
<1>. QED
  BY <1>1, <1>2, <1>3, PTL DEF Spec

\* What an execution reports of a script is what the script did, whatever the
\* time limit and however many lines it writes, while the capture, the workload
\* and the clock race (code_executor.py _capture, _timeout).
THEOREM SandboxStaysHonest == Spec => []SandboxResultsHonest
<1>1. ExecInvariant /\ [Next]_vars => ExecInvariant'
  BY Interleaving, ExecStep
<1>2. Init => ExecInvariant
  BY ServicesStart
<1>3. ExecInvariant => SandboxResultsHonest
  BY ExecHonest
<1>. QED
  BY <1>1, <1>2, <1>3, PTL DEF Spec

\* A posted graph of any size that is accepted is stored and loaded again as it
\* was planned, without a cycle or a dangling dependency, and a refused one
\* leaves nothing behind (planner.py build_dag, dag_executor.py _load_dag).
THEOREM PlansStayFaithful == Spec => []PlannedGraphRuns
<1>1. PlanningInvariant /\ [Next]_vars => PlanningInvariant'
  BY Interleaving, PlanningStep
<1>2. Init => PlanningInvariant
  BY ServicesStart
<1>3. PlanningInvariant => PlannedGraphRuns
  BY PlanningFaithful
<1>. QED
  BY <1>1, <1>2, <1>3, PTL DEF Spec

\* A step is only allowed when every guardrail its trigger started out with ran
\* and agreed, and nothing runs after a denial, whatever hooks are registered
\* meanwhile and however many runs trigger them (hook_manager.py trigger).
THEOREM HooksStayClosed == Spec => []HooksFailClosed
<1>1. HookInvariant /\ [Next]_vars => HookInvariant'
  BY Interleaving, HookStep
<1>2. Init => HookInvariant
  BY ServicesStart
<1>3. HookInvariant => HooksFailClosed
  BY HookClosed
<1>. QED
  BY <1>1, <1>2, <1>3, PTL DEF Spec

\* Whatever names the servers share and whatever connects, reconnects or leaves
\* between the gate and the handler: a call reaches a tool outside its scope, or
\* a mutating one outside a sandbox, only if its very name was registered while
\* it was under way, or by two threads at once (tool_registry.py invoke,
\* register_tool; mcp_client.py connect, disconnect).
THEOREM ToolsStayGuarded == Spec => []ToolsGuarded
<1>1. ToolInvariant /\ [Next]_vars => ToolInvariant'
  BY Interleaving, ToolStep
<1>2. Init => ToolInvariant
  BY ServicesStart
<1>3. ToolInvariant => ToolsGuarded
  BY DEF ToolInvariant, InvokeStory, ToolsGuarded
<1>. QED
  BY <1>1, <1>2, <1>3, PTL DEF Spec

\* Whatever the bounds of a field and however it is written: the parser raises
\* exactly on a malformed field, returns the values the field names, Sunday as 0
\* or as the alias, and parses what it formats to the same values
\* (cron_parser.py parse, format).
THEOREM CronStaysFaithful == Spec => []CronFaithful
<1>1. CronInvariant /\ [Next]_vars => CronInvariant'
  BY Interleaving, CronStep
<1>2. Init => CronInvariant
  BY ServicesStart
<1>3. CronInvariant => CronFaithful
  BY CronIsFaithful
<1>. QED
  BY <1>1, <1>2, <1>3, PTL DEF Spec

\* Whatever threads record, delete or die at once, and however many entries there
\* are: the stored sizes never add up to more than the bound, and a record only
\* takes a row away because what it offers does not fit beside the rows, the
\* oldest second first (memory_store.py record, _make_room_for).
THEOREM MemoryStaysCurated == Spec => MemoryCurated
<1>1. ASSUME MemoryInvariant, [Next]_vars
      PROVE  MemoryInvariant' /\ [\A i \in DOMAIN entries :
                (memoryLock /= NoThread /\ i \notin DOMAIN entries')
                  => /\ ~Fits(entries, recording[memoryLock].size)
                     /\ EvictsOldest(i)]_memoryVars
  BY <1>1, Interleaving, MemoryStep
<1>2. Init => MemoryInvariant
  BY ServicesStart
<1>3. MemoryInvariant => total_size(entries) <= MaxTotalBytes
  BY DEF MemoryInvariant
<1>. QED
  BY <1>1, <1>2, <1>3, PTL DEF Spec, MemoryCurated

\* Whatever ticks, requests and the clock do at once, for any expressions and any
\* horizon of the scan: a run is only started for an active task at a minute its
\* expression names and that has come, and a row only has a next run time, one
\* its expression names, while it is active (scheduler.py tick, create, pause,
\* resume).
THEOREM ScheduleStaysHonoured == Spec => ScheduleHonoured
<1>1. ASSUME SchedulerInvariant, [Next]_vars
      PROVE  SchedulerInvariant' /\ [\A k \in Tasks : starts'[k] > starts[k] =>
                /\ tasks[k].state = "active"
                /\ \E t \in Tickers : /\ ticking[t].pc = "scan"
                                      /\ ticking[t].moment <= minute
                                      /\ Head(ticking[t].rows) = k
                                      /\ NamesMinute(k, ticking[t].moment)]_schedulerVars
  BY <1>1, Interleaving, SchedulerStep
<1>2. Init => SchedulerInvariant
  BY ServicesStart
<1>3. SchedulerInvariant =>
        \A k \in DOMAIN tasks :
            tasks[k].next /= Never =>
                tasks[k].state = "active" /\ NamesMinute(k, tasks[k].next)
  BY DEF SchedulerInvariant, RowHonest, ExpressionNames, NamesMinute
<1>. QED
  BY <1>1, <1>2, <1>3, PTL DEF Spec, ScheduleHonoured
=============================================================================
