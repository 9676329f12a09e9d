------------------------- MODULE DistinctHash_proofs -------------------------
(***************************************************************************)
(* Proofs about DistinctHash: for every set of tuples and every hash       *)
(* function that does not give more than a bucket of tuples one hash, the  *)
(* directory is exact and the hash implements a set.                       *)
(*                                                                         *)
(* A split of a bucket is argued once, about plain values (BucketSplit):   *)
(* the split of the directory is a doubling, which changes nothing that    *)
(* can be found (Doubling), followed by the split of a bucket.             *)
(***************************************************************************)
EXTENDS DistinctHash, FiniteSetTheorems, TLAPS

\* DirectoryIsExact, of a directory dr with entries of g bits over pages pg.
Exact(g, dr, pg) ==
  \A s \in Suffixes(g) :
    /\ pg[dr[s]].local_depth <= g
    /\ \A r \in Suffixes(g) :
         dr[r] = dr[s] <=> Suffix(r, pg[dr[s]].local_depth) = dr[s]

\* A bucket has only tuples whose hashes end in its number.
InPlace(g, dr, pg) ==
  \A s \in Suffixes(g) : \A t \in pg[dr[s]].tuples :
    Suffix(Hash[t], pg[dr[s]].local_depth) = dr[s]

Finds(g, dr, pg, t) == t \in pg[dr[Suffix(Hash[t], g)]].tuples

\* Pages pg2 are pages pg with bucket b, of depth d, split into b and new.
SplitOf(pg, pg2, b, d, new) ==
  /\ pg2[new].local_depth = d + 1 /\ pg2[b].local_depth = d + 1
  /\ \A t : t \in pg2[new].tuples <=>
              t \in pg[b].tuples /\ Suffix(Hash[t], d + 1) = new
  /\ \A t : t \in pg2[b].tuples <=>
              t \in pg[b].tuples /\ Suffix(Hash[t], d + 1) # new
  /\ \A x \in Numbers : x # b /\ x # new => pg2[x] = pg[x]

\* Directory dr2 is dr with the entries that end in new, of d + 1 bits, redirected.
RedirectionOf(g, dr, dr2, d, new) ==
  \A s \in Suffixes(g) : dr2[s] = IF Suffix(s, d + 1) = new THEN new ELSE dr[s]

\* What is not marked can be read again from the file.
CleanPagesAreOnFile == \A b \in Numbers : b \notin dirty => pages[b] = file[b]

IInv ==
  /\ TypeOK
  /\ Exact(global_depth, dir, pages)
  /\ InPlace(global_depth, dir, pages)
  /\ CleanPagesAreOnFile

-----------------------------------------------------------------------------
(* Suffixes.                                                               *)

\* The suffix of a number is a number of so many bits.
LEMMA SuffixType ==
  ASSUME NEW d \in 0 .. NBits, NEW h \in Numbers
  PROVE  /\ Suffix(h, d) \in Suffixes(d)
         /\ Suffix(h, d) \in Numbers
<1>1. 0 .. d - 1 \subseteq Bits
  BY HashAssumption DEF Bits
<1> QED  BY <1>1 DEF Suffix, Suffixes, Numbers

\* Numbers of fewer bits are numbers.
LEMMA SuffixesAreNumbers ==
  ASSUME NEW d \in 0 .. NBits
  PROVE  Suffixes(d) \subseteq Numbers
<1>1. 0 .. d - 1 \subseteq Bits
  BY HashAssumption DEF Bits
<1> QED  BY <1>1 DEF Suffixes, Numbers

\* The shorter of two suffixes can be taken of the longer one.
LEMMA SuffixOfSuffix ==
  ASSUME NEW d \in Nat, NEW e \in Nat, d <= e, NEW h
  PROVE  Suffix(Suffix(h, e), d) = Suffix(h, d)
<1>1. \A i : i \in 0 .. d - 1 => i \in 0 .. e - 1
  OBVIOUS
<1> QED  BY <1>1 DEF Suffix

\* A number of d bits is its own suffix.
LEMMA SuffixOfShort ==
  ASSUME NEW d \in Nat, NEW s \in Suffixes(d)
  PROVE  Suffix(s, d) = s
BY DEF Suffix, Suffixes

\* A number that ends in the number of a new bucket ends in that of the bucket
\* it was split from.
LEMMA SuffixOfNew ==
  ASSUME NEW d \in Nat, NEW b \in Suffixes(d), NEW h, Suffix(h, d + 1) = b \cup {d}
  PROVE  Suffix(h, d) = b
<1>1. \A i : i \in 0 .. d <=> i \in 0 .. d - 1 \/ i = d
  OBVIOUS
<1>2. \A i : i \in h /\ i \in 0 .. d <=> i \in b \/ i = d
  BY DEF Suffix
<1>3. \A i : i \in b => i \in 0 .. d - 1
  BY DEF Suffixes
<1>4. d \notin 0 .. d - 1
  OBVIOUS
<1>5. \A i : i \in Suffix(h, d) <=> i \in b
  BY <1>1, <1>2, <1>3, <1>4 DEF Suffix
<1> QED  BY <1>5

\* The number of a new bucket is a number of one bit more, which does not end
\* in the number of the bucket it was split from.
LEMMA NewNumber ==
  ASSUME NEW d \in Nat, NEW b \in Suffixes(d)
  PROVE  /\ b \cup {d} \in Suffixes(d + 1)
         /\ b \cup {d} # b
         /\ b \in Suffixes(d + 1)
         /\ Suffix(b \cup {d}, d) = b
<1>1. \A i \in b : i \in 0 .. d - 1
  BY DEF Suffixes
<1>2. d \notin b
  BY <1>1
<1>3. \A i : i \in 0 .. (d + 1) - 1 <=> i \in 0 .. d - 1 \/ i = d
  OBVIOUS
<1>4. b \cup {d} \in Suffixes(d + 1) /\ b \in Suffixes(d + 1)
  BY <1>1, <1>3 DEF Suffixes
<1>5. Suffix(b \cup {d}, d) = b
  <2>1. \A i : i \in b \cup {d} /\ i \in 0 .. d - 1 <=> i \in b
    BY <1>1
  <2> QED  BY <2>1 DEF Suffix
<1> QED  BY <1>2, <1>4, <1>5
-----------------------------------------------------------------------------
(* The split of a bucket and the doubling of the directory.                *)

\* After the split of a bucket the directory is exact again, and the same
\* tuples are found.
LEMMA BucketSplit ==
  ASSUME NEW g \in 0 .. NBits,
         NEW dr \in [Suffixes(g) -> Numbers], NEW pg \in [Numbers -> Bucket],
         Exact(g, dr, pg), InPlace(g, dr, pg),
         NEW s0 \in Suffixes(g), NEW b \in Numbers, b = dr[s0],
         NEW d \in Nat, d = pg[b].local_depth, d < g,
         NEW new \in Numbers, new = b \cup {d},
         NEW pg2 \in [Numbers -> Bucket], NEW dr2 \in [Suffixes(g) -> Numbers],
         SplitOf(pg, pg2, b, d, new), RedirectionOf(g, dr, dr2, d, new)
  PROVE  /\ Exact(g, dr2, pg2)
         /\ InPlace(g, dr2, pg2)
         /\ \A t \in Tuples : Finds(g, dr2, pg2, t) <=> Finds(g, dr, pg, t)
<1> USE DEF SplitOf, RedirectionOf
<1>1. b \in Numbers /\ d \in 0 .. NBits /\ g \in Nat /\ d \in Nat /\ d + 1 <= g
      /\ d + 1 \in Nat /\ d <= d + 1
  <2>1. b \in Numbers
    OBVIOUS
  <2>2. pg[b] \in Bucket
    BY <2>1
  <2>3. d \in 0 .. NBits
    BY <2>2 DEF Bucket
  <2> QED  BY <2>1, <2>3, HashAssumption
<1>2. \A r \in Suffixes(g) : dr[r] = b <=> Suffix(r, d) = b
  BY DEF Exact
<1>3. b \in Suffixes(d)
  <2>1. Suffixes(g) \subseteq Numbers
    BY SuffixesAreNumbers
  <2>2. Suffix(s0, d) = b /\ s0 \in Numbers
    BY <1>2, <2>1
  <2> QED  BY <1>1, <2>2, SuffixType
<1>4. /\ new \in Suffixes(d + 1) /\ new # b /\ b \in Suffixes(d + 1)
      /\ Suffix(new, d) = b
  <2>1. /\ b \cup {d} \in Suffixes(d + 1) /\ b \cup {d} # b /\ b \in Suffixes(d + 1)
        /\ Suffix(b \cup {d}, d) = b
    BY <1>1, <1>3, NewNumber
  <2> QED  BY <2>1
<1>5. \A h : Suffix(h, d + 1) = new => Suffix(h, d) = b
  BY <1>1, <1>3, SuffixOfNew
<1>6. \A s \in Suffixes(g) : dr[s] # new
  <2>1. SUFFICES ASSUME NEW s \in Suffixes(g), dr[s] = new PROVE FALSE
    OBVIOUS
  <2>2. PICK e : e = pg[new].local_depth
    OBVIOUS
  <2>3. new \in Numbers /\ pg[new] \in Bucket
    <3>1. dr[s] \in Numbers
      OBVIOUS
    <3> QED  BY <2>1, <3>1
  <2>4. e \in Nat /\ e <= g /\ Suffix(s, e) = new /\ d <= e
    <3>1. e \in 0 .. NBits
      BY <2>2, <2>3 DEF Bucket
    <3>2. e <= g /\ Suffix(s, e) = new
      <4>1. /\ pg[dr[s]].local_depth <= g
            /\ dr[s] = dr[s] <=> Suffix(s, pg[dr[s]].local_depth) = dr[s]
        BY DEF Exact
      <4> QED  BY <2>1, <2>2, <4>1
    <3>3. d \in new /\ d \in Suffix(s, e)
      BY <3>2
    <3>4. d \in 0 .. e - 1
      BY <3>3 DEF Suffix
    <3>5. e \in Nat /\ d <= e
      BY <1>1, <3>1, <3>4, HashAssumption
    <3> QED  BY <3>2, <3>5
  <2>5. Suffix(s, d) = Suffix(Suffix(s, e), d)
    <3>1. e \in Nat /\ d \in Nat /\ d <= e
      BY <1>1, <2>4
    <3> QED  BY <3>1, SuffixOfSuffix
  <2>6. Suffix(s, d) = b
    BY <1>4, <2>4, <2>5
  <2>7. dr[s] = b
    BY <1>2, <2>6
  <2> QED  BY <1>4, <2>1, <2>7
\* The entries of the three kinds of bucket.
<1>7. \A s \in Suffixes(g) : dr2[s] = new <=> Suffix(s, d + 1) = new
  BY <1>6
<1>8. \A s \in Suffixes(g) : dr2[s] # new => dr2[s] = dr[s]
  OBVIOUS
<1>9. \A h : Suffix(h, d + 1) = b \/ Suffix(h, d + 1) = new <=> Suffix(h, d) = b
  <2>1. SUFFICES ASSUME NEW h PROVE Suffix(h, d + 1) = b \/ Suffix(h, d + 1) = new <=> Suffix(h, d) = b
    OBVIOUS
  <2>2. Suffix(Suffix(h, d + 1), d) = Suffix(h, d)
    BY <1>1, SuffixOfSuffix
  <2>3. Suffix(b, d) = b
    BY <1>1, <1>3, SuffixOfShort
  <2>4. Suffix(h, d + 1) = b => Suffix(h, d) = b
    BY <2>2, <2>3
  <2>5. ASSUME Suffix(h, d) = b PROVE Suffix(h, d + 1) = b \/ Suffix(h, d + 1) = new
    <3>1. \A i : i \in 0 .. (d + 1) - 1 <=> i \in 0 .. d - 1 \/ i = d
      BY <1>1
    <3>2. \A i : i \in Suffix(h, d + 1) <=> i \in b \/ (i = d /\ i \in h)
      <4>1. \A i : i \in b <=> i \in h /\ i \in 0 .. d - 1
        BY <2>5 DEF Suffix
      <4>2. \A i : i \in Suffix(h, d + 1) <=> i \in h /\ i \in 0 .. (d + 1) - 1
        BY DEF Suffix
      <4> QED  BY <3>1, <4>1, <4>2
    <3>3. d \in h => Suffix(h, d + 1) = new
      <4>1. d \in h => \A i : i \in Suffix(h, d + 1) <=> i \in b \cup {d}
        BY <3>2
      <4>2. d \in h => Suffix(h, d + 1) = b \cup {d}
        BY <4>1
      <4> QED  BY <4>2
    <3>4. d \notin h => Suffix(h, d + 1) = b
      <4>1. d \notin h => \A i : i \in Suffix(h, d + 1) <=> i \in b
        BY <3>2
      <4> QED  BY <4>1
    <3> QED  BY <3>3, <3>4
  <2> QED  BY <1>5, <2>4, <2>5
<1>10. \A s \in Suffixes(g) : dr2[s] = b <=> Suffix(s, d + 1) = b
  <2>1. SUFFICES ASSUME NEW s \in Suffixes(g) PROVE dr2[s] = b <=> Suffix(s, d + 1) = b
    OBVIOUS
  <2>2. dr[s] = b <=> Suffix(s, d + 1) = b \/ Suffix(s, d + 1) = new
    BY <1>2, <1>9
  <2> QED  BY <1>4, <2>2
<1>11. \A s \in Suffixes(g) :
         dr2[s] # new /\ dr2[s] # b =>
           /\ dr2[s] = dr[s] /\ pg2[dr[s]] = pg[dr[s]]
           /\ \A r \in Suffixes(g) : dr2[r] = dr[s] <=> dr[r] = dr[s]
  <2>1. \A r, s \in Suffixes(g) :
          dr2[s] # new /\ dr2[s] # b => (dr2[r] = dr[s] <=> dr[r] = dr[s])
    <3>1. \A r \in Suffixes(g) : dr2[r] = new => dr[r] = b
      BY <1>2, <1>5, <1>7
    <3> QED  BY <1>6, <1>8, <3>1
  <2> QED  BY <1>8, <2>1
<1>12. Exact(g, dr2, pg2)
  <2>1. SUFFICES ASSUME NEW s \in Suffixes(g)
                 PROVE /\ pg2[dr2[s]].local_depth <= g
                       /\ \A r \in Suffixes(g) :
                            dr2[r] = dr2[s] <=> Suffix(r, pg2[dr2[s]].local_depth) = dr2[s]
    BY DEF Exact
  <2>2. CASE dr2[s] = new
    BY <1>1, <1>7, <2>2
  <2>3. CASE dr2[s] = b
    BY <1>1, <1>10, <2>3
  <2>4. CASE dr2[s] # new /\ dr2[s] # b
    BY <1>11, <2>4 DEF Exact
  <2> QED  BY <2>2, <2>3, <2>4
<1>13. InPlace(g, dr2, pg2)
  <2>1. SUFFICES ASSUME NEW s \in Suffixes(g), NEW t \in pg2[dr2[s]].tuples
                 PROVE Suffix(Hash[t], pg2[dr2[s]].local_depth) = dr2[s]
    BY DEF InPlace
  <2>2. CASE dr2[s] = new
    BY <2>1, <2>2
  <2>3. CASE dr2[s] = b
    <3>1. t \in pg[b].tuples /\ Suffix(Hash[t], d + 1) # new
      BY <2>1, <2>3
    <3>2. Suffix(Hash[t], d) = b
      BY <3>1 DEF InPlace
    <3> QED  BY <1>9, <2>3, <3>1, <3>2
  <2>4. CASE dr2[s] # new /\ dr2[s] # b
    BY <1>11, <2>1, <2>4 DEF InPlace
  <2> QED  BY <2>2, <2>3, <2>4
<1>14. ASSUME NEW t \in Tuples PROVE Finds(g, dr2, pg2, t) <=> Finds(g, dr, pg, t)
  <2>1. PICK s \in Suffixes(g) : s = Suffix(Hash[t], g)
    BY SuffixType, HashAssumption
  <2>2. Suffix(s, d + 1) = Suffix(Hash[t], d + 1)
    BY <1>1, <2>1, SuffixOfSuffix
  <2>3. Finds(g, dr2, pg2, t) <=> t \in pg2[dr2[s]].tuples
    BY <2>1 DEF Finds
  <2>4. Finds(g, dr, pg, t) <=> t \in pg[dr[s]].tuples
    BY <2>1 DEF Finds
  <2>5. CASE dr2[s] = new
    <3>1. dr[s] = b
      BY <1>2, <1>5, <1>7, <2>5
    <3>2. Suffix(Hash[t], d + 1) = new
      BY <1>7, <2>2, <2>5
    <3> QED  BY <2>3, <2>4, <2>5, <3>1, <3>2
  <2>6. CASE dr2[s] = b
    <3>1. Suffix(Hash[t], d + 1) # new
      BY <1>4, <1>7, <2>2, <2>6
    <3>2. dr[s] = b
      BY <1>4, <1>8, <2>6
    <3> QED  BY <2>3, <2>4, <2>6, <3>1, <3>2
  <2>7. CASE dr2[s] # new /\ dr2[s] # b
    BY <1>11, <2>3, <2>4, <2>7
  <2> QED  BY <2>5, <2>6, <2>7
<1> QED  BY <1>12, <1>13, <1>14

\* The doubled directory leads everything where it was.
LEMMA Doubling ==
  ASSUME NEW g \in 0 .. NBits, g + 1 <= NBits,
         NEW dr \in [Suffixes(g) -> Numbers], NEW pg \in [Numbers -> Bucket],
         Exact(g, dr, pg), InPlace(g, dr, pg),
         NEW dd, \A s \in Suffixes(g + 1) : dd[s] = dr[Suffix(s, g)]
  PROVE  /\ Exact(g + 1, dd, pg)
         /\ InPlace(g + 1, dd, pg)
         /\ \A t \in Tuples : Finds(g + 1, dd, pg, t) <=> Finds(g, dr, pg, t)
<1>1. g \in Nat /\ g + 1 \in 0 .. NBits /\ g <= g + 1
  BY HashAssumption
<1>2. \A s \in Suffixes(g + 1) : s \in Numbers /\ Suffix(s, g) \in Suffixes(g)
  <2>1. \A s \in Suffixes(g + 1) : s \in Numbers
    BY <1>1, SuffixesAreNumbers
  <2> QED  BY <1>1, <2>1, SuffixType
<1>3. \A s \in Suffixes(g + 1), e \in Nat : e <= g => Suffix(Suffix(s, g), e) = Suffix(s, e)
  BY <1>1, SuffixOfSuffix
<1>4. \A s \in Suffixes(g + 1) : dd[s] \in Numbers /\ pg[dd[s]].local_depth \in Nat
                              /\ pg[dd[s]].local_depth <= g
  <2>1. \A s \in Suffixes(g + 1) : dd[s] \in Numbers
    BY <1>2
  <2>2. \A x \in Numbers : pg[x].local_depth \in Nat
    BY HashAssumption DEF Bucket
  <2> QED  BY <1>2, <2>1, <2>2 DEF Exact
<1>5. Exact(g + 1, dd, pg)
  <2>1. SUFFICES ASSUME NEW s \in Suffixes(g + 1)
                 PROVE /\ pg[dd[s]].local_depth <= g + 1
                       /\ \A r \in Suffixes(g + 1) :
                            dd[r] = dd[s] <=> Suffix(r, pg[dd[s]].local_depth) = dd[s]
    BY DEF Exact
  <2>2. pg[dd[s]].local_depth <= g + 1
    BY <1>1, <1>4
  <2>3. ASSUME NEW r \in Suffixes(g + 1)
        PROVE dd[r] = dd[s] <=> Suffix(r, pg[dd[s]].local_depth) = dd[s]
    <3>1. PICK x \in Suffixes(g), y \in Suffixes(g) : x = Suffix(s, g) /\ y = Suffix(r, g)
      BY <1>2
    <3>2. PICK e \in Nat : e = pg[dd[s]].local_depth /\ e <= g
      BY <1>4
    <3>3. Suffix(y, e) = Suffix(r, e)
      BY <1>3, <3>1, <3>2
    <3>4. dr[y] = dr[x] <=> Suffix(y, pg[dr[x]].local_depth) = dr[x]
      BY DEF Exact
    <3>5. dd[s] = dr[x] /\ dd[r] = dr[y]
      BY <3>1
    <3> QED  BY <3>2, <3>3, <3>4, <3>5
  <2> QED  BY <2>2, <2>3
<1>6. InPlace(g + 1, dd, pg)
  BY <1>2 DEF InPlace
<1>7. ASSUME NEW t \in Tuples PROVE Finds(g + 1, dd, pg, t) <=> Finds(g, dr, pg, t)
  <2>1. Suffix(Hash[t], g + 1) \in Suffixes(g + 1)
    BY <1>1, SuffixType, HashAssumption
  <2>2. Suffix(Suffix(Hash[t], g + 1), g) = Suffix(Hash[t], g)
    BY <1>1, SuffixOfSuffix
  <2> QED  BY <2>1, <2>2 DEF Finds
<1> QED  BY <1>5, <1>6, <1>7

-----------------------------------------------------------------------------
(* The bucket that a turn looks at.                                        *)

\* It is the one that the hash of the tuple leads to.
LEMMA HereIsReached ==
  ASSUME IInv, ~Idle
  PROVE  /\ tuple \in Tuples
         /\ Suffix(Hash[tuple], global_depth) \in Suffixes(global_depth)
         /\ Here = dir[Suffix(Hash[tuple], global_depth)]
         /\ Here \in Numbers
         /\ pages[Here] \in Bucket
         /\ pages[Here].local_depth \in 0 .. NBits
         /\ pages[Here].local_depth <= global_depth
         /\ Suffix(Hash[tuple], pages[Here].local_depth) = Here
<1>1. tuple \in Tuples /\ global_depth \in 0 .. NBits /\ global_depth \in Nat
  BY HashAssumption DEF IInv, TypeOK, Idle
<1>2. PICK s \in Suffixes(global_depth) : s = Suffix(Hash[tuple], global_depth)
  BY <1>1, SuffixType, HashAssumption
<1>3. Here = dir[s] /\ Here \in Numbers
  BY <1>2 DEF Here, BucketOf, IInv, TypeOK
<1>4. pages[Here] \in Bucket
  BY <1>3 DEF IInv, TypeOK
<1>5. PICK d \in 0 .. NBits : d = pages[Here].local_depth
  BY <1>4 DEF Bucket
<1>6. d <= global_depth /\ Suffix(s, d) = Here
  <2>1. /\ pages[dir[s]].local_depth <= global_depth
        /\ dir[s] = dir[s] <=> Suffix(s, pages[dir[s]].local_depth) = dir[s]
    BY DEF IInv, Exact
  <2> QED  BY <1>3, <1>5, <2>1
<1>7. Suffix(s, d) = Suffix(Hash[tuple], d)
  <2>1. d \in Nat
    BY HashAssumption
  <2> QED  BY <1>1, <1>2, <1>6, <2>1, SuffixOfSuffix
<1> QED  BY <1>1, <1>2, <1>3, <1>4, <1>5, <1>6, <1>7

\* A bucket that must be split is not as deep as the hashes are long: its tuples
\* and the new one would all have its number for a hash.
LEMMA RoomToSplit ==
  ASSUME IInv, NeedSplit
  PROVE  pages[Here].local_depth < NBits
<1>1. ~Idle /\ ~IsHere /\ IsFull
  BY DEF NeedSplit
<1>2. PICK h \in Numbers : h = Here
  BY <1>1, HereIsReached
<1>3. PICK ts \in SUBSET Tuples : ts = pages[h].tuples
  <2>1. pages[h] \in Bucket
    BY <1>1, <1>2, HereIsReached
  <2> QED  BY <2>1 DEF Bucket
<1>4. SUFFICES ASSUME pages[h].local_depth >= NBits PROVE FALSE
  <2>1. pages[Here].local_depth \in 0 .. NBits
    BY <1>1, HereIsReached
  <2> QED  BY <1>2, <2>1, HashAssumption
<1>5. pages[h].local_depth = NBits
  <2>1. pages[Here].local_depth \in 0 .. NBits
    BY <1>1, HereIsReached
  <2> QED  BY <1>2, <1>4, <2>1, HashAssumption
<1>6. \A n \in Numbers : Suffix(n, NBits) = n
  <2>1. \A n \in Numbers : n \in Suffixes(NBits) /\ NBits \in Nat
    BY HashAssumption DEF Numbers, Bits, Suffixes
  <2> QED  BY <2>1, SuffixOfShort
<1>7. tuple \in Tuples /\ Hash[tuple] = h
  <2>1. tuple \in Tuples /\ Suffix(Hash[tuple], NBits) = h
    BY <1>1, <1>2, <1>5, HereIsReached
  <2> QED  BY <1>6, <2>1, HashAssumption
<1>8. \A t \in ts : Hash[t] = h
  <2>1. PICK s \in Suffixes(global_depth) : dir[s] = h
    BY <1>1, <1>2, HereIsReached
  <2>2. \A t \in ts : Suffix(Hash[t], NBits) = h
    BY <1>3, <1>5, <2>1 DEF IInv, InPlace
  <2> QED  BY <1>3, <1>6, <2>2, HashAssumption
<1>9. Cardinality(ts \cup {tuple}) = MaxTuples + 1
  <2>1. IsFiniteSet(ts)
    BY <1>3, HashAssumption, FS_Subset
  <2>2. tuple \notin ts /\ Cardinality(ts) = MaxTuples
    BY <1>1, <1>2, <1>3 DEF IsHere, IsFull
  <2> QED  BY <2>1, <2>2, FS_AddElement
<1>10. ts \cup {tuple} \in SUBSET Tuples /\ MaxTuples \in Nat
  BY <1>3, <1>7, HashAssumption
<1>11. PICK t \in ts \cup {tuple}, u \in ts \cup {tuple} : Hash[t] # Hash[u]
  <2>1. Cardinality(ts \cup {tuple}) > MaxTuples
    BY <1>9, <1>10
  <2> QED  BY <1>10, <2>1, HashAssumption
<1> QED  BY <1>7, <1>8, <1>11

\* The pages after a split.
LEMMA SplitPages ==
  ASSUME pages \in [Numbers -> Bucket],
         NEW b \in Numbers, NEW new \in Numbers, b # new,
         NEW d \in Nat, d = pages[b].local_depth, d < NBits,
         NEW pg2, pg2 = Split(b, new, d + 1)
  PROVE  pg2 \in [Numbers -> Bucket] /\ SplitOf(pages, pg2, b, d, new)
<1>1. pages[b] \in Bucket /\ pages[b].tuples \subseteq Tuples
  BY DEF Bucket
<1>2. d + 1 \in 0 .. NBits
  BY HashAssumption
<1> DEFINE moved == {t \in pages[b].tuples : Suffix(Hash[t], d + 1) = new}
           atB == [tuples |-> pages[b].tuples \ moved, local_depth |-> d + 1]
           atNew == [tuples |-> moved, local_depth |-> d + 1]
<1>3. atB \in Bucket /\ atNew \in Bucket
  BY <1>1, <1>2 DEF Bucket
<1>4. pg2 = [[pages EXCEPT ![b] = atB] EXCEPT ![new] = atNew]
  BY DEF Split, HasSuffix
<1> HIDE DEF atB, atNew
<1>5. pg2 \in [Numbers -> Bucket] /\ pg2[b] = atB /\ pg2[new] = atNew
  BY <1>3, <1>4
<1>6. \A x \in Numbers : x # b /\ x # new => pg2[x] = pages[x]
  BY <1>4
<1> QED  BY <1>5, <1>6 DEF atB, atNew, SplitOf

-----------------------------------------------------------------------------
(* The steps.                                                              *)

Kept == UNCHANGED <<global_depth, dir, pages, file, dirty>>

\* A step that leaves directory and pages alone keeps the invariant.
LEMMA KeptInv ==
  ASSUME IInv, Kept, tuple' \in Tuples \cup {NoTuple}
  PROVE  IInv' /\ Stored' = Stored
<1> USE DEF Kept
<1>1. TypeOK'
  BY DEF IInv, TypeOK
<1>2. Exact(global_depth', dir', pages') /\ InPlace(global_depth', dir', pages')
  BY DEF IInv
<1>3. CleanPagesAreOnFile'
  BY DEF IInv, CleanPagesAreOnFile
<1>4. Stored' = Stored
  BY DEF Stored, BucketOf
<1> QED  BY <1>1, <1>2, <1>3, <1>4 DEF IInv

\* The tuples that are found, in the words of the lemmas about splits.
LEMMA StoredIsFound ==
  Stored = {t \in Tuples : Finds(global_depth, dir, pages, t)}
BY DEF Stored, BucketOf, Finds

LEMMA StoredIsFoundNext ==
  Stored' = {t \in Tuples : Finds(global_depth', dir', pages', t)}
BY DEF Stored, BucketOf, Finds

\* The constructor leaves an exact directory and an empty set.
LEMMA InitInv ==
  ASSUME Init
  PROVE  IInv /\ Stored = {}
<1> DEFINE G == DEFAULT_GLOBAL_DEPTH
<1>1. G \in 0 .. NBits /\ G \in Nat
  BY HashAssumption
<1>2. Suffixes(G) \subseteq Numbers
  BY <1>1, SuffixesAreNumbers
<1>3. \A b \in Numbers : pages[b] \in Bucket /\ file[b] \in Bucket /\ pages[b].tuples = {}
  BY HashAssumption DEF Init, Bucket, ZeroPage
<1>4. \A s \in Suffixes(G) : dir[s] = s /\ pages[s].local_depth = G /\ Suffix(s, G) = s
  BY <1>1, <1>2, SuffixOfShort DEF Init, ZeroPage
<1>5. global_depth = G /\ dir \in [Suffixes(G) -> Numbers]
  BY <1>2 DEF Init
<1>6. TypeOK
  <2>1. pages \in [Numbers -> Bucket] /\ file \in [Numbers -> Bucket]
    BY <1>3 DEF Init
  <2> QED  BY <1>1, <1>2, <1>5, <2>1 DEF TypeOK, Init
<1>7. Exact(global_depth, dir, pages)
  BY <1>1, <1>4, <1>5 DEF Exact
<1>8. InPlace(global_depth, dir, pages)
  BY <1>2, <1>3, <1>4, <1>5 DEF InPlace
<1>9. CleanPagesAreOnFile
  BY DEF Init, CleanPagesAreOnFile
<1>10. Stored = {}
  <2>1. \A t \in Tuples : Suffix(Hash[t], G) \in Suffixes(G)
    BY <1>1, SuffixType, HashAssumption
  <2>2. \A t \in Tuples : pages[dir[Suffix(Hash[t], G)]].tuples = {}
    BY <1>3, <1>5, <2>1
  <2> QED  BY <1>5, <2>2 DEF Stored, BucketOf
<1> QED  BY <1>6, <1>7, <1>8, <1>9, <1>10 DEF IInv

\* A tuple is put into the bucket that its hash leads to, where it is found.
LEMMA InsertStep ==
  ASSUME IInv, Insert
  PROVE  IInv' /\ Stored' = Stored \cup {tuple}
<1>1. PICK h \in Numbers, u \in Tuples, s0 \in Suffixes(global_depth) :
        h = Here /\ u = tuple /\ s0 = Suffix(Hash[tuple], global_depth) /\ dir[s0] = h
  BY HereIsReached DEF Insert
<1>2. pages[h] \in Bucket /\ pages \in [Numbers -> Bucket]
  BY DEF IInv, TypeOK
<1>3. PICK q \in Bucket : q = [pages[h] EXCEPT !.tuples = @ \cup {u}]
  BY <1>2 DEF Bucket
<1>4. pages' = [pages EXCEPT ![h] = q]
  BY <1>1, <1>3 DEF Insert
<1>5. /\ q.local_depth = pages[h].local_depth
      /\ \A t : t \in q.tuples <=> t \in pages[h].tuples \/ t = u
  BY <1>2, <1>3 DEF Bucket
<1>6. /\ UNCHANGED <<global_depth, dir, file>> /\ dirty' = dirty \cup {h}
      /\ tuple' = NoTuple
  BY <1>1 DEF Insert
<1>7. /\ pages' \in [Numbers -> Bucket] /\ pages'[h] = q
      /\ \A x \in Numbers : x # h => pages'[x] = pages[x]
      /\ \A x \in Numbers : pages'[x].local_depth = pages[x].local_depth
  BY <1>2, <1>4, <1>5
<1>8. dir \in [Suffixes(global_depth) -> Numbers]
  BY DEF IInv, TypeOK
<1>9. TypeOK'
  BY <1>6, <1>7, <1>8 DEF IInv, TypeOK
<1>10. Exact(global_depth', dir', pages')
  BY <1>6, <1>7, <1>8 DEF IInv, Exact
<1>11. InPlace(global_depth', dir', pages')
  <2>1. SUFFICES ASSUME NEW s \in Suffixes(global_depth), NEW t \in pages'[dir[s]].tuples
                 PROVE Suffix(Hash[t], pages'[dir[s]].local_depth) = dir[s]
    BY <1>6 DEF InPlace
  <2>2. CASE t \in pages[dir[s]].tuples
    BY <1>7, <1>8, <2>2 DEF IInv, InPlace
  <2>3. CASE t \notin pages[dir[s]].tuples
    <3>1. dir[s] = h /\ t = u
      BY <1>5, <1>7, <1>8, <2>1, <2>3
    <3>2. Suffix(Hash[u], pages[h].local_depth) = h
      BY <1>1, HereIsReached DEF Insert
    <3> QED  BY <1>7, <3>1, <3>2
  <2> QED  BY <2>2, <2>3
<1>12. CleanPagesAreOnFile'
  BY <1>6, <1>7 DEF IInv, CleanPagesAreOnFile
<1>13. Stored' = Stored \cup {tuple}
  <2>1. \A t \in Tuples : t \in pages'[dir[Suffix(Hash[t], global_depth)]].tuples
                     <=> t \in pages[dir[Suffix(Hash[t], global_depth)]].tuples \/ t = u
    <3>1. SUFFICES ASSUME NEW t \in Tuples
                   PROVE t \in pages'[dir[Suffix(Hash[t], global_depth)]].tuples
                     <=> t \in pages[dir[Suffix(Hash[t], global_depth)]].tuples \/ t = u
      OBVIOUS
    <3>2. PICK s \in Suffixes(global_depth) : s = Suffix(Hash[t], global_depth)
      BY SuffixType, HashAssumption DEF IInv, TypeOK
    <3>3. t = u => dir[s] = h
      BY <1>1, <3>2
    <3> QED  BY <1>5, <1>7, <1>8, <3>2, <3>3
  <2> QED  BY <1>1, <1>6, <2>1 DEF Stored, BucketOf
<1> QED  BY <1>9, <1>10, <1>11, <1>12, <1>13 DEF IInv

\* A split of a bucket.
LEMMA SplitBucketStep ==
  ASSUME IInv, SplitBucket
  PROVE  IInv' /\ Stored' = Stored
<1>1. NeedSplit /\ ~Idle
  BY DEF SplitBucket, NeedSplit
<1>2. PICK h \in Numbers, s0 \in Suffixes(global_depth) : h = Here /\ dir[s0] = h
  BY <1>1, HereIsReached
<1>3. PICK d \in Nat : d = pages[h].local_depth
  <2>1. pages[Here].local_depth \in 0 .. NBits
    BY <1>1, HereIsReached
  <2> QED  BY <1>2, <2>1, HashAssumption
<1>4. PICK g \in 0 .. NBits : g = global_depth /\ g \in Nat
  BY HashAssumption DEF IInv, TypeOK
<1>5. PICK new : new = h \cup {d}
  OBVIOUS
<1>6. /\ d < g /\ pages' = Split(h, new, d + 1) /\ dirty' = dirty \cup {h, new}
      /\ dir' = Redirected(new, d + 1) /\ UNCHANGED <<global_depth, file, tuple>>
  BY <1>2, <1>3, <1>4, <1>5 DEF SplitBucket
<1>7. dir \in [Suffixes(g) -> Numbers] /\ pages \in [Numbers -> Bucket]
  BY <1>4 DEF IInv, TypeOK
<1>8. d < NBits /\ d + 1 \in 0 .. NBits
  BY <1>4, <1>6, HashAssumption
<1>9. h \in Suffixes(d)
  <2>1. Suffix(Hash[tuple], d) = h /\ tuple \in Tuples
    BY <1>1, <1>2, <1>3, HereIsReached
  <2>2. d \in 0 .. NBits
    BY <1>8, HashAssumption
  <2> QED  BY <2>1, <2>2, SuffixType, HashAssumption
<1>10. new \in Numbers /\ new # h
  <2>1. h \cup {d} \in Suffixes(d + 1) /\ h \cup {d} # h
    BY <1>9, NewNumber
  <2>2. Suffixes(d + 1) \subseteq Numbers
    BY <1>8, SuffixesAreNumbers
  <2> QED  BY <1>5, <2>1, <2>2
<1>11. PICK pg2 : pg2 = pages'
  OBVIOUS
<1>12. PICK dr2 : dr2 = dir'
  OBVIOUS
<1>13. pg2 \in [Numbers -> Bucket] /\ SplitOf(pages, pg2, h, d, new)
  BY <1>3, <1>6, <1>7, <1>8, <1>10, <1>11, SplitPages
<1>14. dr2 \in [Suffixes(g) -> Numbers] /\ RedirectionOf(g, dir, dr2, d, new)
  BY <1>6, <1>7, <1>10, <1>12 DEF Redirected, RedirectionOf
<1>15. Exact(g, dir, pages) /\ InPlace(g, dir, pages)
  BY <1>4 DEF IInv
<1>16. /\ Exact(g, dr2, pg2) /\ InPlace(g, dr2, pg2)
       /\ \A t \in Tuples : Finds(g, dr2, pg2, t) <=> Finds(g, dir, pages, t)
  <2>1. /\ s0 \in Suffixes(g) /\ h = dir[s0] /\ d = pages[h].local_depth /\ d < g
        /\ g \in 0 .. NBits /\ h \in Numbers /\ d \in Nat
    BY <1>2, <1>3, <1>4, <1>6
  <2> QED  BY <1>5, <1>7, <1>10, <1>13, <1>14, <1>15, <2>1, BucketSplit
<1>17. TypeOK'
  BY <1>4, <1>6, <1>10, <1>11, <1>12, <1>13, <1>14 DEF IInv, TypeOK
<1>18. Exact(global_depth', dir', pages') /\ InPlace(global_depth', dir', pages')
  BY <1>4, <1>6, <1>11, <1>12, <1>16
<1>19. CleanPagesAreOnFile'
  BY <1>6, <1>11, <1>13 DEF IInv, CleanPagesAreOnFile, SplitOf
<1>20. Stored' = Stored
  <2>1. Stored = {t \in Tuples : Finds(g, dir, pages, t)}
    BY <1>4, StoredIsFound
  <2>2. Stored' = {t \in Tuples : Finds(g, dr2, pg2, t)}
    BY <1>4, <1>6, <1>11, <1>12, StoredIsFoundNext
  <2> QED  BY <1>16, <2>1, <2>2
<1> QED  BY <1>17, <1>18, <1>19, <1>20 DEF IInv

\* A split of the directory: it is doubled, and then its bucket is split.
LEMMA SplitDirectoryStep ==
  ASSUME IInv, SplitDirectory
  PROVE  IInv' /\ Stored' = Stored
<1>1. NeedSplit /\ ~Idle
  BY DEF SplitDirectory, NeedSplit
<1>2. PICK h \in Numbers, z \in Suffixes(global_depth) :
        h = Here /\ dir[z] = h /\ z = Suffix(Hash[tuple], global_depth)
  BY <1>1, HereIsReached
<1>3. PICK g \in 0 .. NBits : g = global_depth /\ g \in Nat
  BY HashAssumption DEF IInv, TypeOK
\* What is_in_or_insert asserts.
<1>4. pages[h].local_depth = g /\ h = z
  <2>1. pages[Here].local_depth >= global_depth /\ pages[Here].local_depth <= global_depth
        /\ pages[Here].local_depth \in 0 .. NBits
    BY <1>1, HereIsReached DEF SplitDirectory
  <2>2. pages[h].local_depth = g
    BY <1>2, <1>3, <2>1, HashAssumption
  <2>3. Suffix(Hash[tuple], pages[h].local_depth) = h
    BY <1>1, <1>2, HereIsReached
  <2> QED  BY <1>2, <1>3, <2>2, <2>3
<1>5. PICK new : new = h \cup {g}
  OBVIOUS
<1>6. /\ pages' = Split(h, new, g + 1) /\ dirty' = dirty \cup {h, new}
      /\ dir' = [Duplicated EXCEPT ![new] = new] /\ UNCHANGED <<file, tuple>>
      /\ global_depth' = g + 1
  BY <1>2, <1>3, <1>5 DEF SplitDirectory
<1>7. dir \in [Suffixes(g) -> Numbers] /\ pages \in [Numbers -> Bucket]
  BY <1>3 DEF IInv, TypeOK
<1>8. g < NBits /\ g + 1 \in 0 .. NBits /\ g + 1 <= NBits
  <2>1. pages[Here].local_depth < NBits
    BY <1>1, RoomToSplit
  <2> QED  BY <1>2, <1>3, <1>4, <2>1, HashAssumption
<1>9. h \in Suffixes(g)
  BY <1>2, <1>3, <1>4
<1>10. new \in Numbers /\ new # h /\ new \in Suffixes(g + 1) /\ h \in Suffixes(g + 1)
       /\ Suffix(h, g) = h
  <2>1. /\ h \cup {g} \in Suffixes(g + 1) /\ h \cup {g} # h /\ h \in Suffixes(g + 1)
    BY <1>3, <1>9, NewNumber
  <2>2. Suffixes(g + 1) \subseteq Numbers
    BY <1>8, SuffixesAreNumbers
  <2>3. Suffix(h, g) = h
    BY <1>3, <1>9, SuffixOfShort
  <2> QED  BY <1>5, <2>1, <2>2, <2>3
<1>11. PICK dd : dd = Duplicated
  OBVIOUS
<1>12. dd \in [Suffixes(g + 1) -> Numbers]
       /\ \A s \in Suffixes(g + 1) : dd[s] = dir[Suffix(s, g)]
  <2>1. \A s \in Suffixes(g + 1) : Suffix(s, g) \in Suffixes(g)
    <3>1. \A s \in Suffixes(g + 1) : s \in Numbers
      BY <1>8, SuffixesAreNumbers
    <3> QED  BY <1>3, <3>1, SuffixType
  <2>2. \A s \in Suffixes(g + 1) : dir[Suffix(s, g)] \in Numbers
    BY <1>7, <2>1
  <2> QED  BY <1>3, <1>11, <2>2 DEF Duplicated
<1>13. Exact(g, dir, pages) /\ InPlace(g, dir, pages)
  BY <1>3 DEF IInv
<1>14. /\ Exact(g + 1, dd, pages) /\ InPlace(g + 1, dd, pages)
       /\ \A t \in Tuples : Finds(g + 1, dd, pages, t) <=> Finds(g, dir, pages, t)
  BY <1>3, <1>7, <1>8, <1>12, <1>13, Doubling
<1>15. PICK pg2 : pg2 = pages'
  OBVIOUS
<1>16. PICK dr2 : dr2 = dir'
  OBVIOUS
<1>17. pg2 \in [Numbers -> Bucket] /\ SplitOf(pages, pg2, h, g, new)
  BY <1>2, <1>3, <1>4, <1>6, <1>7, <1>8, <1>10, <1>15, SplitPages
<1>18. dr2 \in [Suffixes(g + 1) -> Numbers] /\ RedirectionOf(g + 1, dd, dr2, g, new)
  <2>1. dr2 = [dd EXCEPT ![new] = new]
    BY <1>6, <1>11, <1>16
  <2>2. \A s \in Suffixes(g + 1) : Suffix(s, g + 1) = s
    BY <1>3, <1>8, SuffixOfShort
  <2>3. \A s \in Suffixes(g + 1) : dr2[s] = IF s = new THEN new ELSE dd[s]
    BY <1>10, <1>12, <2>1
  <2> QED  BY <1>10, <1>12, <2>1, <2>2, <2>3 DEF RedirectionOf
<1>19. /\ Exact(g + 1, dr2, pg2) /\ InPlace(g + 1, dr2, pg2)
       /\ \A t \in Tuples : Finds(g + 1, dr2, pg2, t) <=> Finds(g + 1, dd, pages, t)
  <2>1. PICK k \in 0 .. NBits : k = g + 1
    BY <1>8
  <2>2. h \in Suffixes(k) /\ h = dd[h] /\ g = pages[h].local_depth /\ g < k
        /\ k \in 0 .. NBits /\ h \in Numbers /\ g \in Nat
    BY <1>2, <1>3, <1>4, <1>10, <1>12, <2>1
  <2>3. /\ dd \in [Suffixes(k) -> Numbers] /\ Exact(k, dd, pages) /\ InPlace(k, dd, pages)
        /\ dr2 \in [Suffixes(k) -> Numbers] /\ RedirectionOf(k, dd, dr2, g, new)
    BY <1>12, <1>14, <1>18, <2>1
  <2>4. /\ Exact(k, dr2, pg2) /\ InPlace(k, dr2, pg2)
        /\ \A t \in Tuples : Finds(k, dr2, pg2, t) <=> Finds(k, dd, pages, t)
    BY <1>5, <1>7, <1>10, <1>17, <2>2, <2>3, BucketSplit
  <2> QED  BY <2>1, <2>4
<1>20. TypeOK'
  BY <1>6, <1>8, <1>10, <1>15, <1>16, <1>17, <1>18 DEF IInv, TypeOK
<1>21. Exact(global_depth', dir', pages') /\ InPlace(global_depth', dir', pages')
  BY <1>6, <1>15, <1>16, <1>19
<1>22. CleanPagesAreOnFile'
  BY <1>6, <1>15, <1>17 DEF IInv, CleanPagesAreOnFile, SplitOf
<1>23. Stored' = Stored
  <2>1. Stored = {t \in Tuples : Finds(g, dir, pages, t)}
    BY <1>3, StoredIsFound
  <2>2. Stored' = {t \in Tuples : Finds(g + 1, dr2, pg2, t)}
    BY <1>6, <1>15, <1>16, StoredIsFoundNext
  <2> QED  BY <1>14, <1>19, <2>1, <2>2
<1> QED  BY <1>20, <1>21, <1>22, <1>23 DEF IInv

\* reset empties every bucket that an entry leads to, and keeps their depths.
LEMMA ResetStep ==
  ASSUME IInv, Reset
  PROVE  IInv' /\ Stored' = {}
<1>1. /\ UNCHANGED <<global_depth, dir, file, tuple>> /\ dirty' = dirty \cup InUse
      /\ pages' = [b \in Numbers |-> IF b \in InUse THEN [pages[b] EXCEPT !.tuples = {}]
                                     ELSE pages[b]]
  BY DEF Reset, MarkedByReset
<1>2. /\ global_depth \in 0 .. NBits /\ dir \in [Suffixes(global_depth) -> Numbers]
      /\ pages \in [Numbers -> Bucket]
  BY DEF IInv, TypeOK
<1>3. \A s \in Suffixes(global_depth) : dir[s] \in InUse /\ dir[s] \in Numbers
  BY <1>2 DEF InUse
<1>4. \A b \in Numbers : /\ pages'[b] \in Bucket
                         /\ pages'[b].local_depth = pages[b].local_depth
                         /\ b \in InUse => pages'[b].tuples = {}
                         /\ b \notin InUse => pages'[b] = pages[b]
  BY <1>1, <1>2 DEF Bucket
<1>5. TypeOK'
  <2>1. pages' \in [Numbers -> Bucket]
    BY <1>1, <1>4
  <2>2. InUse \subseteq Numbers
    BY <1>2 DEF InUse
  <2> QED  BY <1>1, <2>1, <2>2 DEF IInv, TypeOK
<1>6. Exact(global_depth', dir', pages')
  BY <1>1, <1>3, <1>4 DEF IInv, Exact
<1>7. InPlace(global_depth', dir', pages')
  BY <1>1, <1>3, <1>4 DEF InPlace
<1>8. CleanPagesAreOnFile'
  BY <1>1, <1>4 DEF IInv, CleanPagesAreOnFile
<1>9. Stored' = {}
  <2>1. \A t \in Tuples : Suffix(Hash[t], global_depth) \in Suffixes(global_depth)
    BY <1>2, SuffixType, HashAssumption
  <2>2. \A t \in Tuples : pages'[dir[Suffix(Hash[t], global_depth)]].tuples = {}
    BY <1>3, <1>4, <2>1
  <2> QED  BY <1>1, <2>2 DEF Stored, BucketOf
<1> QED  BY <1>5, <1>6, <1>7, <1>8, <1>9 DEF IInv

\* A page that leaves the pool is found again as it was.
LEMMA EvictStep ==
  ASSUME IInv, NEW b \in Numbers, Evict(b)
  PROVE  IInv' /\ Stored' = Stored
<1>1. pages \in [Numbers -> Bucket] /\ file \in [Numbers -> Bucket]
  BY DEF IInv, TypeOK
<1>2. pages' = pages
  <2>1. CASE b \in dirty
    BY <2>1 DEF Evict
  <2>2. CASE b \notin dirty
    <3>1. file[b] = pages[b] /\ pages' = [pages EXCEPT ![b] = file[b]]
      BY <2>2 DEF Evict, IInv, CleanPagesAreOnFile
    <3> QED  BY <1>1, <3>1
  <2> QED  BY <2>1, <2>2
<1>3. /\ file' \in [Numbers -> Bucket] /\ dirty' = dirty \ {b}
      /\ \A x \in Numbers : x # b => file'[x] = file[x]
      /\ file'[b] = pages[b]
  <2>1. CASE b \in dirty
    BY <1>1, <2>1 DEF Evict
  <2>2. CASE b \notin dirty
    BY <1>1, <2>2 DEF Evict, IInv, CleanPagesAreOnFile
  <2> QED  BY <2>1, <2>2
<1>4. UNCHANGED <<global_depth, dir, tuple>>
  BY DEF Evict
<1>5. TypeOK'
  BY <1>2, <1>3, <1>4 DEF IInv, TypeOK
<1>6. Exact(global_depth', dir', pages') /\ InPlace(global_depth', dir', pages')
  BY <1>2, <1>4 DEF IInv
<1>7. CleanPagesAreOnFile'
  BY <1>2, <1>3 DEF IInv, CleanPagesAreOnFile
<1>8. Stored' = Stored
  BY <1>2, <1>4 DEF Stored, BucketOf
<1> QED  BY <1>5, <1>6, <1>7, <1>8 DEF IInv

-----------------------------------------------------------------------------
(* Theorems.                                                               *)

\* Every step keeps the invariant and is a step of the set, or none.
LEMMA Step ==
  ASSUME IInv, [Next]_vars
  PROVE  IInv' /\ [Abstract!Next]_(Abstract!vars)
<1> USE DEF Abstract!Next, Abstract!vars
<1>1. CASE UNCHANGED vars
  BY <1>1, KeptInv DEF vars, pageVars, Kept, IInv, TypeOK
<1>2. ASSUME NEW t \in Tuples, IsIn(t) PROVE IInv' /\ Abstract!Next
  <2>1. Kept /\ tuple' = tuple /\ tuple = NoTuple
    BY <1>2 DEF IsIn, Idle, Kept, pageVars
  <2>2. IInv' /\ Stored' = Stored
    BY <2>1, KeptInv
  <2>3. answer' = (t \in Stored)
    BY <1>2 DEF IsIn, Stored
  <2> QED  BY <2>1, <2>2, <2>3 DEF Abstract!IsIn
<1>3. ASSUME NEW t \in Tuples, IsInOrInsert(t) PROVE IInv' /\ Abstract!Next
  <2>1. Kept /\ tuple' = t /\ tuple = NoTuple /\ answer' = NoAnswer
    BY <1>3 DEF IsInOrInsert, Idle, Kept, pageVars
  <2>2. IInv' /\ Stored' = Stored
    BY <2>1, KeptInv
  <2> QED  BY <2>1, <2>2 DEF Abstract!Call
<1>4. CASE Found
  <2>1. Kept /\ tuple' = NoTuple /\ tuple # NoTuple /\ answer' = TRUE
    BY <1>4 DEF Found, Idle, Kept, pageVars
  <2>2. IInv' /\ Stored' = Stored
    BY <2>1, KeptInv
  <2>3. tuple \in Stored
    <3>1. tuple \in Tuples
      BY <2>1 DEF IInv, TypeOK
    <3> QED  BY <1>4, <3>1 DEF Found, IsHere, Here, Stored
  <2>4. answer' = (tuple \in Stored) /\ Stored' = Stored \cup {tuple}
    BY <2>1, <2>2, <2>3
  <2> QED  BY <2>1, <2>2, <2>4 DEF Abstract!Return
<1>5. CASE Insert
  <2>1. tuple' = NoTuple /\ tuple # NoTuple /\ answer' = FALSE
    BY <1>5 DEF Insert, Idle
  <2>2. IInv' /\ Stored' = Stored \cup {tuple}
    BY <1>5, InsertStep
  <2>3. tuple \notin Stored
    BY <1>5 DEF Insert, IsHere, Here, Stored
  <2>4. (tuple \in Stored) = FALSE
    BY <2>3
  <2>5. answer' = (tuple \in Stored)
    BY <2>1, <2>4
  <2> QED  BY <2>1, <2>2, <2>5 DEF Abstract!Return
<1>6. CASE SplitBucket
  BY <1>6, SplitBucketStep DEF SplitBucket
<1>7. CASE SplitDirectory
  BY <1>7, SplitDirectoryStep DEF SplitDirectory
<1>8. CASE Reset
  <2>1. tuple = NoTuple /\ tuple' = tuple /\ answer' = NoAnswer
    BY <1>8 DEF Reset, Idle
  <2> QED  BY <1>8, <2>1, ResetStep DEF Abstract!Reset
<1>9. ASSUME NEW b \in Numbers, Evict(b)
      PROVE IInv' /\ UNCHANGED Abstract!vars
  BY <1>9, EvictStep DEF Evict
<1> QED  BY <1>1, <1>2, <1>3, <1>4, <1>5, <1>6, <1>7, <1>8, <1>9 DEF Next, Turn

LEMMA Invariance == Spec => []IInv
<1>1. Init => IInv
  BY InitInv
<1>2. IInv /\ [Next]_vars => IInv'
  BY Step
<1> QED  BY <1>1, <1>2, PTL DEF Spec

\* Depths never pass the length of a hash and no number leaves its range,
\* whatever is inserted (the supposition of redistribute is all it takes).
THEOREM TypeCorrect == Spec => []TypeOK
<1>1. IInv => TypeOK
  BY DEF IInv
<1> QED  BY <1>1, Invariance, PTL

\* The directory and the depths in the buckets tell the same tree, and the two
\* assertions about them in is_in_or_insert hold.
THEOREM DirectoryExact == Spec => []DirectoryIsExact
<1>1. IInv => DirectoryIsExact
  <2>1. SUFFICES ASSUME IInv PROVE DirectoryIsExact
    OBVIOUS
  <2>2. DOMAIN dir = Suffixes(global_depth)
    BY <2>1 DEF IInv, TypeOK
  <2> QED  BY <2>1, <2>2 DEF IInv, Exact, DirectoryIsExact
<1> QED  BY <1>1, Invariance, PTL

\* The hash is a set of tuples: no split, doubling or eviction shows, and
\* is_in_or_insert finds a tuple exactly if it was inserted since the last reset.
THEOREM Implements == Spec => ImplementsDistinctSet
<1>1. Init => Abstract!Init
  BY InitInv DEF Init, Abstract!Init
<1>2. IInv /\ [Next]_vars => [Abstract!Next]_(Abstract!vars)
  BY Step
<1> QED  BY <1>1, <1>2, Invariance, PTL DEF Spec, ImplementsDistinctSet, Abstract!Spec

=============================================================================
