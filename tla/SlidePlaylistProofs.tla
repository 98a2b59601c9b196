------------------------- MODULE SlidePlaylistProofs -------------------------
(***************************************************************************)
(* Proofs about SlidePlaylist, for every set of images and every number of *)
(* controls and scans.                                                     *)
(*                                                                         *)
(* The first part is about the operators: InOrder sorts, SubjectsOf is the *)
(* rotation its images make up, in order.  The inductive invariant then    *)
(* says that the place kept is one of the playlist's, and that of a pass   *)
(* nobody jumped in every image that stayed has been shown or is ahead.    *)
(* A rescan is the step that could break the second: in name order what is *)
(* ahead is what the image on show precedes, whatever the rotation is.     *)
(***************************************************************************)
EXTENDS SlidePlaylist, FiniteSetTheorems, TLAPS

\* Of a finite set of naturals, each k up to its size has one element with k - 1
\* smaller ones: the sort lists every element once, in order.
LEMMA InOrderSorts ==
    ASSUME NEW S, S \subseteq Nat, IsFiniteSet(S)
    PROVE  LET s == InOrder(S)
           IN /\ Cardinality(S) \in Nat /\ s \in [1..Cardinality(S) -> S]
              /\ \A x \in S : \E k \in 1..Cardinality(S) : s[k] = x
              /\ \A i, j \in 1..Cardinality(S) : i < j => s[i] < s[j]
<1> DEFINE n == Cardinality(S)
           rank == [x \in S |-> Cardinality({y \in S : y < x})]
<1>1. n \in Nat
  BY FS_CardinalityType
<1>2. ASSUME NEW x \in S
      PROVE  rank[x] \in 0..(n - 1)
  <2> DEFINE below == {y \in S : y < x}
  <2>1. below \subseteq S \ {x}
    OBVIOUS
  <2>2. IsFiniteSet(S \ {x}) /\ Cardinality(S \ {x}) = n - 1
    BY FS_RemoveElement
  <2> HIDE DEF below
  <2>3. IsFiniteSet(below) /\ Cardinality(below) <= Cardinality(S \ {x})
    BY <2>1, <2>2, FS_Subset
  <2>4. Cardinality(below) \in Nat
    BY <2>3, FS_CardinalityType
  <2>5. Cardinality(below) <= n - 1
    BY <2>2, <2>3
  <2>6. rank[x] = Cardinality(below)
    BY DEF below
  <2> HIDE DEF rank, n
  <2> QED
    BY <1>1, <2>4, <2>5, <2>6
<1>3. ASSUME NEW x \in S, NEW y \in S, x < y
      PROVE  rank[x] < rank[y]
  <2> DEFINE a == {z \in S : z < x}
             b == {z \in S : z < y}
  <2>1. IsFiniteSet(b)
    BY FS_Subset
  <2>2. a \subseteq b /\ x \in b /\ x \notin a
    <3>1. x \in Nat /\ y \in Nat /\ \A z \in S : z \in Nat
      OBVIOUS
    <3>2. \A z \in S : z < x => z < y
      BY <1>3, <3>1
    <3>3. ~(x < x)
      BY <3>1
    <3>4. a \subseteq b
      BY <3>2
    <3> QED
      BY <1>3, <3>3, <3>4
  <2>3. rank[x] = Cardinality(a) /\ rank[y] = Cardinality(b)
    OBVIOUS
  <2> HIDE DEF a, b, rank
  <2>4. /\ IsFiniteSet(a) /\ Cardinality(a) <= Cardinality(b)
        /\ Cardinality(a) = Cardinality(b) => a = b
    BY <2>1, <2>2, FS_Subset
  <2>5. Cardinality(a) \in Nat /\ Cardinality(b) \in Nat
    BY <2>1, <2>4, FS_CardinalityType
  <2> QED
    BY <2>2, <2>3, <2>4, <2>5
<1>4. \A x, y \in S : rank[x] < rank[y] <=> x < y
  BY <1>2, <1>3
<1>5. \A x, y \in S : rank[x] = rank[y] => x = y
  BY <1>2, <1>3
<1>6. \A k \in 0..(n - 1) : \E x \in S : rank[x] = k
  <2> DEFINE T == 0..(n - 1)
  <2>1. IsFiniteSet(T) /\ Cardinality(T) = n
    <3>1. /\ 0 \in Int /\ n - 1 \in Int
          /\ (IF 0 > n - 1 THEN 0 ELSE (n - 1) - 0 + 1) = n
      BY <1>1
    <3> HIDE DEF n
    <3> QED
      BY <3>1, FS_Interval
  <2>2. rank \in [S -> T]
    BY <1>2
  <2> HIDE DEF rank, T
  <2>3. rank \in Injection(S, T)
    BY <1>5, <2>2 DEF Injection, IsInjective
  <2>4. rank \in Surjection(S, T)
    BY <2>1, <2>3, FS_Injection DEF n
  <2> QED
    BY <2>4 DEF Surjection, T
<1> DEFINE s == InOrder(S)
<1> DEFINE below(x) == Cardinality({y \in S : y < x})
           F(k) == CHOOSE x \in S : below(x) = k - 1
<1>7. s = [k \in 1..n |-> F(k)]
  BY Zenon DEF InOrder
<1>8. \A x \in S : rank[x] = below(x)
  OBVIOUS
<1> HIDE DEF rank, s, n, below
<1>9. \A k \in 1..n : s[k] \in S /\ rank[s[k]] = k - 1
  <2> SUFFICES ASSUME NEW k \in 1..n PROVE s[k] \in S /\ rank[s[k]] = k - 1
    OBVIOUS
  <2>1. \E x \in S : below(x) = k - 1
    BY <1>1, <1>6, <1>8
  <2>2. F(k) \in S /\ below(F(k)) = k - 1
    BY <2>1
  <2> HIDE DEF F
  <2>3. s[k] = F(k)
    BY <1>7
  <2> QED
    BY <1>8, <2>2, <2>3
<1>10. s \in [1..n -> S]
  <2> HIDE DEF F
  <2> QED
    BY <1>7, <1>9
<1>11. \A x \in S : \E k \in 1..n : s[k] = x
  <2> SUFFICES ASSUME NEW x \in S PROVE \E k \in 1..n : s[k] = x
    OBVIOUS
  <2>1. rank[x] + 1 \in 1..n /\ (rank[x] + 1) - 1 = rank[x]
    BY <1>1, <1>2
  <2> QED
    BY <1>5, <1>9, <2>1
<1>12. \A i, j \in 1..n : i < j => s[i] < s[j]
  <2> SUFFICES ASSUME NEW i \in 1..n, NEW j \in 1..n, i < j
               PROVE  s[i] < s[j]
    OBVIOUS
  <2>1. s[i] \in S /\ s[j] \in S /\ rank[s[i]] = i - 1 /\ rank[s[j]] = j - 1
    BY <1>9
  <2>2. rank[s[i]] < rank[s[j]]
    BY <1>1, <2>1
  <2> QED
    BY <1>4, <2>1, <2>2
<1> QED
  BY <1>1, <1>10, <1>11, <1>12 DEF n, s

-----------------------------------------------------------------------------
\* What SubjectsWithin returns: subjects in order, each with its images in order.
Sorted(subs) ==
    /\ Len(subs) \in Nat /\ DOMAIN subs = 1..Len(subs)
    /\ \A k \in DOMAIN subs :
          /\ Len(subs[k]) \in Nat \ {0} /\ subs[k] \in [1..Len(subs[k]) -> Image]
          /\ \A j \in DOMAIN subs[k] : subs[k][j][1] = subs[k][1][1]
          /\ \A i, j \in DOMAIN subs[k] : i < j => subs[k][i][2] < subs[k][j][2]
    /\ \A k, l \in DOMAIN subs : k < l => subs[k][1][1] < subs[l][1][1]

\* A scan's rotation is sorted and holds the images scanned, each once.
LEMMA SubjectsSorted ==
    ASSUME NEW images, images \subseteq Image
    PROVE  /\ Sorted(SubjectsOf(images)) /\ Rotation(SubjectsOf(images)) = images
           /\ SubjectsOf(images) \in Seq(Seq(Image))
<1> DEFINE firsts == {im[1] : im \in images}
           names == InOrder(firsts)
           seconds(k) == {im[2] : im \in {i \in images : i[1] = names[k]}}
           nums(k) == InOrder(seconds(k))
           subs == SubjectsOf(images)
           m == Cardinality(firsts)
<1>1. /\ IsFiniteSet(images)
      /\ \A im \in images : im = <<im[1], im[2]>> /\ im[1] \in Nat /\ im[2] \in Nat
  BY PlaylistAssumption, FS_Subset DEF PlaylistAssumption
<1>2. firsts \subseteq Nat /\ IsFiniteSet(firsts)
  <2>1. firsts \subseteq Nat
    BY <1>1
  <2>2. [im \in images |-> im[1]] \in Surjection(images, firsts)
    BY DEF Surjection
  <2> HIDE DEF firsts
  <2> QED
    BY <1>1, <2>1, <2>2, FS_Surjection
<1>3. /\ m \in Nat /\ names \in [1..m -> firsts]
      /\ \A x \in firsts : \E k \in 1..m : names[k] = x
      /\ \A i, j \in 1..m : i < j => names[i] < names[j]
  <2> HIDE DEF firsts
  <2> QED
    BY <1>2, InOrderSorts
<1>4. ASSUME NEW k \in 1..m
      PROVE  LET n == Cardinality(seconds(k))
             IN /\ n \in Nat \ {0} /\ nums(k) \in [1..n -> seconds(k)]
                /\ \A x \in seconds(k) : \E j \in 1..n : nums(k)[j] = x
                /\ \A i, j \in 1..n : i < j => nums(k)[i] < nums(k)[j]
  <2> DEFINE those == {i \in images : i[1] = names[k]}
             S == seconds(k)
  <2>1. S \subseteq Nat
    BY <1>1
  <2>2. IsFiniteSet(those)
    BY <1>1, FS_Subset
  <2>3. [im \in those |-> im[2]] \in Surjection(those, S)
    BY DEF Surjection
  <2>4. S # {}
    <3>1. names[k] \in firsts
      BY <1>3
    <3> HIDE DEF names
    <3> QED
      BY <3>1
  <2> HIDE DEF those, S
  <2>5. IsFiniteSet(S)
    BY <2>2, <2>3, FS_Surjection
  <2>6. /\ Cardinality(S) \in Nat /\ InOrder(S) \in [1..Cardinality(S) -> S]
        /\ \A x \in S : \E j \in 1..Cardinality(S) : InOrder(S)[j] = x
        /\ \A i, j \in 1..Cardinality(S) : i < j => InOrder(S)[i] < InOrder(S)[j]
    BY <2>1, <2>5, InOrderSorts
  <2>7. Cardinality(S) # 0
    BY <2>4, <2>5, FS_EmptySet
  <2> QED
    BY <2>6, <2>7 DEF S
<1>5. subs = [k \in 1..m |-> [j \in DOMAIN nums(k) |-> <<names[k], nums(k)[j]>>]]
  <2>1. DOMAIN names = 1..m
    BY <1>3
  <2> QED
    BY <2>1 DEF SubjectsOf
<1> DEFINE size(k) == Cardinality(seconds(k))
<1>6. ASSUME NEW k \in 1..m
      PROVE  /\ size(k) \in Nat \ {0} /\ subs[k] = [j \in 1..size(k) |-> <<names[k], nums(k)[j]>>]
             /\ \A j \in 1..size(k) : nums(k)[j] \in Nat /\ <<names[k], nums(k)[j]>> \in images
             /\ \A im \in images : im[1] = names[k] => \E j \in 1..size(k) : nums(k)[j] = im[2]
             /\ \A i, j \in 1..size(k) : i < j => nums(k)[i] < nums(k)[j]
  <2>1. /\ size(k) \in Nat \ {0} /\ nums(k) \in [1..size(k) -> seconds(k)]
        /\ \A x \in seconds(k) : \E j \in 1..size(k) : nums(k)[j] = x
        /\ \A i, j \in 1..size(k) : i < j => nums(k)[i] < nums(k)[j]
    BY <1>4
  <2>2. subs[k] = [j \in 1..size(k) |-> <<names[k], nums(k)[j]>>]
    <3>1. DOMAIN nums(k) = 1..size(k)
      BY <2>1
    <3> HIDE DEF subs, nums, names, size
    <3> QED
      BY <1>5, <3>1
  <2>3. \A y \in seconds(k) : y \in Nat /\ <<names[k], y>> \in images
    <3> SUFFICES ASSUME NEW im \in images, im[1] = names[k]
                 PROVE  im[2] \in Nat /\ <<names[k], im[2]>> \in images
      OBVIOUS
    <3> HIDE DEF names
    <3> QED
      BY <1>1
  <2>4. \A im \in images : im[1] = names[k] => im[2] \in seconds(k)
    OBVIOUS
  <2> HIDE DEF nums, seconds, names, size
  <2>5. \A j \in 1..size(k) : nums(k)[j] \in seconds(k)
    BY <2>1
  <2> QED
    BY <2>1, <2>2, <2>3, <2>4, <2>5
<1>7. \A k \in 1..m : names[k] \in Nat
  BY <1>2, <1>3
<1>8. \A im \in images : \E k \in 1..m : names[k] = im[1]
  <2> SUFFICES ASSUME NEW im \in images
               PROVE  \E k \in 1..m : names[k] = im[1]
    OBVIOUS
  <2>1. im[1] \in firsts
    OBVIOUS
  <2> HIDE DEF firsts, names
  <2> QED
    BY <1>3, <2>1
<1> HIDE DEF subs, nums, seconds, names, size, m
<1>9. DOMAIN subs = 1..m /\ Len(subs) = m
  BY <1>3, <1>5
<1>10. ASSUME NEW k \in 1..m
       PROVE  /\ DOMAIN subs[k] = 1..size(k) /\ Len(subs[k]) = size(k)
              /\ \A j \in 1..size(k) : /\ subs[k][j] = <<names[k], nums(k)[j]>>
                                       /\ subs[k][j] \in images
                                       /\ subs[k][j][1] = names[k] /\ subs[k][j][2] = nums(k)[j]
  <2> DEFINE z == size(k)
             f == [j \in 1..z |-> <<names[k], nums(k)[j]>>]
  <2>1. z \in Nat \ {0} /\ subs[k] = f /\ \A j \in 1..z : <<names[k], nums(k)[j]>> \in images
    BY <1>6
  <2> HIDE DEF z
  <2>2. DOMAIN f = 1..z /\ Len(f) = z
    BY <2>1
  <2>3. \A j \in 1..z : f[j] = <<names[k], nums(k)[j]>> /\ f[j] \in images
    BY <2>1
  <2>4. \A j \in 1..z : f[j][1] = names[k] /\ f[j][2] = nums(k)[j]
    BY <2>3
  <2> HIDE DEF f
  <2> QED
    BY <2>1, <2>2, <2>3, <2>4 DEF z
<1>11. subs \in Seq(Seq(Image))
  <2>1. \A k \in 1..m : subs[k] \in Seq(Image)
    <3> TAKE k \in 1..m
    <3>1. subs[k] = [j \in 1..size(k) |-> <<names[k], nums(k)[j]>>] /\ size(k) \in Nat
      BY <1>6
    <3>2. \A j \in 1..size(k) : <<names[k], nums(k)[j]>> \in Image
      BY <1>6
    <3> QED
      BY <3>1, <3>2
  <2>2. subs = [k \in 1..m |-> subs[k]]
    BY <1>5
  <2> QED
    BY <1>3, <2>1, <2>2
<1>12. Sorted(subs)
  <2>1. ASSUME NEW k \in 1..m
        PROVE  /\ Len(subs[k]) \in Nat \ {0} /\ subs[k] \in [1..Len(subs[k]) -> Image]
               /\ \A j \in DOMAIN subs[k] : subs[k][j][1] = subs[k][1][1]
               /\ \A i, j \in DOMAIN subs[k] : i < j => subs[k][i][2] < subs[k][j][2]
               /\ subs[k][1][1] = names[k]
    <3> DEFINE z == size(k)
    <3>3. z \in Nat \ {0}
      BY <1>6
    <3> HIDE DEF z
    <3>1. 1 \in 1..z
      BY <3>3
    <3>2. subs[k] \in [1..z -> Image]
      BY <1>6, <1>10 DEF z
    <3>4. /\ DOMAIN subs[k] = 1..z /\ Len(subs[k]) = z
          /\ \A j \in 1..z : subs[k][j][1] = names[k] /\ subs[k][j][2] = nums(k)[j]
      BY <1>10 DEF z
    <3>5. \A i, j \in 1..z : i < j => nums(k)[i] < nums(k)[j]
      BY <1>6 DEF z
    <3> QED
      BY <3>1, <3>2, <3>3, <3>4, <3>5
  <2> QED
    BY <1>3, <1>9, <2>1 DEF Sorted
<1>13. Rotation(subs) = images
  <2>1. \A k \in 1..m : Range(subs[k]) \subseteq images
    BY <1>10 DEF Range
  <2>2. ASSUME NEW im \in images
        PROVE  \E k \in 1..m : im \in Range(subs[k])
    <3>1. PICK k \in 1..m : names[k] = im[1]
      BY <1>8
    <3>2. PICK j \in 1..size(k) : nums(k)[j] = im[2]
      BY <1>6, <3>1
    <3>3. subs[k][j] = im
      BY <1>1, <1>10, <3>1, <3>2
    <3> QED
      BY <1>10, <3>2, <3>3 DEF Range
  <2> QED
    BY <1>9, <2>1, <2>2 DEF Rotation
<1> QED
  BY <1>11, <1>12, <1>13 DEF subs

-----------------------------------------------------------------------------
\* A playlist lists each subject once.
LEMMA OrderIs ==
    ASSUME NEW n \in Nat, NEW order \in SetToSeqs(1..n)
    PROVE  /\ order \in [1..n -> 1..n] /\ Len(order) = n
           /\ \A k, l \in 1..n : order[k] = order[l] => k = l
           /\ \A k \in 1..n : \E p \in 1..n : order[p] = k
<1>1. IsFiniteSet(1..n) /\ Cardinality(1..n) = n
  BY FS_Interval
<1>2. order \in [1..n -> 1..n] /\ \A k, l \in 1..n : order[k] = order[l] => k = l
  BY <1>1 DEF SetToSeqs
<1>3. order \in Surjection(1..n, 1..n)
  <2>1. order \in Injection(1..n, 1..n)
    BY <1>2 DEF Injection, IsInjective
  <2> QED
    BY <1>1, <2>1, FS_Injection
<1>4. Len(order) = n
  BY <1>2
<1>5. \A k \in 1..n : \E p \in 1..n : order[p] = k
  BY <1>3 DEF Surjection
<1> QED
  BY <1>2, <1>4, <1>5

\* The playlist in name order is one.
LEMMA InNameOrder ==
    ASSUME NEW n \in Nat
    PROVE  [k \in 1..n |-> k] \in SetToSeqs(1..n)
<1>1. Cardinality(1..n) = n
  BY FS_Interval
<1> QED
  BY <1>1 DEF SetToSeqs

\* What Orders allows, by the setting of shuffle.
LEMMA OrdersAre ==
    ASSUME NEW n \in Nat, NEW order \in Orders(n)
    PROVE  order \in SetToSeqs(1..n) /\ (~shuffle' => order = [k \in 1..n |-> k])
BY InNameOrder DEF Orders

-----------------------------------------------------------------------------
\* The inductive invariant.

\* The playlist orders the subjects, and what is on show is at the place kept.
PlaceInv ==
    /\ playing \in BOOLEAN /\ shuffle \in BOOLEAN
    /\ Sorted(subjects) /\ subjects \in Seq(Seq(Image)) /\ Rotation(subjects) \subseteq Image
    /\ playlist \in SetToSeqs(1..Len(subjects))
    /\ ~shuffle => playlist = [k \in 1..Len(subjects) |-> k]
    /\ ~Empty => playPos \in DOMAIN playlist /\ index \in DOMAIN Entries
    /\ image = IF Empty THEN NoImage ELSE Entries[index]

\* The image has a place after the i-th image of the pos-th subject.
Ahead(im, subs, list, pos, i) ==
    \E p \in DOMAIN list : \E j \in DOMAIN subs[list[p]] :
        subs[list[p]][j] = im /\ (p > pos \/ (p = pos /\ j > i))

\* What stayed in the rotation since the pass began has been on show or is yet to come.
PassInv ==
    pass.whole => \A im \in pass.stayed :
                     im \in pass.seen \/ Ahead(im, subjects, playlist, playPos, index)

IInv == PlaceInv /\ PassInv

-----------------------------------------------------------------------------
\* The ranges of what a show with something in it keeps.
LEMMA PlaceFacts ==
    ASSUME PlaceInv, ~Empty
    PROVE  /\ Len(subjects) \in Nat \ {0} /\ DOMAIN subjects = 1..Len(subjects)
           /\ playlist \in [1..Len(subjects) -> 1..Len(subjects)] /\ Len(playlist) = Len(subjects)
           /\ playPos \in 1..Len(playlist) /\ playPos \in Nat
           /\ Len(Entries) \in Nat \ {0} /\ Entries \in [1..Len(Entries) -> Image]
           /\ index \in 1..Len(Entries) /\ index \in Nat /\ image = Entries[index] /\ image # NoImage
<1>1. Len(subjects) \in Nat /\ DOMAIN subjects = 1..Len(subjects) /\ subjects \in Seq(Seq(Image))
  BY DEF PlaceInv, Sorted
<1>2. Len(subjects) # 0
  BY <1>1 DEF Empty
<1>3. playlist \in [1..Len(subjects) -> 1..Len(subjects)] /\ Len(playlist) = Len(subjects)
  BY <1>1, OrderIs DEF PlaceInv
<1>4. playPos \in 1..Len(playlist) /\ playlist[playPos] \in DOMAIN subjects
  BY <1>1, <1>3 DEF PlaceInv
<1>5. Len(Entries) \in Nat \ {0} /\ Entries \in [1..Len(Entries) -> Image]
  BY <1>4 DEF PlaceInv, Sorted, Entries
<1>6. index \in 1..Len(Entries) /\ image = Entries[index]
  BY <1>5 DEF PlaceInv
<1>7. image \in Image
  BY <1>5, <1>6
<1> QED
  BY <1>1, <1>2, <1>3, <1>4, <1>5, <1>6, <1>7, PlaylistAssumption DEF PlaylistAssumption

\* Show keeps a place, whatever playlist and place it is given.
LEMMA Shown ==
    ASSUME NEW subs, NEW list, NEW pos, NEW i \in Nat \ {0}, Show(subs, list, pos, i),
           Sorted(subs), subs \in Seq(Seq(Image)), Rotation(subs) \subseteq Image,
           list \in SetToSeqs(1..Len(subs)), subs # <<>> => pos \in DOMAIN list,
           playing' \in BOOLEAN, shuffle' \in BOOLEAN,
           ~shuffle' => list = [k \in 1..Len(subs) |-> k]
    PROVE  /\ PlaceInv'
           /\ subjects' = subs /\ playlist' = list /\ playPos' = pos
           /\ subs # <<>> => /\ index' = IF i > Len(subs[list[pos]]) THEN 1 ELSE i
                             /\ image' = subs[list[pos]][index']
<1>1. Len(subs) \in Nat /\ DOMAIN subs = 1..Len(subs)
  BY DEF Sorted
<1>2. list \in [1..Len(subs) -> 1..Len(subs)] /\ Len(list) = Len(subs)
  BY <1>1, OrderIs
<1>3. list = <<>> <=> subs = <<>>
  <2>1. list = <<>> <=> Len(list) = 0
    BY <1>1, <1>2
  <2>2. subs = <<>> <=> Len(subs) = 0
    BY <1>1
  <2> QED
    BY <1>2, <2>1, <2>2
<1>4. subjects' = subs /\ playlist' = list /\ playPos' = pos
  BY DEF Show
<1>5. CASE subs = <<>>
  <2>1. image' = NoImage
    BY <1>3, <1>5 DEF Show
  <2> QED
    BY <1>4, <1>5, <2>1 DEF PlaceInv, Empty
<1>6. CASE subs # <<>>
  <2> DEFINE entries == subs[list[pos]]
  <2>1. Len(entries) \in Nat \ {0} /\ DOMAIN entries = 1..Len(entries)
    BY <1>1, <1>2, <1>6 DEF Sorted
  <2>2. index' = (IF i > Len(entries) THEN 1 ELSE i) /\ image' = entries[index']
    BY <1>3, <1>6 DEF Show
  <2>3. index' \in 1..Len(entries)
    <3> DEFINE n == Len(entries)
    <3>1. n \in Nat \ {0} /\ index' = IF i > n THEN 1 ELSE i
      BY <2>1, <2>2
    <3> HIDE DEF n
    <3>2. index' \in 1..n
      BY <3>1
    <3> QED
      BY <3>2 DEF n
  <2> QED
    BY <1>4, <1>6, <2>1, <2>2, <2>3 DEF PlaceInv, Empty, Entries
<1> QED
  BY <1>5, <1>6

\* The same from the top of a subject.
LEMMA ShownFirst ==
    ASSUME NEW subs, NEW list, NEW pos, Show(subs, list, pos, 1),
           Sorted(subs), subs \in Seq(Seq(Image)), Rotation(subs) \subseteq Image,
           list \in SetToSeqs(1..Len(subs)), subs # <<>> => pos \in DOMAIN list,
           playing' \in BOOLEAN, shuffle' \in BOOLEAN,
           ~shuffle' => list = [k \in 1..Len(subs) |-> k]
    PROVE  PlaceInv' /\ subjects' = subs /\ playlist' = list /\ playPos' = pos /\ index' = 1
<1>1. 1 \in Nat \ {0}
  OBVIOUS
<1>2. PlaceInv' /\ subjects' = subs /\ playlist' = list /\ playPos' = pos
  BY <1>1, Shown
<1>3. index' = 1
  BY DEF Show
<1> QED
  BY <1>2, <1>3

\* From the top of a playlist everything is on show or ahead.
LEMMA FromTop ==
    ASSUME NEW subs, Sorted(subs), NEW list \in SetToSeqs(1..Len(subs)), NEW im \in Rotation(subs)
    PROVE  im = subs[list[1]][1] \/ Ahead(im, subs, list, 1, 1)
<1>1. Len(subs) \in Nat /\ DOMAIN subs = 1..Len(subs)
  BY DEF Sorted
<1>2. PICK k \in DOMAIN subs : im \in Range(subs[k])
  BY DEF Rotation
<1>3. PICK j \in DOMAIN subs[k] : subs[k][j] = im
  BY <1>2 DEF Range
<1>4. j \in Nat /\ j >= 1
  BY DEF Sorted
<1>5. list \in [1..Len(subs) -> 1..Len(subs)] /\ \E p \in 1..Len(subs) : list[p] = k
  BY <1>1, OrderIs
<1>6. PICK p \in 1..Len(subs) : list[p] = k
  BY <1>5
<1>7. p \in DOMAIN list /\ p \in Nat /\ p >= 1
  BY <1>1, <1>5
<1> QED
  BY <1>3, <1>4, <1>6, <1>7 DEF Ahead

\* At the top of a new pass all of the rotation is on show or ahead.
LEMMA NewPassBegins ==
    ASSUME PlaceInv', NewPass, subjects' # <<>> => playPos' = 1 /\ index' = 1
    PROVE  PassInv'
<1> SUFFICES ASSUME NEW im \in Rotation(subjects')
             PROVE  im = image' \/ Ahead(im, subjects', playlist', playPos', index')
  BY DEF PassInv, NewPass, Ahead
<1>1. Sorted(subjects') /\ playlist' \in SetToSeqs(1..Len(subjects'))
  BY DEF PlaceInv
<1>2. subjects' # <<>>
  BY DEF Rotation
<1>3. image' = subjects'[playlist'[1]][1]
  BY <1>2 DEF PlaceInv, Empty, Entries
<1> QED
  BY <1>1, <1>2, <1>3, FromTop

-----------------------------------------------------------------------------
\* An advance goes on to the next image, to the next subject, or to the top.
LEMMA ForwardIs ==
    ASSUME PlaceInv, ~Empty, Forward, UNCHANGED Settings
    PROVE  /\ PlaceInv' /\ subjects' = subjects
           /\ \/ /\ index < Len(Entries)
                 /\ playlist' = playlist /\ playPos' = playPos /\ index' = index + 1
              \/ /\ index = Len(Entries) /\ playPos < Len(playlist)
                 /\ playlist' = playlist /\ playPos' = playPos + 1 /\ index' = 1
              \/ AtEnd /\ playPos' = 1 /\ index' = 1
<1>1. /\ Len(subjects) \in Nat \ {0} /\ DOMAIN subjects = 1..Len(subjects)
      /\ playlist \in [1..Len(subjects) -> 1..Len(subjects)] /\ Len(playlist) = Len(subjects)
      /\ playPos \in 1..Len(playlist) /\ playPos \in Nat
      /\ Len(Entries) \in Nat \ {0} /\ index \in 1..Len(Entries) /\ index \in Nat
  BY PlaceFacts
<1>2. /\ playing' \in BOOLEAN /\ shuffle' \in BOOLEAN /\ shuffle' = shuffle
      /\ Sorted(subjects) /\ subjects \in Seq(Seq(Image)) /\ Rotation(subjects) \subseteq Image
      /\ playlist \in SetToSeqs(1..Len(subjects))
      /\ ~shuffle => playlist = [k \in 1..Len(subjects) |-> k]
  BY DEF PlaceInv, Settings
<1>3. subjects # <<>> /\ DOMAIN playlist = 1..Len(subjects)
  BY <1>1 DEF Empty
<1>4. \A pos \in 1..Len(subjects) : Len(subjects[playlist[pos]]) \in Nat \ {0}
  BY <1>1, <1>2 DEF Sorted
<1>5. /\ index < Len(Entries) \/ (index = Len(Entries) /\ playPos < Len(playlist)) \/ AtEnd
      /\ index < Len(Entries) => index # Len(Entries)
      /\ playPos < Len(playlist) => playPos # Len(playlist)
  <2> DEFINE n == Len(Entries)
             m == Len(playlist)
  <2>1. index \in 1..n /\ n \in Nat /\ playPos \in 1..m /\ m \in Nat
    BY <1>1
  <2> HIDE DEF n, m
  <2>2. /\ index < n \/ (index = n /\ playPos < m) \/ (index = n /\ playPos = m)
        /\ index < n => index # n
        /\ playPos < m => playPos # m
    BY <2>1
  <2> QED
    BY <2>2 DEF AtEnd, n, m
<1>6. CASE index < Len(Entries)
  <2>1. Show(subjects, playlist, playPos, index + 1)
    <3>1. ~(index = Len(Entries)) /\ ~AtEnd
      BY <1>6, <1>5 DEF AtEnd
    <3> QED
      BY <1>6, <3>1 DEF Forward
  <2>2. index + 1 \in Nat \ {0} /\ ~(index + 1 > Len(Entries))
    BY <1>1, <1>6
  <2>3. /\ PlaceInv' /\ subjects' = subjects /\ playlist' = playlist /\ playPos' = playPos
        /\ index' = IF index + 1 > Len(Entries) THEN 1 ELSE index + 1
    BY <1>1, <1>2, <1>3, <2>1, <2>2, Shown DEF Entries
  <2> QED
    BY <1>6, <2>2, <2>3
<1>7. CASE index = Len(Entries) /\ playPos < Len(playlist)
  <2>1. Show(subjects, playlist, playPos + 1, 1)
    <3>1. ~(index < Len(Entries)) /\ ~AtEnd
      BY <1>7, <1>5 DEF AtEnd
    <3> QED
      BY <1>7, <3>1 DEF Forward
  <2>2. playPos + 1 \in 1..Len(subjects)
    BY <1>1, <1>7
  <2>3. /\ PlaceInv' /\ subjects' = subjects /\ playlist' = playlist /\ playPos' = playPos + 1
        /\ index' = 1
    <3> DEFINE q == playPos + 1
    <3>1. Show(subjects, playlist, q, 1) /\ (subjects # <<>> => q \in DOMAIN playlist)
      BY <1>3, <2>1, <2>2
    <3> HIDE DEF q
    <3>2. PlaceInv' /\ subjects' = subjects /\ playlist' = playlist /\ playPos' = q /\ index' = 1
      BY <1>2, <3>1, ShownFirst
    <3> QED
      BY <3>2 DEF q
  <2> QED
    BY <1>7, <2>3
<1>8. CASE AtEnd
  <2>1. ~(index < Len(Entries)) /\ ~(playPos < Len(playlist))
    BY <1>1, <1>8 DEF AtEnd
  <2>2. PICK order \in SetToSeqs(1..Len(subjects)) :
             /\ Show(subjects, order, 1, 1)
             /\ ~shuffle' => order = [k \in 1..Len(subjects) |-> k]
    <3>1. CASE shuffle
      <4>1. PICK order \in Orders(Len(playlist)) : Show(subjects, order, 1, 1)
        BY <1>8, <2>1, <3>1 DEF Forward
      <4> QED
        BY <1>1, <4>1, OrdersAre
    <3>2. CASE ~shuffle
      <4>1. Show(subjects, playlist, 1, 1)
        BY <1>8, <2>1, <3>2 DEF Forward
      <4> QED
        BY <1>2, <4>1
    <3> QED
      BY <3>1, <3>2
  <2>3. 1 \in DOMAIN order
    BY <1>1, OrderIs
  <2>4. PlaceInv' /\ subjects' = subjects /\ playPos' = 1 /\ index' = 1
    BY <1>2, <1>3, <2>2, <2>3, ShownFirst
  <2> QED
    BY <1>8, <2>4
<1> QED
  BY <1>6, <1>7, <1>8, <1>5

\* Short of the end, an advance shows the first of what was ahead.
LEMMA AheadComesUp ==
    ASSUME PlaceInv, ~Empty, ~AtEnd, Forward, UNCHANGED Settings,
           NEW im, Ahead(im, subjects, playlist, playPos, index)
    PROVE  im = image' \/ Ahead(im, subjects', playlist', playPos', index')
<1>1. /\ playlist \in [1..Len(subjects) -> 1..Len(subjects)] /\ Len(subjects) \in Nat
      /\ playPos \in Nat /\ index \in Nat /\ DOMAIN subjects = 1..Len(subjects)
      /\ Len(playlist) = Len(subjects)
  BY PlaceFacts
<1>2. /\ subjects' = subjects
      /\ image' = IF Empty' THEN NoImage ELSE subjects'[playlist'[playPos']][index']
  BY ForwardIs DEF PlaceInv, Entries
<1>3. image' = subjects[playlist'[playPos']][index']
  BY <1>2 DEF Empty
<1>4. PICK p \in DOMAIN playlist : \E j \in DOMAIN subjects[playlist[p]] :
           /\ subjects[playlist[p]][j] = im
           /\ p > playPos \/ (p = playPos /\ j > index)
  BY DEF Ahead
<1>5. PICK j \in DOMAIN subjects[playlist[p]] :
           /\ subjects[playlist[p]][j] = im
           /\ p > playPos \/ (p = playPos /\ j > index)
  BY <1>4
<1>6. /\ p \in Nat /\ j \in Nat \ {0} /\ j <= Len(subjects[playlist[p]]) /\ p <= Len(playlist)
      /\ Len(subjects[playlist[p]]) \in Nat
  <2>1. playlist[p] \in DOMAIN subjects
    BY <1>1
  <2>2. DOMAIN subjects[playlist[p]] = 1..Len(subjects[playlist[p]]) /\ Len(subjects[playlist[p]]) \in Nat
    BY <2>1 DEF PlaceInv, Sorted
  <2> QED
    BY <1>1, <2>2
<1>7. CASE /\ index < Len(Entries)
           /\ playlist' = playlist /\ playPos' = playPos /\ index' = index + 1
  <2>1. CASE p = playPos /\ j = index + 1
    BY <1>3, <1>5, <1>7, <2>1
  <2>2. CASE p > playPos' \/ (p = playPos' /\ j > index')
    BY <1>2, <1>5, <1>7, <2>2 DEF Ahead
  <2> QED
    BY <1>1, <1>5, <1>6, <1>7, <2>1, <2>2
<1>8. CASE /\ index = Len(Entries)
           /\ playlist' = playlist /\ playPos' = playPos + 1 /\ index' = 1
  <2>1. p > playPos
    BY <1>1, <1>5, <1>6, <1>8 DEF Entries
  <2>2. CASE p = playPos' /\ j = index'
    BY <1>3, <1>5, <1>8, <2>2
  <2>3. CASE p > playPos' \/ (p = playPos' /\ j > index')
    BY <1>2, <1>5, <1>8, <2>3 DEF Ahead
  <2> QED
    BY <1>1, <1>6, <1>8, <2>1, <2>2, <2>3
<1> QED
  BY <1>7, <1>8, ForwardIs

\* The steps keep the invariant: an advance,
LEMMA AdvanceKeeps ==
    ASSUME IInv, Advance, UNCHANGED Settings
    PROVE  IInv'
<1>1. CASE Empty
  BY <1>1 DEF Advance, IInv, PlaceInv, PassInv, placeVars, Settings, Empty, Entries, Sorted, Rotation, Ahead
<1>2. CASE ~Empty
  <2>1. Forward /\ IF AtEnd THEN NewPass ELSE SamePass(pass.whole)
    BY <1>2 DEF Advance
  <2>2. PlaceInv' /\ (AtEnd => playPos' = 1 /\ index' = 1)
    <3>1. Len(Entries) \in Nat /\ Len(playlist) \in Nat
      BY <1>2, PlaceFacts DEF IInv
    <3> QED
      BY <1>2, <2>1, <3>1, ForwardIs DEF IInv, AtEnd
  <2>3. CASE AtEnd
    BY <2>1, <2>2, <2>3, NewPassBegins DEF IInv
  <2>4. CASE ~AtEnd
    <3>1. /\ pass'.whole = pass.whole /\ pass'.seen = pass.seen \cup {image'}
          /\ pass'.stayed \subseteq pass.stayed
      BY <2>1, <2>4 DEF SamePass
    <3>2. \A im : Ahead(im, subjects, playlist, playPos, index)
                  => im = image' \/ Ahead(im, subjects', playlist', playPos', index')
      BY <1>2, <2>1, <2>4, AheadComesUp DEF IInv
    <3>3. pass.whole => \A im \in pass.stayed :
              im \in pass.seen \/ Ahead(im, subjects, playlist, playPos, index)
      BY DEF IInv, PassInv
    <3>4. pass'.whole => \A im \in pass'.stayed :
              im \in pass'.seen \/ Ahead(im, subjects', playlist', playPos', index')
      BY <3>1, <3>2, <3>3
    <3> QED
      BY <2>2, <3>4 DEF IInv, PassInv
  <2> QED
    BY <2>3, <2>4
<1> QED
  BY <1>1, <1>2

-----------------------------------------------------------------------------
\* The order of the images' names, which a rotation and an unshuffled playlist follow.
Precedes(a, b) == a[1] < b[1] \/ (a[1] = b[1] /\ a[2] < b[2])

\* Places in a rotation are in the order of the names there, and no name is there twice.
LEMMA PlacesInOrder ==
    ASSUME NEW subs, Sorted(subs), NEW k \in DOMAIN subs, NEW l \in DOMAIN subs,
           NEW i \in DOMAIN subs[k], NEW j \in DOMAIN subs[l]
    PROVE  /\ Precedes(subs[k][i], subs[l][j]) <=> k < l \/ (k = l /\ i < j)
           /\ subs[k][i][1] = subs[l][j][1] <=> k = l
           /\ subs[k][i] = subs[l][j] => k = l /\ i = j
<1> DEFINE a == subs[k][i]
           b == subs[l][j]
<1>1. k \in Nat /\ l \in Nat
  BY DEF Sorted
<1>2. i \in Nat /\ j \in Nat
  BY DEF Sorted
<1>3. a[1] \in Nat /\ a[2] \in Nat /\ b[1] \in Nat /\ b[2] \in Nat
  <2>1. a \in Image /\ b \in Image
    BY DEF Sorted
  <2> QED
    BY <2>1, PlaylistAssumption DEF PlaylistAssumption
<1>4. /\ k < l => a[1] < b[1]
      /\ l < k => b[1] < a[1]
      /\ k = l => a[1] = b[1] /\ (i < j => a[2] < b[2]) /\ (j < i => b[2] < a[2])
  BY DEF Sorted
<1>5. k = l /\ i = j => a = b
  OBVIOUS
<1> HIDE DEF a, b
<1>6. /\ Precedes(a, b) <=> k < l \/ (k = l /\ i < j)
      /\ a[1] = b[1] <=> k = l
      /\ a = b => k = l /\ i = j
  BY <1>1, <1>2, <1>3, <1>4, <1>5 DEF Precedes
<1> QED
  BY <1>6 DEF a, b

\* What is in the rotation has a place there.
LEMMA Placed ==
    ASSUME NEW subs, NEW im \in Rotation(subs)
    PROVE  \E k \in DOMAIN subs : \E j \in DOMAIN subs[k] : subs[k][j] = im
BY DEF Rotation, Range

\* The least of one.
LEMMA MinOfOne ==
    ASSUME NEW S, NEW p \in S, p \in Nat, \A q \in S : q = p
    PROVE  Min(S) = p
<1>1. \E x \in S : \A y \in S : x <= y
  OBVIOUS
<1>2. Min(S) \in S
  BY <1>1 DEF Min
<1> QED
  BY <1>2

\* A rescan finds its place again: the image if it is still there, else the top of
\* its subject, else the top of the playlist.
LEMMA RefreshIs ==
    ASSUME PlaceInv, NEW images \in SUBSET Image, Refresh(images), UNCHANGED Settings
    PROVE  /\ PlaceInv' /\ Rotation(subjects') = images
           /\ image \in images => image' = image
           /\ images # {} => \/ playPos' = 1 /\ index' = 1
                             \/ image'[1] = image[1] /\ (image' = image \/ index' = 1)
<1> DEFINE subs == SubjectsOf(images)
           n == Len(subs)
           place(k) == {j \in DOMAIN subs[k] : subs[k][j] = image}
<1>1. Sorted(subs) /\ Rotation(subs) = images /\ subs \in Seq(Seq(Image))
  BY SubjectsSorted
<1>2. playing' \in BOOLEAN /\ shuffle' \in BOOLEAN
  BY DEF PlaceInv, Settings
<1> HIDE DEF subs
<1>3. \A k, l \in DOMAIN subs : \A i \in DOMAIN subs[k] : \A j \in DOMAIN subs[l] :
           /\ subs[k][i][1] = subs[l][j][1] => k = l
           /\ subs[k][i] = subs[l][j] => k = l /\ i = j
  BY <1>1, PlacesInOrder
<1> USE DEF subs
<1>4. PICK order \in Orders(n) :
           IF Here(subs, order) = {} THEN Show(subs, order, 1, 1)
           ELSE Show(subs, order, Min(Here(subs, order)),
                     IF place(order[Min(Here(subs, order))]) = {} THEN 1
                     ELSE Min(place(order[Min(Here(subs, order))])))
  BY DEF Refresh
<1> HIDE DEF subs
<1>5. /\ n \in Nat /\ DOMAIN subs = 1..n /\ (subs # <<>> <=> n # 0)
      /\ images # {} => subs # <<>>
  <2>1. images # {} => subs # <<>>
    BY <1>1 DEF Rotation
  <2> QED
    BY <1>1, <2>1 DEF Sorted
<1>6. order \in SetToSeqs(1..n) /\ (~shuffle' => order = [k \in 1..n |-> k])
  BY <1>5, OrdersAre
<1>7. /\ order \in [1..n -> 1..n]
      /\ \A k, l \in 1..n : order[k] = order[l] => k = l
      /\ \A k \in 1..n : \E p \in 1..n : order[p] = k
  <2> HIDE DEF n
  <2> QED
    BY <1>5, <1>6, OrderIs
<1>8. \A p \in 1..n : 1 \in DOMAIN subs[order[p]]
  <2> TAKE p \in 1..n
  <2>1. order[p] \in DOMAIN subs
    BY <1>5, <1>7
  <2>2. DOMAIN subs[order[p]] = 1..Len(subs[order[p]]) /\ Len(subs[order[p]]) \in Nat \ {0}
    BY <1>1, <2>1 DEF Sorted
  <2> QED
    BY <2>2
<1>9. \A p, q \in Here(subs, order) : p \in 1..n /\ p = q
  <2> TAKE p, q \in Here(subs, order)
  <2>1. p \in 1..n /\ q \in 1..n /\ subs[order[p]][1][1] = subs[order[q]][1][1]
    BY <1>7 DEF Here
  <2>2. order[p] = order[q]
    <3>1. /\ order[p] \in DOMAIN subs /\ order[q] \in DOMAIN subs
          /\ 1 \in DOMAIN subs[order[p]] /\ 1 \in DOMAIN subs[order[q]]
      BY <1>5, <1>7, <1>8, <2>1
    <3> QED
      BY <1>3, <2>1, <3>1
  <2> QED
    BY <1>7, <2>1, <2>2
<1>10. \A k \in 1..n : \A i, j \in place(k) : i \in Nat \ {0} /\ i <= Len(subs[k]) /\ i = j
  <2> TAKE k \in 1..n
  <2> TAKE i, j \in place(k)
  <2>1. i \in DOMAIN subs[k] /\ j \in DOMAIN subs[k] /\ subs[k][i] = subs[k][j]
    OBVIOUS
  <2>2. DOMAIN subs[k] = 1..Len(subs[k]) /\ Len(subs[k]) \in Nat
    BY <1>1, <1>5 DEF Sorted
  <2>3. i = j
    BY <1>5, <1>3, <2>1
  <2> DEFINE m == Len(subs[k])
  <2>4. i \in 1..m /\ m \in Nat
    BY <2>1, <2>2
  <2> HIDE DEF m
  <2>5. i \in Nat \ {0} /\ i <= m
    BY <2>4
  <2> QED
    BY <2>3, <2>5 DEF m
<1>11. CASE Here(subs, order) = {}
  <2>1. Show(subs, order, 1, 1)
    BY <1>4, <1>11
  <2>2. subs # <<>> => 1 \in DOMAIN order
    BY <1>5, <1>7
  <2>3. PlaceInv' /\ subjects' = subs /\ playPos' = 1 /\ index' = 1
    BY <1>1, <1>2, <1>6, <2>1, <2>2, ShownFirst
  <2>4. image \notin images
    <3> SUFFICES ASSUME image \in images PROVE FALSE
      OBVIOUS
    <3>1. PICK k \in 1..n : \E j \in DOMAIN subs[k] : subs[k][j] = image
      BY <1>1, <1>5, Placed
    <3>2. PICK p \in 1..n : order[p] = k
      BY <1>7
    <3>3. subs[k][1][1] = image[1]
      BY <1>1, <1>5, <3>1 DEF Sorted
    <3>4. image # NoImage
      BY PlaylistAssumption DEF PlaylistAssumption
    <3>5. p \in DOMAIN order
      BY <1>7
    <3> QED
      BY <1>11, <3>2, <3>3, <3>4, <3>5 DEF Here
  <2> QED
    BY <1>1, <1>5, <2>3, <2>4
<1>12. CASE Here(subs, order) # {}
  <2>1. PICK p \in Here(subs, order) : TRUE
    BY <1>12
  <2>2. p \in 1..n /\ p \in DOMAIN order /\ Min(Here(subs, order)) = p /\ order[p] \in 1..n
    <3>1. p \in 1..n /\ p \in Nat /\ \A q \in Here(subs, order) : q = p
      BY <1>5, <1>9
    <3>2. Min(Here(subs, order)) = p
      BY <3>1, MinOfOne
    <3> QED
      BY <1>7, <3>1, <3>2
  <2> DEFINE k == order[p]
             at == IF place(k) = {} THEN 1 ELSE Min(place(k))
  <2>3. Show(subs, order, p, at)
    BY <1>4, <1>12, <2>2
  <2>4. /\ image \in images => at \in DOMAIN subs[k] /\ subs[k][at] = image
        /\ image \notin images => at = 1
        /\ at \in Nat \ {0}
    <3>1. CASE place(k) = {}
      <4>1. image \notin images
        <5> SUFFICES ASSUME image \in images PROVE FALSE
          OBVIOUS
        <5>1. PICK l \in 1..n : \E j \in DOMAIN subs[l] : subs[l][j] = image
          BY <1>1, <1>5, Placed
        <5>2. PICK j \in DOMAIN subs[l] : subs[l][j] = image
          BY <5>1
        <5>3. subs[k][1][1] = image[1]
          BY <2>1 DEF Here
        <5>4. 1 \in DOMAIN subs[k]
          BY <1>8, <2>2
        <5>5. l = k
          BY <1>5, <1>3, <2>2, <5>2, <5>3, <5>4
        <5> QED
          BY <3>1, <5>2, <5>5
      <4> QED
        BY <3>1, <4>1
    <3>2. CASE place(k) # {}
      <4>1. PICK j \in place(k) : TRUE
        BY <3>2
      <4>2. j \in Nat \ {0} /\ \A i \in place(k) : i = j
        BY <1>10, <2>2, <4>1
      <4>3. Min(place(k)) = j
        <5> HIDE DEF place
        <5> QED
          BY <4>2, MinOfOne
      <4>4. at = j /\ j \in DOMAIN subs[k] /\ subs[k][j] = image
        BY <3>2, <4>3
      <4>5. image \in images
        BY <1>1, <1>5, <2>2, <4>4 DEF Rotation, Range
      <4> QED
        BY <4>2, <4>4, <4>5
    <3> QED
      BY <3>1, <3>2
  <2> HIDE DEF at
  <2>5. /\ PlaceInv' /\ subjects' = subs
        /\ index' = (IF at > Len(subs[k]) THEN 1 ELSE at) /\ image' = subs[k][index']
    <3>1. subs # <<>>
      BY <1>5, <2>2
    <3> QED
      BY <1>1, <1>2, <1>6, <2>2, <2>3, <2>4, <3>1, Shown
  <2>6. image \in images => image' = image
    <3>1. image \in images => ~(at > Len(subs[k]))
      BY <1>1, <1>5, <2>2, <2>4 DEF Sorted
    <3> QED
      BY <2>4, <2>5, <3>1
  <2>7. image \notin images => index' = 1
    BY <2>4, <2>5
  <2>8. image'[1] = image[1]
    <3>1. 1 \in DOMAIN subs[k] /\ subs[k][1][1] = image[1]
      BY <1>8, <2>1, <2>2 DEF Here
    <3>2. image \notin images => image' = subs[k][1]
      BY <2>5, <2>7
    <3> QED
      BY <2>6, <3>1, <3>2
  <2> QED
    BY <1>1, <2>5, <2>6, <2>7, <2>8
<1> QED
  BY <1>11, <1>12

\* A rescan of a show in name order leaves ahead what was ahead.
LEMMA AheadStays ==
    ASSUME PlaceInv, PlaceInv', ~shuffle, ~shuffle', NEW im \in Rotation(subjects'),
           Ahead(im, subjects, playlist, playPos, index),
           \/ playPos' = 1 /\ index' = 1
           \/ image'[1] = image[1] /\ (image' = image \/ index' = 1)
    PROVE  im = image' \/ Ahead(im, subjects', playlist', playPos', index')
<1>1. /\ Sorted(subjects') /\ Rotation(subjects') \subseteq Image
      /\ playlist' = [k \in 1..Len(subjects') |-> k] /\ playlist' \in SetToSeqs(1..Len(subjects'))
      /\ DOMAIN subjects' = 1..Len(subjects') /\ Len(subjects') \in Nat
  BY DEF PlaceInv, Sorted
<1>2. PICK k \in DOMAIN subjects' : \E j \in DOMAIN subjects'[k] : subjects'[k][j] = im
  BY Placed
<1>3. PICK j \in DOMAIN subjects'[k] : subjects'[k][j] = im
  BY <1>2
<1>4. subjects' # <<>>
  BY <1>1, <1>2
<1>5. /\ playPos' \in DOMAIN subjects' /\ playlist'[playPos'] = playPos'
      /\ index' \in DOMAIN subjects'[playPos'] /\ image' = subjects'[playPos'][index']
  <2>1. /\ playPos' \in DOMAIN playlist' /\ index' \in DOMAIN subjects'[playlist'[playPos']]
        /\ image' = subjects'[playlist'[playPos']][index']
    BY <1>4 DEF PlaceInv, Empty, Entries
  <2> QED
    BY <1>1, <2>1
<1>6. k \in DOMAIN playlist' /\ playlist'[k] = k
  BY <1>1
<1>7. CASE playPos' = 1 /\ index' = 1
  BY <1>1, <1>5, <1>7, FromTop
<1>8. CASE image'[1] = image[1] /\ (image' = image \/ index' = 1)
  <2>1. Precedes(image, im)
    <3>1. ~Empty
      BY DEF Ahead, PlaceInv, Sorted, Empty
    <3>2. /\ playlist = [l \in 1..Len(subjects) |-> l] /\ DOMAIN subjects = 1..Len(subjects)
          /\ Sorted(subjects) /\ playPos \in DOMAIN subjects /\ playlist[playPos] = playPos
      BY <3>1, PlaceFacts DEF PlaceInv
    <3>3. index \in DOMAIN subjects[playPos] /\ image = subjects[playPos][index]
      BY <3>1, <3>2 DEF PlaceInv, Entries
    <3>4. PICK p \in DOMAIN subjects : \E i \in DOMAIN subjects[p] :
               subjects[p][i] = im /\ (p > playPos \/ (p = playPos /\ i > index))
      BY <3>2 DEF Ahead
    <3>5. PICK i \in DOMAIN subjects[p] :
               subjects[p][i] = im /\ (p > playPos \/ (p = playPos /\ i > index))
      BY <3>4
    <3>6. playPos < p \/ (playPos = p /\ index < i)
      BY <3>5
    <3> QED
      BY <3>2, <3>3, <3>5, <3>6, PlacesInOrder
  <2>2. CASE Precedes(image', im)
    <3>1. playPos' < k \/ (playPos' = k /\ index' < j)
      BY <1>1, <1>3, <1>5, <2>2, PlacesInOrder
    <3>2. k > playPos' \/ (k = playPos' /\ j > index')
      BY <3>1
    <3> QED
      BY <1>3, <1>6, <3>2 DEF Ahead
  <2>3. CASE index' = 1 /\ im[1] = image'[1]
    <3>1. k = playPos'
      BY <1>1, <1>3, <1>5, <2>3, PlacesInOrder
    <3>2. j \in Nat \ {0}
      BY <1>1 DEF Sorted
    <3>3. j = 1 \/ j > index'
      BY <2>3, <3>2
    <3> QED
      BY <1>3, <1>5, <1>6, <2>3, <3>1, <3>3 DEF Ahead
  <2> QED
    BY <1>8, <2>1, <2>2, <2>3 DEF Precedes
<1> QED
  BY <1>7, <1>8

\* a rescan,
LEMMA RescanKeeps ==
    ASSUME IInv, NEW images \in SUBSET Image, Refresh(images), UNCHANGED Settings,
           SamePass(pass.whole /\ ~shuffle)
    PROVE  IInv'
<1>1. /\ PlaceInv' /\ Rotation(subjects') = images
      /\ images # {} => \/ playPos' = 1 /\ index' = 1
                        \/ image'[1] = image[1] /\ (image' = image \/ index' = 1)
  BY RefreshIs DEF IInv
<1>2. /\ pass'.whole = (pass.whole /\ ~shuffle) /\ pass'.seen = pass.seen \cup {image'}
      /\ pass'.stayed = pass.stayed \cap images
  BY <1>1 DEF SamePass
<1>3. ASSUME pass.whole, ~shuffle, NEW im \in pass.stayed \cap images
      PROVE  im \in pass'.seen \/ Ahead(im, subjects', playlist', playPos', index')
  <2>1. im \in pass.seen \/ Ahead(im, subjects, playlist, playPos, index)
    BY <1>3 DEF IInv, PassInv
  <2>2. images # {} /\ ~shuffle'
    BY <1>3 DEF Settings
  <2>3. CASE Ahead(im, subjects, playlist, playPos, index)
    BY <1>1, <1>2, <1>3, <2>2, <2>3, AheadStays DEF IInv
  <2> QED
    BY <1>2, <2>1, <2>3
<1>4. pass'.whole => \A im \in pass'.stayed :
          im \in pass'.seen \/ Ahead(im, subjects', playlist', playPos', index')
  BY <1>2, <1>3
<1> QED
  BY <1>1, <1>4 DEF IInv, PassInv

-----------------------------------------------------------------------------
\* A move to any place of the playlist keeps a place.
LEMMA MoveKeeps ==
    ASSUME PlaceInv, ~Empty, UNCHANGED Settings,
           NEW pos \in 1..Len(subjects), NEW i \in Nat \ {0}, Show(subjects, playlist, pos, i)
    PROVE  PlaceInv'
<1>1. playlist \in [1..Len(subjects) -> 1..Len(subjects)]
  BY PlaceFacts
<1>2. /\ playing' \in BOOLEAN /\ shuffle' \in BOOLEAN
      /\ Sorted(subjects) /\ subjects \in Seq(Seq(Image)) /\ Rotation(subjects) \subseteq Image
      /\ playlist \in SetToSeqs(1..Len(subjects))
      /\ ~shuffle' => playlist = [k \in 1..Len(subjects) |-> k]
  BY DEF PlaceInv, Settings
<1> QED
  BY <1>1, <1>2, Shown

\* The neighbours of a place, around the ends.
LEMMA Neighbours ==
    ASSUME PlaceInv, ~Empty
    PROVE  Before(playPos) \in 1..Len(subjects) /\ After(playPos) \in 1..Len(subjects)
<1> DEFINE n == Len(subjects)
<1>1. n \in Nat \ {0} /\ Len(playlist) = n /\ playPos \in 1..n
  BY PlaceFacts
<1> HIDE DEF n
<1>2. Before(playPos) \in 1..n /\ After(playPos) \in 1..n
  BY <1>1 DEF Before, After
<1> QED
  BY <1>2 DEF n

\* a jump,
LEMMA JumpsKeep ==
    ASSUME IInv, Prev \/ NextSubject \/ PrevSubject
    PROVE  IInv'
<1>1. ~Empty /\ UNCHANGED Settings /\ SamePass(FALSE) /\ PlaceInv
  BY DEF Prev, NextSubject, PrevSubject, Jump, IInv
<1>2. PassInv'
  BY <1>1 DEF PassInv, SamePass
<1>3. CASE NextSubject
  <2>1. Show(subjects, playlist, After(playPos), 1)
    BY <1>3 DEF NextSubject, Jump
  <2> QED
    BY <1>1, <1>2, <2>1, Neighbours, MoveKeeps DEF IInv
<1>4. CASE PrevSubject
  <2>1. Show(subjects, playlist, Before(playPos), 1)
    BY <1>4 DEF PrevSubject, Jump
  <2> QED
    BY <1>1, <1>2, <2>1, Neighbours, MoveKeeps DEF IInv
<1>5. CASE Prev
  <2>1. Backward
    BY <1>5 DEF Prev, Jump
  <2>2. CASE index > 1
    <3>1. Show(subjects, playlist, playPos, index - 1)
      BY <2>1, <2>2 DEF Backward
    <3>2. index \in Nat /\ playPos \in 1..Len(subjects)
      BY <1>1, PlaceFacts
    <3>3. index - 1 \in Nat \ {0}
      BY <2>2, <3>2
    <3> QED
      BY <1>1, <1>2, <3>1, <3>2, <3>3, MoveKeeps DEF IInv
  <2>3. CASE ~(index > 1)
    <3> DEFINE size == Len(subjects[playlist[Before(playPos)]])
    <3>1. Show(subjects, playlist, Before(playPos), size)
      BY <2>1, <2>3 DEF Backward
    <3>2. Before(playPos) \in 1..Len(subjects)
      BY <1>1, Neighbours
    <3>3. playlist[Before(playPos)] \in DOMAIN subjects
      BY <1>1, <3>2, PlaceFacts
    <3>4. size \in Nat \ {0}
      BY <1>1, <3>3 DEF PlaceInv, Sorted
    <3> QED
      BY <1>1, <1>2, <3>1, <3>2, <3>4, MoveKeeps DEF IInv
  <2> QED
    BY <2>2, <2>3
<1> QED
  BY <1>3, <1>4, <1>5

\* and a change of order.
LEMMA ShuffleKeeps ==
    ASSUME IInv, SetShuffle
    PROVE  IInv'
<1> DEFINE n == Len(subjects)
<1>1. /\ playing' \in BOOLEAN /\ shuffle' \in BOOLEAN
      /\ Sorted(subjects) /\ subjects \in Seq(Seq(Image)) /\ Rotation(subjects) \subseteq Image
  BY DEF IInv, PlaceInv, SetShuffle
<1>2. n \in Nat /\ (subjects # <<>> => n # 0)
  BY <1>1 DEF Sorted
<1>3. PICK order \in Orders(n) : Show(subjects, order, 1, 1)
  BY DEF SetShuffle, Rebuild
<1>4. order \in SetToSeqs(1..n) /\ (~shuffle' => order = [k \in 1..n |-> k])
  BY <1>2, OrdersAre
<1>5. subjects # <<>> => 1 \in DOMAIN order
  BY <1>2, <1>4, OrderIs
<1>6. PlaceInv' /\ subjects' = subjects /\ playPos' = 1 /\ index' = 1
  BY <1>1, <1>3, <1>4, <1>5, ShownFirst
<1>7. NewPass
  BY DEF SetShuffle
<1> QED
  BY <1>6, <1>7, NewPassBegins DEF IInv

-----------------------------------------------------------------------------
LEMMA Initial == Init => IInv
<1> SUFFICES ASSUME Init PROVE IInv
  OBVIOUS
<1>1. PICK S \in SUBSET Image : subjects = SubjectsOf(S)
  BY DEF Init
<1>2. Sorted(subjects) /\ subjects \in Seq(Seq(Image)) /\ Rotation(subjects) = S
  BY <1>1, SubjectsSorted
<1> DEFINE n == Len(subjects)
<1>3. n \in Nat /\ DOMAIN subjects = 1..n /\ (subjects = <<>> <=> n = 0)
  BY <1>2 DEF Sorted
<1>4. playlist \in SetToSeqs(1..n) /\ (~shuffle => playlist = [k \in 1..n |-> k])
  BY <1>3, InNameOrder DEF Init
<1>5. ~Empty => /\ playPos \in DOMAIN playlist /\ index \in DOMAIN Entries
                /\ image = Entries[index]
  <2> SUFFICES ASSUME ~Empty
               PROVE  /\ playPos \in DOMAIN playlist /\ index \in DOMAIN Entries
                      /\ image = Entries[index]
    OBVIOUS
  <2>1. playlist \in [1..n -> 1..n]
    BY <1>3, <1>4, OrderIs
  <2>2. 1 \in DOMAIN playlist /\ playlist[1] \in DOMAIN subjects
    BY <1>3, <2>1 DEF Empty
  <2>3. 1 \in DOMAIN subjects[playlist[1]]
    <3> DEFINE k == playlist[1]
    <3>1. DOMAIN subjects[k] = 1..Len(subjects[k]) /\ Len(subjects[k]) \in Nat \ {0}
      BY <1>2, <2>2 DEF Sorted
    <3> QED
      BY <3>1
  <2>4. playPos = 1 /\ index = 1 /\ image = subjects[playlist[1]][1]
    BY DEF Init, Empty
  <2> QED
    BY <2>2, <2>3, <2>4 DEF Entries
<1>6. PlaceInv
  <2>1. playing \in BOOLEAN /\ shuffle \in BOOLEAN /\ (Empty => image = NoImage)
    BY DEF Init, Empty
  <2> QED
    BY <1>2, <1>4, <1>5, <2>1 DEF PlaceInv
<1>7. PassInv
  <2> SUFFICES ASSUME NEW im \in Rotation(subjects)
               PROVE  im = image \/ Ahead(im, subjects, playlist, playPos, index)
    BY DEF Init, PassInv
  <2>1. subjects # <<>>
    BY DEF Rotation
  <2>2. playPos = 1 /\ index = 1 /\ image = subjects[playlist[1]][1]
    BY <2>1 DEF Init
  <2> QED
    BY <1>2, <1>4, <2>2, FromTop
<1> QED
  BY <1>6, <1>7 DEF IInv

LEMMA StepKeeps == IInv /\ [Next]_vars => IInv'
<1> SUFFICES ASSUME IInv, [Next]_vars PROVE IInv'
  OBVIOUS
<1>1. CASE Tick
  <2>1. Advance /\ UNCHANGED Settings
    BY <1>1 DEF Tick
  <2> QED
    BY <2>1, AdvanceKeeps
<1>2. ASSUME NEW images \in SUBSET Image, Rescan(images)
      PROVE  IInv'
  <2>1. Refresh(images) /\ UNCHANGED Settings /\ SamePass(pass.whole /\ ~shuffle)
    BY <1>2 DEF Rescan
  <2> QED
    BY <2>1, RescanKeeps
<1>3. ASSUME NEW b \in BOOLEAN, PlayPause(b)
      PROVE  IInv'
  BY <1>3 DEF PlayPause, IInv, PlaceInv, PassInv, placeVars, Empty, Entries, Sorted, Rotation, Ahead
<1>4. CASE SkipAhead
  <2>1. Advance /\ UNCHANGED Settings
    BY <1>4 DEF SkipAhead
  <2> QED
    BY <2>1, AdvanceKeeps
<1>5. CASE Prev \/ NextSubject \/ PrevSubject
  BY <1>5, JumpsKeep
<1>6. CASE SetShuffle
  BY <1>6, ShuffleKeeps
<1>7. CASE UNCHANGED vars
  BY <1>7 DEF vars, IInv, PlaceInv, PassInv, placeVars, Empty, Entries, Sorted, Rotation, Ahead
<1> QED
  BY <1>1, <1>2, <1>3, <1>4, <1>5, <1>6, <1>7 DEF Next

\* Whatever is scanned and whoever jumps, the place kept is one of the rotation's,
\* and an unbroken pass has shown or has ahead all that stayed.
THEOREM PlaceKept == Spec => []IInv
BY Initial, StepKeeps, PTL DEF Spec

\* The playlist is an order of the rotation, and what is on show is the image at
\* the place the conductor keeps (syncStateFromPosition).
THEOREM PlaylistTypes == Spec => []TypeOK
<1>1. IInv => TypeOK
  BY DEF IInv, PlaceInv, TypeOK
<1> QED
  BY <1>1, PlaceKept, PTL

\* At the end of a pass nobody jumped in, every image that stayed in the rotation
\* from its start has been on show (advance and refreshSubjectsLocked).
THEOREM PassesShowAll == Spec => []NothingSkipped
<1>1. IInv => NothingSkipped
  <2> SUFFICES ASSUME IInv, ~Empty, AtEnd, pass.whole, NEW im \in pass.stayed
               PROVE  im \in pass.seen
    BY DEF NothingSkipped
  <2>1. /\ Len(subjects) \in Nat /\ playlist \in [1..Len(subjects) -> 1..Len(subjects)]
        /\ Len(playlist) = Len(subjects) /\ DOMAIN subjects = 1..Len(subjects)
    BY PlaceFacts DEF IInv
  <2>2. SUFFICES ASSUME Ahead(im, subjects, playlist, playPos, index) PROVE FALSE
    BY DEF IInv, PassInv
  <2>3. PICK p \in DOMAIN playlist : \E j \in DOMAIN subjects[playlist[p]] :
             p > playPos \/ (p = playPos /\ j > index)
    BY <2>2 DEF Ahead
  <2>4. PICK j \in DOMAIN subjects[playlist[p]] : p > playPos \/ (p = playPos /\ j > index)
    BY <2>3
  <2>5. DOMAIN subjects[playlist[p]] = 1..Len(subjects[playlist[p]])
        /\ Len(subjects[playlist[p]]) \in Nat
    BY <2>1 DEF IInv, PlaceInv, Sorted
  <2> DEFINE n == Len(subjects)
             m == Len(subjects[playlist[p]])
  <2>6. n \in Nat /\ m \in Nat /\ p \in 1..n /\ j \in 1..m /\ playPos = n
        /\ (p = playPos => index = m)
    BY <2>1, <2>5 DEF AtEnd, Entries
  <2> HIDE DEF n, m
  <2> QED
    BY <2>4, <2>6
<1> QED
  BY <1>1, PlaceKept, PTL

\* "staying on the current subject and image when they're still in rotation": a
\* rescan that still finds the image on show leaves it there, in whatever order
\* the playlist is rebuilt (refreshSubjectsLocked).
THEOREM RescanStaysPut == Spec => StaysPut
<1>1. IInv /\ [Next]_vars
      => [scans' # scans /\ image \in Rotation(subjects') => image' = image]_vars
  <2> SUFFICES ASSUME IInv, Next, scans' # scans, image \in Rotation(subjects')
               PROVE  image' = image
    OBVIOUS
  <2>1. PICK images \in SUBSET Image : Rescan(images)
    BY DEF Next, Tick, PlayPause, SkipAhead, Prev, NextSubject, PrevSubject, Jump, SetShuffle, Control
  <2>2. Refresh(images) /\ UNCHANGED Settings
    BY <2>1 DEF Rescan
  <2> QED
    BY <2>2, RefreshIs DEF IInv
<1> QED
  BY <1>1, PlaceKept, PTL DEF Spec, StaysPut
=============================================================================
