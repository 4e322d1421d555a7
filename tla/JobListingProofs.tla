-------------------------- MODULE JobListingProofs --------------------------
(***************************************************************************)
(* Theorems about JobListing for any number of jobs, any page sizes the    *)
(* API admits and any number of changes between the pages.                 *)
(***************************************************************************)
EXTENDS JobListing, JobEntityProofs, FiniteSetTheorems, SequenceTheorems

(* A list is cut at an offset into the rows a client has read over, and    *)
(* those it has not.                                                       *)
Behind(s, o) == {s[i] : i \in {k \in DOMAIN s : k <= o}}
Ahead(s, o)  == {s[i] : i \in {k \in DOMAIN s : k > o}}

NoRepetition(s) == \A i, k \in DOMAIN s : s[i] = s[k] => i = k

Name == Others \cup {Followed}

Stage == {"begin", "count", "page", "done"}

ListingShapes ==
  /\ listed  \in Seq(Name)
  /\ request \in [next : Stage, limit : 1 .. 200, offset : Nat]
  /\ {total, repeats, entered, left} \subseteq Nat
  /\ seen \subseteq Name /\ IsFiniteSet(seen)
  /\ stayed \subseteq Listed

(* Each row ahead that was shown before was pushed there, or came back, by *)
(* one that entered; each row behind that was not shown got there by one   *)
(* that left.                                                              *)
ReadingInv ==
  Reading =>
    /\ repeats + Cardinality(Ahead(listed, request.offset) \cap seen) <= entered
    /\ Cardinality((Behind(listed, request.offset) \cap stayed) \ seen) <= left
    /\ request.offset <= Len(listed) + left

(* What the count says still holds when the page is read, but for what     *)
(* entered or left in between.                                             *)
CountInv ==
  request.next = "page" => total <= Len(listed) + left /\ Len(listed) <= total + entered

ListingInv ==
  /\ ListingShapes
  /\ NoRepetition(listed)
  /\ request.next = "begin" =>
       request.offset = 0 /\ total = 0 /\ repeats = 0 /\ seen = {} /\ entered = 0 /\ left = 0
  /\ ReadingInv
  /\ CountInv
  /\ PagingDrift

-----------------------------------------------------------------------------
(* Lists and where they are cut *)

LEMMA CutsAreFinite ==
  ASSUME NEW S, NEW s \in Seq(S), NEW o \in Nat
  PROVE  /\ IsFiniteSet(ToSet(s)) /\ ToSet(s) \subseteq S
         /\ IsFiniteSet(Behind(s, o)) /\ IsFiniteSet(Ahead(s, o))
         /\ Behind(s, o) \cup Ahead(s, o) = ToSet(s)
<1>1. Len(s) \in Nat /\ DOMAIN s = 1 .. Len(s) /\ IsFiniteSet(DOMAIN s)
  BY FS_Interval
<1>2. s \in Surjection(DOMAIN s, ToSet(s))
  BY <1>1 DEF Surjection, ToSet
<1>3. IsFiniteSet(ToSet(s))
  BY <1>1, <1>2, FS_Surjection
<1>4. Behind(s, o) \cup Ahead(s, o) = ToSet(s)
  BY <1>1 DEF Behind, Ahead, ToSet
<1>5. IsFiniteSet(Behind(s, o)) /\ IsFiniteSet(Ahead(s, o))
  BY <1>3, <1>4, FS_Subset
<1>6. ToSet(s) \subseteq S
  BY <1>1 DEF ToSet
<1>7. QED
  BY <1>3, <1>4, <1>5, <1>6

(* One more element makes a set greater by one at most.                    *)
LEMMA OneMore ==
  ASSUME NEW T, IsFiniteSet(T), NEW x, NEW U, U \subseteq T \cup {x}
  PROVE  IsFiniteSet(U) /\ Cardinality(U) \in Nat /\ Cardinality(T) \in Nat
         /\ Cardinality(U) <= Cardinality(T) + 1
<1>1. /\ IsFiniteSet(T \cup {x}) /\ Cardinality(T) \in Nat
      /\ Cardinality(T \cup {x}) <= Cardinality(T) + 1
  BY FS_AddElement, FS_CardinalityType
<1>2. IsFiniteSet(U) /\ Cardinality(U) <= Cardinality(T \cup {x}) /\ Cardinality(U) \in Nat
      /\ Cardinality(T \cup {x}) \in Nat
  BY <1>1, FS_Subset, FS_CardinalityType
<1>3. QED
  BY <1>1, <1>2

LEMMA NoMore ==
  ASSUME NEW T, IsFiniteSet(T), NEW U, U \subseteq T
  PROVE  IsFiniteSet(U) /\ Cardinality(U) \in Nat /\ Cardinality(T) \in Nat
         /\ Cardinality(U) <= Cardinality(T)
BY FS_Subset, FS_CardinalityType

(* A sequence cut before its p-th place.                                   *)
LEMMA CutProperties ==
  ASSUME NEW S, NEW s \in Seq(S), NEW p \in 1 .. Len(s) + 1
  PROVE  /\ SubSeq(s, 1, p - 1) \in Seq(S) /\ Len(SubSeq(s, 1, p - 1)) = p - 1
         /\ \A i \in 1 .. p - 1 : SubSeq(s, 1, p - 1)[i] = s[i]
         /\ SubSeq(s, p, Len(s)) \in Seq(S) /\ Len(SubSeq(s, p, Len(s))) = Len(s) + 1 - p
         /\ \A i \in 1 .. Len(s) + 1 - p : SubSeq(s, p, Len(s))[i] = s[p + i - 1]
<1>1. p \in Int /\ Len(s) \in Nat /\ p >= 1 /\ p <= Len(s) + 1
      /\ \A i \in 1 .. Len(s) : s[i] \in S
  OBVIOUS
<1>2. /\ SubSeq(s, 1, p - 1) \in Seq(S)
      /\ Len(SubSeq(s, 1, p - 1)) = IF 1 <= p - 1 THEN (p - 1) - 1 + 1 ELSE 0
      /\ \A i \in 1 .. (p - 1) - 1 + 1 : SubSeq(s, 1, p - 1)[i] = s[1 + i - 1]
  <2>1. p - 1 \in Int /\ 1 \in Int /\ \A i \in 1 .. p - 1 : s[i] \in S
    BY <1>1
  <2>2. QED
    BY <2>1, SubSeqProperties
<1>3. /\ SubSeq(s, p, Len(s)) \in Seq(S)
      /\ Len(SubSeq(s, p, Len(s))) = IF p <= Len(s) THEN Len(s) - p + 1 ELSE 0
      /\ \A i \in 1 .. Len(s) - p + 1 : SubSeq(s, p, Len(s))[i] = s[p + i - 1]
  <2>1. p \in Int /\ Len(s) \in Int /\ \A i \in p .. Len(s) : s[i] \in S
    BY <1>1
  <2>2. QED
    BY <2>1, SubSeqProperties
<1> DEFINE a == SubSeq(s, 1, p - 1)
           b == SubSeq(s, p, Len(s))
<1>4. /\ a \in Seq(S) /\ Len(a) = IF 1 <= p - 1 THEN (p - 1) - 1 + 1 ELSE 0
      /\ \A i \in 1 .. (p - 1) - 1 + 1 : a[i] = s[1 + i - 1]
      /\ b \in Seq(S) /\ Len(b) = IF p <= Len(s) THEN Len(s) - p + 1 ELSE 0
      /\ \A i \in 1 .. Len(s) - p + 1 : b[i] = s[p + i - 1]
  BY <1>2, <1>3
<1> HIDE DEF a, b
<1>5. /\ a \in Seq(S) /\ Len(a) = p - 1 /\ \A i \in 1 .. p - 1 : a[i] = s[i]
      /\ b \in Seq(S) /\ Len(b) = Len(s) + 1 - p
      /\ \A i \in 1 .. Len(s) + 1 - p : b[i] = s[p + i - 1]
  <2>1. (p - 1) - 1 + 1 = p - 1 /\ Len(s) - p + 1 = Len(s) + 1 - p
        /\ \A i \in Int : 1 + i - 1 = i
    BY <1>1
  <2>2. Len(a) = p - 1 /\ Len(b) = Len(s) + 1 - p
    BY <1>1, <1>4
  <2>3. QED
    BY <1>4, <2>1, <2>2
<1>6. QED
  BY <1>5 DEF a, b

LEMMA Inserted ==
  ASSUME NEW S, NEW s \in Seq(S), NEW e \in S, NEW p \in 1 .. Len(s) + 1
  PROVE  /\ InsertAt(s, p, e) \in Seq(S)
         /\ Len(InsertAt(s, p, e)) = Len(s) + 1
         /\ \A i \in 1 .. Len(s) + 1 :
              InsertAt(s, p, e)[i] = IF i < p THEN s[i] ELSE IF i = p THEN e ELSE s[i - 1]
<1> DEFINE a == SubSeq(s, 1, p - 1)
           b == SubSeq(s, p, Len(s))
<1>1. /\ a \in Seq(S) /\ Len(a) = p - 1 /\ \A i \in 1 .. p - 1 : a[i] = s[i]
      /\ b \in Seq(S) /\ Len(b) = Len(s) + 1 - p
      /\ \A i \in 1 .. Len(s) + 1 - p : b[i] = s[p + i - 1]
  BY CutProperties
<1> HIDE DEF a, b
<1>2. /\ a \o <<e>> \in Seq(S) /\ Len(a \o <<e>>) = p
      /\ \A i \in 1 .. p : (a \o <<e>>)[i] = IF i < p THEN s[i] ELSE e
  <2>1. <<e>> \in Seq(S) /\ Len(<<e>>) = 1 /\ <<e>>[1] = e
    OBVIOUS
  <2>2. p \in Int /\ p >= 1 /\ (p - 1) + 1 = p
    OBVIOUS
  <2> DEFINE single == <<e>>
  <2>3. single \in Seq(S) /\ Len(single) = 1 /\ single[1] = e
    BY <2>1
  <2> HIDE DEF single
  <2>4. /\ a \o single \in Seq(S) /\ Len(a \o single) = Len(a) + Len(single)
        /\ \A i \in 1 .. Len(a) + Len(single) :
             (a \o single)[i] = IF i <= Len(a) THEN a[i] ELSE single[i - Len(a)]
    BY <1>1, <2>3, ConcatProperties
  <2>5. Len(a) + Len(single) = p
    BY <1>1, <2>2, <2>3
  <2>6. ASSUME NEW i \in 1 .. p
        PROVE  (a \o single)[i] = IF i < p THEN s[i] ELSE e
    <3>1. (a \o single)[i] = IF i <= p - 1 THEN a[i] ELSE single[i - (p - 1)]
      BY <1>1, <2>4, <2>5
    <3>2. CASE i < p
      <4>1. i \in 1 .. p - 1
        BY <2>2, <3>2
      <4>2. QED
        BY <1>1, <3>1, <3>2, <4>1
    <3>3. CASE i = p
      <4>1. ~(i <= p - 1) /\ i - (p - 1) = 1
        BY <2>2, <3>3
      <4>2. QED
        BY <2>3, <3>1, <3>3, <4>1
    <3>4. i < p \/ i = p
      BY <2>2
    <3>5. QED
      BY <3>2, <3>3, <3>4
  <2>7. a \o single \in Seq(S) /\ Len(a \o single) = p
    BY <2>4, <2>5
  <2>8. QED
    BY <2>6, <2>7 DEF single
<1> DEFINE front == a \o <<e>>
<1>3. /\ front \in Seq(S) /\ Len(front) = p
      /\ \A i \in 1 .. p : front[i] = IF i < p THEN s[i] ELSE e
  BY <1>2
<1> HIDE DEF front
<1>4. p \in Int /\ Len(s) \in Nat /\ p >= 1 /\ p <= Len(s) + 1
  OBVIOUS
<1>5. /\ front \o b \in Seq(S) /\ Len(front \o b) = Len(s) + 1
      /\ \A i \in 1 .. Len(s) + 1 :
           (front \o b)[i] = IF i <= p THEN front[i] ELSE b[i - p]
  <2>1. Len(front) + Len(b) = Len(s) + 1
    BY <1>1, <1>3, <1>4
  <2>2. /\ front \o b \in Seq(S) /\ Len(front \o b) = Len(front) + Len(b)
        /\ \A i \in 1 .. Len(front) + Len(b) :
             (front \o b)[i] = IF i <= Len(front) THEN front[i] ELSE b[i - Len(front)]
    BY <1>1, <1>3, ConcatProperties
  <2>3. QED
    BY <1>3, <2>1, <2>2
<1>6. ASSUME NEW i \in 1 .. Len(s) + 1
      PROVE  (front \o b)[i] = IF i < p THEN s[i] ELSE IF i = p THEN e ELSE s[i - 1]
  <2>1. CASE i <= p
    <3>1. i \in 1 .. p /\ (front \o b)[i] = front[i]
      BY <1>4, <1>5, <2>1
    <3>2. front[i] = IF i < p THEN s[i] ELSE e
      BY <1>3, <3>1
    <3>3. i < p \/ i = p
      BY <1>4, <2>1
    <3>4. QED
      BY <3>1, <3>2, <3>3
  <2>2. CASE i > p
    <3>1. /\ i - p \in 1 .. Len(s) + 1 - p /\ p + (i - p) - 1 = i - 1
          /\ ~(i <= p) /\ ~(i < p) /\ i # p
      BY <1>4, <2>2
    <3>2. (front \o b)[i] = b[i - p]
      BY <1>5, <3>1
    <3>3. b[i - p] = s[p + (i - p) - 1]
      BY <1>1, <3>1
    <3>4. QED
      BY <3>1, <3>2, <3>3
  <2>3. i <= p \/ i > p
    BY <1>4
  <2>4. QED
    BY <2>1, <2>2, <2>3
<1>7. InsertAt(s, p, e) = front \o b
  BY DEF InsertAt, a, b, front
<1>8. QED
  BY <1>5, <1>6, <1>7

LEMMA Removed ==
  ASSUME NEW S, NEW s \in Seq(S), NEW p \in DOMAIN s
  PROVE  /\ RemoveAt(s, p) \in Seq(S)
         /\ Len(RemoveAt(s, p)) = Len(s) - 1
         /\ \A i \in 1 .. Len(s) - 1 : RemoveAt(s, p)[i] = IF i < p THEN s[i] ELSE s[i + 1]
<1> DEFINE a == SubSeq(s, 1, p - 1)
           b == SubSeq(s, p + 1, Len(s))
<1>1. /\ a \in Seq(S) /\ Len(a) = p - 1 /\ \A i \in 1 .. p - 1 : a[i] = s[i]
      /\ b \in Seq(S) /\ Len(b) = Len(s) - p
      /\ \A i \in 1 .. Len(s) - p : b[i] = s[p + i]
  <2>1. p \in 1 .. Len(s) + 1 /\ p + 1 \in 1 .. Len(s) + 1 /\ Len(s) \in Nat
    OBVIOUS
  <2>2. a \in Seq(S) /\ Len(a) = p - 1 /\ \A i \in 1 .. p - 1 : a[i] = s[i]
    BY <2>1, CutProperties
  <2>3. /\ b \in Seq(S) /\ Len(b) = Len(s) + 1 - (p + 1)
        /\ \A i \in 1 .. Len(s) + 1 - (p + 1) : b[i] = s[(p + 1) + i - 1]
    BY <2>1, CutProperties
  <2> HIDE DEF a, b
  <2>4. Len(s) + 1 - (p + 1) = Len(s) - p
    BY <2>1
  <2>5. ASSUME NEW i \in 1 .. Len(s) - p PROVE b[i] = s[p + i]
    <3>1. b[i] = s[(p + 1) + i - 1]
      BY <2>3, <2>4
    <3>2. (p + 1) + i - 1 = p + i
      BY <2>1
    <3>3. QED
      BY <3>1, <3>2
  <2>6. Len(b) = Len(s) - p
    BY <2>3, <2>4
  <2>7. QED
    BY <2>2, <2>3, <2>5, <2>6
<1> HIDE DEF a, b
<1>2. /\ a \o b \in Seq(S) /\ Len(a \o b) = Len(s) - 1
      /\ \A i \in 1 .. Len(s) - 1 :
           (a \o b)[i] = IF i <= p - 1 THEN a[i] ELSE b[i - (p - 1)]
  <2>1. Len(a) + Len(b) = Len(s) - 1
    BY <1>1, LenProperties
  <2>2. /\ a \o b \in Seq(S) /\ Len(a \o b) = Len(a) + Len(b)
        /\ \A i \in 1 .. Len(a) + Len(b) :
             (a \o b)[i] = IF i <= Len(a) THEN a[i] ELSE b[i - Len(a)]
    BY <1>1, ConcatProperties
  <2>3. QED
    BY <1>1, <2>1, <2>2
<1>3. RemoveAt(s, p) = a \o b
  BY DEF RemoveAt, a, b
<1>4. ASSUME NEW i \in 1 .. Len(s) - 1
      PROVE  (a \o b)[i] = IF i < p THEN s[i] ELSE s[i + 1]
  <2>1. p \in Int /\ Len(s) \in Int /\ i \in Int /\ 1 <= i /\ i <= Len(s) - 1
    BY LenProperties
  <2>2. CASE i < p
    <3>1. i \in 1 .. p - 1 /\ i <= p - 1
      BY <2>1, <2>2
    <3>2. QED
      BY <1>1, <1>2, <2>2, <3>1
  <2>3. CASE i >= p
    <3>1. /\ i - (p - 1) \in 1 .. Len(s) - p /\ p + (i - (p - 1)) = i + 1
          /\ ~(i <= p - 1) /\ ~(i < p)
      BY <2>1, <2>3
    <3>2. (a \o b)[i] = b[i - (p - 1)]
      BY <1>2, <3>1
    <3>3. b[i - (p - 1)] = s[p + (i - (p - 1))]
      BY <1>1, <3>1
    <3>4. QED
      BY <3>1, <3>2, <3>3
  <2>4. i < p \/ i >= p
    BY <2>1
  <2>5. QED
    BY <2>2, <2>3, <2>4
<1>5. /\ RemoveAt(s, p) \in Seq(S) /\ Len(RemoveAt(s, p)) = Len(s) - 1
      /\ \A i \in 1 .. Len(s) - 1 : RemoveAt(s, p)[i] = (a \o b)[i]
  BY <1>2, <1>3
<1>6. QED
  BY <1>4, <1>5

(* A row that enters moves at most one row over the cut, or is itself the  *)
(* one more ahead of it.                                                   *)
LEMMA InsertedOverCut ==
  ASSUME NEW S, NEW s \in Seq(S), NEW e \in S, NEW p \in 1 .. Len(s) + 1, NEW o \in Nat
  PROVE  /\ Behind(InsertAt(s, p, e), o) \subseteq Behind(s, o) \cup {e}
         /\ Ahead(InsertAt(s, p, e), o)
              \subseteq Ahead(s, o) \cup {IF p > o THEN e ELSE s[o]}
         /\ ToSet(InsertAt(s, p, e)) = ToSet(s) \cup {e}
         /\ NoRepetition(s) /\ e \notin ToSet(s) => NoRepetition(InsertAt(s, p, e))
<1> DEFINE t == InsertAt(s, p, e)
<1>1. /\ t \in Seq(S) /\ DOMAIN t = 1 .. Len(s) + 1 /\ DOMAIN s = 1 .. Len(s) /\ Len(s) \in Nat
      /\ \A i \in 1 .. Len(s) + 1 : t[i] = IF i < p THEN s[i] ELSE IF i = p THEN e ELSE s[i - 1]
  <2>1. Len(s) \in Nat /\ DOMAIN s = 1 .. Len(s)
    OBVIOUS
  <2>2. t \in Seq(S) /\ Len(t) = Len(s) + 1
    BY Inserted
  <2>3. \A i \in 1 .. Len(s) + 1 :
          t[i] = IF i < p THEN s[i] ELSE IF i = p THEN e ELSE s[i - 1]
    BY Inserted
  <2> HIDE DEF t
  <2>4. DOMAIN t = 1 .. Len(s) + 1
    BY <2>2
  <2>5. QED
    BY <2>1, <2>2, <2>3, <2>4
<1> HIDE DEF t
<1>2. Behind(t, o) \subseteq Behind(s, o) \cup {e}
  <2> SUFFICES ASSUME NEW i \in DOMAIN t, i <= o, t[i] # e
               PROVE  t[i] \in Behind(s, o)
    BY DEF Behind
  <2>1. CASE i < p
    BY <1>1, <2>1 DEF Behind
  <2>2. CASE i > p
    <3>1. i - 1 \in DOMAIN s /\ i - 1 <= o /\ t[i] = s[i - 1]
      BY <1>1, <2>2
    <3>2. QED
      BY <3>1 DEF Behind
  <2>3. QED
    BY <1>1, <2>1, <2>2
<1>3. Ahead(t, o) \subseteq Ahead(s, o) \cup {IF p > o THEN e ELSE s[o]}
  <2> SUFFICES ASSUME NEW i \in DOMAIN t, i > o, t[i] # IF p > o THEN e ELSE s[o]
               PROVE  t[i] \in Ahead(s, o)
    BY DEF Ahead
  <2>1. CASE i < p
    BY <1>1, <2>1 DEF Ahead
  <2>2. CASE i = p
    BY <1>1, <2>2
  <2>3. CASE i > p
    <3>1. i - 1 \in DOMAIN s /\ t[i] = s[i - 1]
      BY <1>1, <2>3
    <3>2. i - 1 > o
      BY <1>1, <2>3, <3>1
    <3>3. QED
      BY <3>1, <3>2 DEF Ahead
  <2>4. QED
    BY <1>1, <2>1, <2>2, <2>3
<1>4. ToSet(t) = ToSet(s) \cup {e}
  <2>1. ToSet(t) \subseteq ToSet(s) \cup {e}
    <3> SUFFICES ASSUME NEW i \in DOMAIN t, t[i] # e
                 PROVE  t[i] \in ToSet(s)
      BY DEF ToSet
    <3>1. CASE i < p
      BY <1>1, <3>1 DEF ToSet
    <3>2. CASE i > p
      <4>1. i - 1 \in DOMAIN s /\ t[i] = s[i - 1]
        BY <1>1, <3>2
      <4>2. QED
        BY <4>1 DEF ToSet
    <3>3. QED
      BY <1>1, <3>1, <3>2
  <2>2. e \in ToSet(t)
    BY <1>1 DEF ToSet
  <2>3. ASSUME NEW i \in DOMAIN s PROVE s[i] \in ToSet(t)
    <3>1. CASE i < p
      BY <1>1, <3>1 DEF ToSet
    <3>2. CASE i >= p
      <4>1. i + 1 \in DOMAIN t /\ t[i + 1] = s[i]
        BY <1>1, <3>2
      <4>2. QED
        BY <4>1 DEF ToSet
    <3>3. QED
      BY <1>1, <3>1, <3>2
  <2>4. QED
    BY <2>1, <2>2, <2>3 DEF ToSet
<1>5. ASSUME NoRepetition(s), e \notin ToSet(s) PROVE NoRepetition(t)
  <2> SUFFICES ASSUME NEW i \in DOMAIN t, NEW k \in DOMAIN t, t[i] = t[k]
               PROVE  i = k
    BY DEF NoRepetition
  <2>1. \A m \in DOMAIN s : s[m] # e
    BY <1>5 DEF ToSet
  <2>2. ASSUME NEW m \in DOMAIN t, m # p PROVE t[m] # e
    <3>1. CASE m < p
      <4>1. m \in DOMAIN s /\ t[m] = s[m]
        BY <1>1, <3>1
      <4>2. QED
        BY <2>1, <4>1
    <3>2. CASE m > p
      <4>1. m - 1 \in DOMAIN s /\ t[m] = s[m - 1]
        BY <1>1, <3>2
      <4>2. QED
        BY <2>1, <4>1
    <3>3. QED
      BY <1>1, <2>2, <3>1, <3>2
  <2>3. CASE t[i] = e
    BY <2>2, <2>3
  <2>4. CASE t[i] # e
    <3> DEFINE Old(m) == IF m < p THEN m ELSE m - 1
    <3>1. i # p /\ k # p
      BY <1>1, <2>4
    <3>2. /\ Old(i) \in DOMAIN s /\ Old(k) \in DOMAIN s
          /\ t[i] = s[Old(i)] /\ t[k] = s[Old(k)]
      BY <1>1, <3>1
    <3>3. Old(i) = Old(k)
      BY <1>5, <3>2 DEF NoRepetition
    <3>4. QED
      BY <1>1, <3>1, <3>3
  <2>5. QED
    BY <2>3, <2>4
<1>6. QED
  BY <1>2, <1>3, <1>4, <1>5 DEF t

(* A row that leaves moves at most one row over the cut.                   *)
LEMMA RemovedOverCut ==
  ASSUME NEW S, NEW s \in Seq(S), NEW p \in DOMAIN s, NEW o \in Nat, NoRepetition(s)
  PROVE  /\ \E x : Behind(RemoveAt(s, p), o) \subseteq Behind(s, o) \cup {x}
         /\ Ahead(RemoveAt(s, p), o) \subseteq Ahead(s, o)
         /\ ToSet(s) \ {s[p]} \subseteq ToSet(RemoveAt(s, p))
         /\ NoRepetition(RemoveAt(s, p))
<1> DEFINE t == RemoveAt(s, p)
<1>1. /\ t \in Seq(S) /\ DOMAIN t = 1 .. Len(s) - 1 /\ DOMAIN s = 1 .. Len(s) /\ Len(s) \in Nat
      /\ \A i \in 1 .. Len(s) - 1 : t[i] = IF i < p THEN s[i] ELSE s[i + 1]
  <2>1. Len(s) \in Nat /\ DOMAIN s = 1 .. Len(s)
    OBVIOUS
  <2>2. t \in Seq(S) /\ Len(t) = Len(s) - 1
    BY Removed
  <2>3. \A i \in 1 .. Len(s) - 1 : t[i] = IF i < p THEN s[i] ELSE s[i + 1]
    BY Removed
  <2> HIDE DEF t
  <2>4. DOMAIN t = 1 .. Len(s) - 1
    BY <2>2
  <2>5. QED
    BY <2>1, <2>2, <2>3, <2>4
<1> HIDE DEF t
<1>2. \E x : Behind(t, o) \subseteq Behind(s, o) \cup {x}
  <2>1. Behind(t, o) \subseteq Behind(s, o) \cup {s[o + 1]}
    <3> SUFFICES ASSUME NEW i \in DOMAIN t, i <= o, t[i] # s[o + 1]
                 PROVE  t[i] \in Behind(s, o)
      BY DEF Behind
    <3>1. CASE i < p
      BY <1>1, <3>1 DEF Behind
    <3>2. CASE i >= p
      <4>1. i + 1 \in DOMAIN s /\ t[i] = s[i + 1]
        BY <1>1, <3>2
      <4>2. i # o
        BY <4>1
      <4>3. i + 1 <= o
        BY <1>1, <4>2
      <4>4. QED
        BY <4>1, <4>3 DEF Behind
    <3>3. QED
      BY <1>1, <3>1, <3>2
  <2>2. QED
    BY <2>1
<1>3. Ahead(t, o) \subseteq Ahead(s, o)
  <2> SUFFICES ASSUME NEW i \in DOMAIN t, i > o
               PROVE  t[i] \in Ahead(s, o)
    BY DEF Ahead
  <2>1. CASE i < p
    BY <1>1, <2>1 DEF Ahead
  <2>2. CASE i >= p
    <3>1. i + 1 \in DOMAIN s /\ t[i] = s[i + 1] /\ i + 1 > o
      BY <1>1, <2>2
    <3>2. QED
      BY <3>1 DEF Ahead
  <2>3. QED
    BY <1>1, <2>1, <2>2
<1>4. ToSet(s) \ {s[p]} \subseteq ToSet(t)
  <2> SUFFICES ASSUME NEW i \in DOMAIN s, i # p
               PROVE  s[i] \in ToSet(t)
    BY DEF ToSet
  <2>1. CASE i < p
    BY <1>1, <2>1 DEF ToSet
  <2>2. CASE i > p
    <3>1. i - 1 \in DOMAIN t /\ t[i - 1] = s[i]
      BY <1>1, <2>2
    <3>2. QED
      BY <3>1 DEF ToSet
  <2>3. QED
    BY <1>1, <2>1, <2>2
<1>5. NoRepetition(t)
  <2> SUFFICES ASSUME NEW i \in DOMAIN t, NEW k \in DOMAIN t, t[i] = t[k]
               PROVE  i = k
    BY DEF NoRepetition
  <2> DEFINE Old(m) == IF m < p THEN m ELSE m + 1
  <2>1. /\ Old(i) \in DOMAIN s /\ Old(k) \in DOMAIN s
        /\ t[i] = s[Old(i)] /\ t[k] = s[Old(k)]
    BY <1>1
  <2>2. Old(i) = Old(k)
    BY <2>1 DEF NoRepetition
  <2>3. QED
    BY <1>1, <2>2
<1>6. QED
  BY <1>2, <1>3, <1>4, <1>5 DEF t

(* The rows between two cuts.                                              *)
LEMMA BetweenCuts ==
  ASSUME NEW S, NEW s \in Seq(S), NEW o \in Nat, NEW end \in Nat, o <= end, end <= Len(s),
         NoRepetition(s)
  PROVE  /\ SubSeq(s, o + 1, end) \in Seq(S)
         /\ Len(SubSeq(s, o + 1, end)) = end - o
         /\ Ahead(s, end) \subseteq Ahead(s, o)
         /\ ToSet(SubSeq(s, o + 1, end)) \subseteq Ahead(s, o)
         /\ ToSet(SubSeq(s, o + 1, end)) \cap Ahead(s, end) = {}
         /\ Behind(s, end) = Behind(s, o) \cup ToSet(SubSeq(s, o + 1, end))
<1> DEFINE items == SubSeq(s, o + 1, end)
           Between == {k \in DOMAIN s : k > o /\ k <= end}
<1>1. Len(s) \in Nat /\ DOMAIN s = 1 .. Len(s)
  BY LenProperties
<1>2. /\ items \in Seq(S) /\ Len(items) = end - o
      /\ DOMAIN items = 1 .. end - o
      /\ \A i \in 1 .. end - o : items[i] = s[o + i]
  BY <1>1, SubSeqProperties
<1> HIDE DEF items
<1>3. ToSet(items) = {s[k] : k \in Between}
  <2>1. ASSUME NEW i \in DOMAIN items PROVE items[i] \in {s[k] : k \in Between}
    <3>1. o + i \in Between /\ items[i] = s[o + i]
      BY <1>1, <1>2
    <3>2. QED
      BY <3>1
  <2>2. ASSUME NEW k \in Between PROVE s[k] \in ToSet(items)
    <3>1. k - o \in DOMAIN items /\ o + (k - o) = k
      BY <1>1, <1>2
    <3>2. QED
      BY <1>2, <3>1 DEF ToSet
  <2>3. QED
    BY <2>1, <2>2 DEF ToSet
<1>4. Ahead(s, end) \subseteq Ahead(s, o)
  BY <1>1 DEF Ahead
<1>5. ToSet(items) \subseteq Ahead(s, o)
  BY <1>3 DEF Ahead
<1>6. ToSet(items) \cap Ahead(s, end) = {}
  <2> SUFFICES ASSUME NEW k \in Between, NEW m \in DOMAIN s, m > end, s[k] = s[m]
               PROVE  FALSE
    BY <1>3 DEF Ahead
  <2>1. k = m
    BY DEF NoRepetition
  <2>2. QED
    BY <1>1, <2>1
<1>7. Behind(s, end) = Behind(s, o) \cup ToSet(items)
  <2>1. ASSUME NEW k \in DOMAIN s, k <= end PROVE k <= o \/ k \in Between
    BY <1>1, <2>1
  <2>2. Behind(s, end) \subseteq Behind(s, o) \cup ToSet(items)
    BY <1>3, <2>1 DEF Behind
  <2>3. Behind(s, o) \subseteq Behind(s, end)
    BY <1>1 DEF Behind
  <2>4. ToSet(items) \subseteq Behind(s, end)
    BY <1>3 DEF Behind
  <2>5. QED
    BY <2>2, <2>3, <2>4
<1>8. QED
  BY <1>2, <1>4, <1>5, <1>6, <1>7 DEF items

-----------------------------------------------------------------------------
(* The list *)

(* A page is what lies between its offset and the next.                    *)
LEMMA PageFacts ==
  ASSUME ListingShapes, NoRepetition(listed), NEW o \in Nat, NEW limit \in 1 .. 200
  PROVE  /\ Page(o, limit) \in Seq(Name) /\ Len(Page(o, limit)) \in Nat
         /\ Ahead(listed, o + Len(Page(o, limit))) \subseteq Ahead(listed, o)
         /\ ToSet(Page(o, limit)) \subseteq Ahead(listed, o)
         /\ ToSet(Page(o, limit)) \cap Ahead(listed, o + Len(Page(o, limit))) = {}
         /\ Behind(listed, o + Len(Page(o, limit)))
              = Behind(listed, o) \cup ToSet(Page(o, limit))
         /\ o + Len(Page(o, limit)) = o \/ o + Len(Page(o, limit)) <= Len(listed)
         /\ Len(Page(o, limit)) < limit => o + Len(Page(o, limit)) >= Len(listed)
<1>1. listed \in Seq(Name) /\ Len(listed) \in Nat
  BY LenProperties DEF ListingShapes
<1>2. CASE o <= Len(listed)
  <2>1. PICK end \in Nat :
          /\ o <= end /\ end <= Len(listed)
          /\ Page(o, limit) = SubSeq(listed, o + 1, end)
          /\ end - o < limit => end >= Len(listed)
    <3>1. CASE o + limit < Len(listed)
      <4>1. Page(o, limit) = SubSeq(listed, o + 1, o + limit)
        BY <3>1 DEF Page
      <4>2. o + limit \in Nat /\ o <= o + limit /\ o + limit <= Len(listed)
            /\ ~((o + limit) - o < limit)
        BY <1>1, <3>1
      <4>3. QED
        BY <4>1, <4>2
    <3>2. CASE ~(o + limit < Len(listed))
      <4>1. Page(o, limit) = SubSeq(listed, o + 1, Len(listed))
        BY <3>2 DEF Page
      <4>2. QED
        BY <1>1, <1>2, <4>1
    <3>3. QED
      BY <3>1, <3>2
  <2>2. /\ Page(o, limit) \in Seq(Name) /\ Len(Page(o, limit)) = end - o
        /\ Ahead(listed, end) \subseteq Ahead(listed, o)
        /\ ToSet(Page(o, limit)) \subseteq Ahead(listed, o)
        /\ ToSet(Page(o, limit)) \cap Ahead(listed, end) = {}
        /\ Behind(listed, end) = Behind(listed, o) \cup ToSet(Page(o, limit))
    BY <1>1, <2>1, BetweenCuts
  <2>3. o + Len(Page(o, limit)) = end
    BY <2>2
  <2>4. QED
    BY <1>1, <2>1, <2>2, <2>3
<1>3. CASE o > Len(listed)
  <2>1. Page(o, limit) = SubSeq(listed, o + 1, Len(listed))
    BY <1>1, <1>3 DEF Page
  <2>2. Page(o, limit) = <<>>
    BY <1>1, <1>3, <2>1
  <2>3. /\ ToSet(Page(o, limit)) = {} /\ Len(Page(o, limit)) = 0
        /\ Page(o, limit) \in Seq(Name)
    BY <2>2 DEF ToSet
  <2>4. o + Len(Page(o, limit)) = o
    BY <2>3
  <2>5. QED
    BY <1>1, <1>3, <2>3, <2>4
<1>4. QED
  BY <1>1, <1>2, <1>3

(* Whatever enters, at any place, one entry accounts for one row pushed    *)
(* over the cut or shown again.                                            *)
LEMMA EnterKeepsListingInv ==
  ASSUME ListingInv, NEW j \in Name, Enter(j)
  PROVE  ListingInv'
<1> DEFINE o == request.offset
<1>1. PICK p \in 1 .. Len(listed) + 1 : listed' = InsertAt(listed, p, j)
  BY DEF Enter
<1>2. /\ j \notin Listed /\ entered' = IF Reading THEN entered + 1 ELSE entered
      /\ UNCHANGED <<request, total, seen, repeats, stayed, left>>
  BY DEF Enter, client
<1>3. /\ listed \in Seq(Name) /\ Len(listed) \in Nat /\ o \in Nat /\ request.next \in Stage
      /\ total \in Nat /\ repeats \in Nat /\ entered \in Nat /\ left \in Nat
      /\ IsFiniteSet(seen) /\ seen \subseteq Name /\ stayed \subseteq Listed
      /\ NoRepetition(listed)
  BY LenProperties DEF ListingInv, ListingShapes
<1>4. /\ listed' \in Seq(Name) /\ Len(listed') = Len(listed) + 1
      /\ Listed' = Listed \cup {j}
      /\ NoRepetition(listed')
  BY <1>1, <1>2, <1>3, Inserted, InsertedOverCut DEF Listed
<1>5. Behind(listed', o) \subseteq Behind(listed, o) \cup {j}
  BY <1>1, <1>3, InsertedOverCut
<1>6. PICK x : Ahead(listed', o) \subseteq Ahead(listed, o) \cup {x}
  <2>1. Ahead(InsertAt(listed, p, j), o)
          \subseteq Ahead(listed, o) \cup {IF p > o THEN j ELSE listed[o]}
    BY <1>3, InsertedOverCut
  <2>2. QED
    BY <1>1, <2>1
<1> HIDE DEF o
<1>7. ListingShapes'
  BY <1>2, <1>3, <1>4 DEF ListingInv, ListingShapes, Stage
<1>8. ReadingInv'
  <2> SUFFICES ASSUME Reading
               PROVE  /\ repeats + Cardinality(Ahead(listed', o) \cap seen) <= entered + 1
                      /\ Cardinality((Behind(listed', o) \cap stayed) \ seen) <= left
                      /\ o <= Len(listed') + left
    BY <1>2 DEF ReadingInv, Reading, o
  <2>1. /\ repeats + Cardinality(Ahead(listed, o) \cap seen) <= entered
        /\ Cardinality((Behind(listed, o) \cap stayed) \ seen) <= left
        /\ o <= Len(listed) + left
    BY DEF ListingInv, ReadingInv, o
  <2>2. Ahead(listed', o) \cap seen \subseteq (Ahead(listed, o) \cap seen) \cup {x}
    BY <1>6
  <2>3. IsFiniteSet(Ahead(listed, o) \cap seen)
    BY <1>3, FS_Subset
  <2>4. /\ Cardinality(Ahead(listed', o) \cap seen) <= Cardinality(Ahead(listed, o) \cap seen) + 1
        /\ Cardinality(Ahead(listed', o) \cap seen) \in Nat
        /\ Cardinality(Ahead(listed, o) \cap seen) \in Nat
    BY <2>2, <2>3, OneMore
  <2>5. (Behind(listed', o) \cap stayed) \ seen \subseteq (Behind(listed, o) \cap stayed) \ seen
    BY <1>2, <1>3, <1>5
  <2>6. IsFiniteSet((Behind(listed, o) \cap stayed) \ seen)
    <3>1. IsFiniteSet(Behind(listed, o))
      BY <1>3, CutsAreFinite DEF o
    <3>2. QED
      BY <3>1, FS_Subset
  <2>7. /\ Cardinality((Behind(listed', o) \cap stayed) \ seen)
             <= Cardinality((Behind(listed, o) \cap stayed) \ seen)
        /\ Cardinality((Behind(listed', o) \cap stayed) \ seen) \in Nat
        /\ Cardinality((Behind(listed, o) \cap stayed) \ seen) \in Nat
    <3> DEFINE T == (Behind(listed, o) \cap stayed) \ seen
               U == (Behind(listed', o) \cap stayed) \ seen
    <3>1. IsFiniteSet(T) /\ U \subseteq T
      BY <2>5, <2>6
    <3> HIDE DEF T, U
    <3>2. Cardinality(U) <= Cardinality(T) /\ Cardinality(U) \in Nat /\ Cardinality(T) \in Nat
      BY <3>1, NoMore
    <3>3. QED
      BY <3>2 DEF T, U
  <2>8. o \in Nat
    BY <1>3 DEF o
  <2>9. repeats + Cardinality(Ahead(listed', o) \cap seen) <= entered + 1
    BY <1>3, <2>1, <2>4
  <2>10. Cardinality((Behind(listed', o) \cap stayed) \ seen) <= left
    BY <1>3, <2>1, <2>7
  <2>11. o <= Len(listed') + left
    BY <1>3, <1>4, <2>1, <2>8
  <2>12. QED
    BY <2>9, <2>10, <2>11
<1>9. CountInv'
  BY <1>2, <1>3, <1>4 DEF ListingInv, CountInv, Reading
<1>10. PagingDrift'
  BY <1>2, <1>3 DEF ListingInv, PagingDrift, Reading
<1>11. (request.next = "begin" =>
         request.offset = 0 /\ total = 0 /\ repeats = 0 /\ seen = {} /\ entered = 0 /\ left = 0)'
  BY <1>2 DEF ListingInv, Reading
<1>12. QED
  BY <1>4, <1>7, <1>8, <1>9, <1>10, <1>11 DEF ListingInv

(* Whatever leaves, one departure accounts for one row that is passed over.*)
LEMMA LeaveKeepsListingInv ==
  ASSUME ListingInv, NEW j, Leave(j)
  PROVE  ListingInv'
<1> DEFINE o == request.offset
<1>1. PICK p \in DOMAIN listed : listed[p] = j /\ listed' = RemoveAt(listed, p)
  BY DEF Leave
<1>2. /\ stayed' = stayed \ {j} /\ left' = IF Reading THEN left + 1 ELSE left
      /\ UNCHANGED <<request, total, seen, repeats, entered>>
  BY DEF Leave, client
<1>3. /\ listed \in Seq(Name) /\ Len(listed) \in Nat /\ o \in Nat /\ request.next \in Stage
      /\ total \in Nat /\ repeats \in Nat /\ entered \in Nat /\ left \in Nat
      /\ IsFiniteSet(seen) /\ seen \subseteq Name /\ stayed \subseteq Listed
      /\ NoRepetition(listed)
  BY LenProperties DEF ListingInv, ListingShapes
<1>4. /\ listed' \in Seq(Name) /\ Len(listed') = Len(listed) - 1 /\ Len(listed') \in Nat
      /\ Listed \ {j} \subseteq Listed'
      /\ NoRepetition(listed')
  <2>1. /\ RemoveAt(listed, p) \in Seq(Name) /\ Len(RemoveAt(listed, p)) = Len(listed) - 1
    BY <1>3, Removed
  <2>2. /\ ToSet(listed) \ {listed[p]} \subseteq ToSet(RemoveAt(listed, p))
        /\ NoRepetition(RemoveAt(listed, p))
    BY <1>3, RemovedOverCut
  <2>3. QED
    BY <1>1, <2>1, <2>2, LenProperties DEF Listed
<1>5. PICK x : Behind(listed', o) \subseteq Behind(listed, o) \cup {x}
  BY <1>1, <1>3, RemovedOverCut
<1>6. Ahead(listed', o) \subseteq Ahead(listed, o)
  BY <1>1, <1>3, RemovedOverCut
<1> HIDE DEF o
<1>7. ListingShapes'
  BY <1>2, <1>3, <1>4 DEF ListingInv, ListingShapes, Stage
<1>8. ReadingInv'
  <2> SUFFICES ASSUME Reading
               PROVE  /\ repeats + Cardinality(Ahead(listed', o) \cap seen) <= entered
                      /\ Cardinality((Behind(listed', o) \cap (stayed \ {j})) \ seen) <= left + 1
                      /\ o <= Len(listed') + (left + 1)
    BY <1>2 DEF ReadingInv, Reading, o
  <2>1. /\ repeats + Cardinality(Ahead(listed, o) \cap seen) <= entered
        /\ Cardinality((Behind(listed, o) \cap stayed) \ seen) <= left
        /\ o <= Len(listed) + left
    BY DEF ListingInv, ReadingInv, o
  <2>2. Ahead(listed', o) \cap seen \subseteq Ahead(listed, o) \cap seen
    BY <1>6
  <2>3. IsFiniteSet(Ahead(listed, o) \cap seen)
    BY <1>3, FS_Subset
  <2>4. /\ Cardinality(Ahead(listed', o) \cap seen) <= Cardinality(Ahead(listed, o) \cap seen)
        /\ Cardinality(Ahead(listed', o) \cap seen) \in Nat
        /\ Cardinality(Ahead(listed, o) \cap seen) \in Nat
    BY <2>2, <2>3, NoMore
  <2>5. (Behind(listed', o) \cap (stayed \ {j})) \ seen
          \subseteq ((Behind(listed, o) \cap stayed) \ seen) \cup {x}
    BY <1>5
  <2>6. IsFiniteSet((Behind(listed, o) \cap stayed) \ seen)
    <3>1. IsFiniteSet(Behind(listed, o))
      BY <1>3, CutsAreFinite DEF o
    <3>2. QED
      BY <3>1, FS_Subset
  <2>7. /\ Cardinality((Behind(listed', o) \cap (stayed \ {j})) \ seen)
             <= Cardinality((Behind(listed, o) \cap stayed) \ seen) + 1
        /\ Cardinality((Behind(listed', o) \cap (stayed \ {j})) \ seen) \in Nat
        /\ Cardinality((Behind(listed, o) \cap stayed) \ seen) \in Nat
    <3> DEFINE T == (Behind(listed, o) \cap stayed) \ seen
               U == (Behind(listed', o) \cap (stayed \ {j})) \ seen
    <3>1. IsFiniteSet(T) /\ U \subseteq T \cup {x}
      BY <2>5, <2>6
    <3> HIDE DEF T, U
    <3>2. Cardinality(U) <= Cardinality(T) + 1 /\ Cardinality(U) \in Nat /\ Cardinality(T) \in Nat
      BY <3>1, OneMore
    <3>3. QED
      BY <3>2 DEF T, U
  <2>8. o \in Nat
    BY <1>3 DEF o
  <2>9. repeats + Cardinality(Ahead(listed', o) \cap seen) <= entered
    BY <1>3, <2>1, <2>4
  <2>10. Cardinality((Behind(listed', o) \cap (stayed \ {j})) \ seen) <= left + 1
    BY <1>3, <2>1, <2>7
  <2>11. o <= Len(listed') + (left + 1)
    BY <1>3, <1>4, <2>1, <2>8
  <2>12. QED
    BY <2>9, <2>10, <2>11
<1>9. CountInv'
  BY <1>2, <1>3, <1>4 DEF ListingInv, CountInv, Reading
<1>10. PagingDrift'
  <2>1. repeats <= entered
    BY DEF ListingInv, PagingDrift
  <2>2. ASSUME request.next = "done"
        PROVE  /\ Cardinality((stayed \ {j}) \ seen) <= left
               /\ total <= request.offset + left
               /\ request.offset <= total + entered + left
    <3>1. /\ Cardinality(stayed \ seen) <= left
          /\ total <= request.offset + left
          /\ request.offset <= total + entered + left
      BY <2>2 DEF ListingInv, PagingDrift
    <3>2. IsFiniteSet(stayed \ seen)
      BY <1>3, CutsAreFinite, FS_Subset DEF Listed
    <3>3. /\ Cardinality((stayed \ {j}) \ seen) <= Cardinality(stayed \ seen)
          /\ Cardinality((stayed \ {j}) \ seen) \in Nat /\ Cardinality(stayed \ seen) \in Nat
      BY <3>2, NoMore
    <3>4. QED
      BY <1>3, <3>1, <3>3
  <2>3. request.next = "done" => left' = left
    BY <1>2 DEF Reading
  <2>4. QED
    BY <1>2, <2>1, <2>2, <2>3 DEF PagingDrift
<1>11. (request.next = "begin" =>
         request.offset = 0 /\ total = 0 /\ repeats = 0 /\ seen = {} /\ entered = 0 /\ left = 0)'
  BY <1>2 DEF ListingInv, Reading
<1>12. QED
  BY <1>4, <1>7, <1>8, <1>9, <1>10, <1>11 DEF ListingInv

(* A page shows what was ahead of its offset; the rows of it that had been *)
(* shown before go from one side of the count to the other.                *)
LEMMA ReadPageKeepsListingInv ==
  ASSUME ListingInv, ReadPage
  PROVE  ListingInv'
<1> DEFINE o     == request.offset
           items == Page(request.offset, request.limit)
           next  == o + Len(items)
<1>1. /\ request.next = "page" /\ seen' = seen \cup ToSet(items)
      /\ repeats' = repeats + Cardinality(ToSet(items) \cap seen)
      /\ request' = IF Len(items) < request.limit
                      THEN [request EXCEPT !.next = "done", !.offset = @ + Len(items)]
                      ELSE [request EXCEPT !.next = "count", !.offset = @ + Len(items)]
      /\ UNCHANGED <<listed, total, stayed, entered, left>>
  BY DEF ReadPage
<1>2. /\ listed \in Seq(Name) /\ Len(listed) \in Nat /\ o \in Nat /\ request.limit \in 1 .. 200
      /\ request \in [next : Stage, limit : 1 .. 200, offset : Nat]
      /\ total \in Nat /\ repeats \in Nat /\ entered \in Nat /\ left \in Nat
      /\ IsFiniteSet(seen) /\ seen \subseteq Name /\ stayed \subseteq Listed
      /\ NoRepetition(listed)
  BY LenProperties DEF ListingInv, ListingShapes
<1>3. /\ items \in Seq(Name) /\ Len(items) \in Nat
      /\ Ahead(listed, next) \subseteq Ahead(listed, o)
      /\ ToSet(items) \subseteq Ahead(listed, o)
      /\ ToSet(items) \cap Ahead(listed, next) = {}
      /\ Behind(listed, next) = Behind(listed, o) \cup ToSet(items)
      /\ next = o \/ next <= Len(listed)
      /\ Len(items) < request.limit => next >= Len(listed)
  <2>1. ListingShapes /\ NoRepetition(listed) /\ o \in Nat /\ request.limit \in 1 .. 200
    BY <1>2 DEF ListingInv
  <2>2. QED
    BY <2>1, PageFacts
<1>4. /\ IsFiniteSet(Ahead(listed, o)) /\ IsFiniteSet(Behind(listed, o))
      /\ IsFiniteSet(ToSet(items)) /\ ToSet(items) \subseteq Name
  BY <1>2, <1>3, CutsAreFinite
<1> HIDE DEF items
<1>5. /\ request' \in [next : Stage, limit : 1 .. 200, offset : Nat]
      /\ request'.offset = next
      /\ request'.next = IF Len(items) < request.limit THEN "done" ELSE "count"
  <2>1. next \in Nat
    BY <1>2, <1>3
  <2>2. request.offset + Len(items) = next
    OBVIOUS
  <2> HIDE DEF next
  <2>3. CASE Len(items) < request.limit
    BY <1>1, <1>2, <2>1, <2>2, <2>3 DEF Stage
  <2>4. CASE ~(Len(items) < request.limit)
    BY <1>1, <1>2, <2>1, <2>2, <2>4 DEF Stage
  <2>5. QED
    BY <2>3, <2>4
<1>6. next \in Nat
  BY <1>2, <1>3
<1> HIDE DEF o, next
<1>7. /\ repeats + Cardinality(Ahead(listed, o) \cap seen) <= entered
      /\ Cardinality((Behind(listed, o) \cap stayed) \ seen) <= left
      /\ o <= Len(listed) + left
      /\ total <= Len(listed) + left /\ Len(listed) <= total + entered
  BY <1>1 DEF ListingInv, ReadingInv, Reading, CountInv, o
<1>8. /\ repeats' + Cardinality(Ahead(listed, next) \cap seen') <= entered
      /\ repeats' \in Nat
  <2> DEFINE P == ToSet(items) \cap seen
             A == Ahead(listed, next) \cap seen
             W == Ahead(listed, o) \cap seen
  <2>1. Ahead(listed, next) \cap seen' = A
    BY <1>1, <1>3
  <2>2. P \cup A \subseteq W /\ P \cap A = {}
    BY <1>3
  <2>3. IsFiniteSet(W) /\ IsFiniteSet(P) /\ IsFiniteSet(A)
    BY <1>2, FS_Subset
  <2>4. repeats' = repeats + Cardinality(P) /\ repeats + Cardinality(W) <= entered
    BY <1>1, <1>7
  <2> HIDE DEF P, A, W
  <2>5. /\ Cardinality(P \cup A) = Cardinality(P) + Cardinality(A) - Cardinality(P \cap A)
        /\ IsFiniteSet(P \cup A)
    BY <2>3, FS_Union
  <2>6. Cardinality(P \cap A) = 0
    BY <2>2, FS_EmptySet
  <2>7. /\ Cardinality(P \cup A) <= Cardinality(W)
        /\ Cardinality(P \cup A) \in Nat /\ Cardinality(W) \in Nat
    BY <2>2, <2>3, NoMore
  <2>8. Cardinality(P) \in Nat /\ Cardinality(A) \in Nat
    BY <2>3, FS_CardinalityType
  <2>9. /\ repeats' + Cardinality(A) <= entered
        /\ repeats' \in Nat
    BY <1>2, <2>4, <2>5, <2>6, <2>7, <2>8
  <2>10. QED
    BY <2>1, <2>9
<1>9. /\ Cardinality((Behind(listed, next) \cap stayed) \ seen') <= left
      /\ next <= Len(listed) + left
  <2>1. (Behind(listed, next) \cap stayed) \ seen' \subseteq (Behind(listed, o) \cap stayed) \ seen
    BY <1>1, <1>3
  <2>2. IsFiniteSet((Behind(listed, o) \cap stayed) \ seen)
    BY <1>4, FS_Subset
  <2>3. /\ Cardinality((Behind(listed, next) \cap stayed) \ seen')
             <= Cardinality((Behind(listed, o) \cap stayed) \ seen)
        /\ Cardinality((Behind(listed, next) \cap stayed) \ seen') \in Nat
        /\ Cardinality((Behind(listed, o) \cap stayed) \ seen) \in Nat
    BY <2>1, <2>2, NoMore
  <2>4. next <= Len(listed) + left
    BY <1>2, <1>3, <1>6, <1>7
  <2>5. QED
    BY <1>2, <1>7, <2>3, <2>4
<1>10. ListingShapes'
  <2>1. IsFiniteSet(seen') /\ seen' \subseteq Name
    BY <1>1, <1>2, <1>4, FS_Union
  <2>2. QED
    BY <1>1, <1>2, <1>5, <1>8, <2>1 DEF ListingInv, ListingShapes, Listed
<1>11. ReadingInv'
  BY <1>1, <1>5, <1>8, <1>9 DEF ReadingInv
<1>12. PagingDrift'
  <2>1. repeats' <= entered'
    <3>1. IsFiniteSet(Ahead(listed, next) \cap seen')
      BY <1>3, <1>4, FS_Subset
    <3>2. Cardinality(Ahead(listed, next) \cap seen') \in Nat
      BY <3>1, FS_CardinalityType
    <3>3. QED
      BY <1>1, <1>2, <1>8, <3>2
  <2>2. ASSUME request'.next = "done"
        PROVE  /\ Cardinality(stayed \ seen') <= left
               /\ total <= next + left
               /\ next <= total + entered + left
    <3>1. next >= Len(listed)
      BY <1>3, <1>5, <2>2
    <3>2. Ahead(listed, next) = {}
      BY <1>2, <1>6, <3>1, LenProperties DEF Ahead
    <3>3. Behind(listed, next) = Listed
      <4>1. Behind(listed, next) \cup Ahead(listed, next) = ToSet(listed)
        BY <1>2, <1>6, CutsAreFinite
      <4>2. QED
        BY <3>2, <4>1 DEF Listed
    <3>4. stayed \ seen' = (Behind(listed, next) \cap stayed) \ seen'
      BY <1>2, <3>3
    <3>5. Cardinality(stayed \ seen') <= left
      BY <1>9, <3>4
    <3>6. total <= next + left /\ next <= total + entered + left
      BY <1>2, <1>6, <1>7, <1>9, <3>1
    <3>7. QED
      BY <3>5, <3>6
  <2>3. QED
    BY <1>1, <1>5, <2>1, <2>2 DEF PagingDrift
<1>13. CountInv' /\ request'.next # "begin" /\ NoRepetition(listed')
  BY <1>1, <1>2, <1>5 DEF CountInv
<1>14. QED
  BY <1>10, <1>11, <1>12, <1>13 DEF ListingInv

LEMMA BeginReadingKeepsListingInv ==
  ASSUME ListingInv, BeginReading
  PROVE  ListingInv'
<1>1. PICK limit \in Limits : request' = [next |-> "count", limit |-> limit, offset |-> 0]
  BY DEF BeginReading
<1>2. /\ stayed' = Listed /\ UNCHANGED <<listed, total, seen, repeats, entered, left>>
      /\ repeats = 0 /\ seen = {} /\ entered = 0 /\ left = 0 /\ total = 0
  BY DEF BeginReading, ListingInv
<1>3. listed \in Seq(Name) /\ Len(listed) \in Nat /\ DOMAIN listed = 1 .. Len(listed)
  BY LenProperties DEF ListingInv, ListingShapes
<1>4. ListingShapes'
  BY <1>1, <1>2, <1>3, LimitsAssumption DEF ListingInv, ListingShapes, Listed, Stage
<1>5. ReadingInv'
  <2>1. Behind(listed, 0) = {}
    BY <1>3 DEF Behind
  <2>2. Ahead(listed, 0) \cap seen = {} /\ (Behind(listed, 0) \cap stayed') \ seen = {}
    BY <1>2, <2>1
  <2>3. /\ 0 + Cardinality(Ahead(listed, 0) \cap seen) <= 0
        /\ Cardinality((Behind(listed, 0) \cap stayed') \ seen) <= 0
    BY <2>2, FS_EmptySet
  <2>4. request'.offset = 0
    BY <1>1
  <2>5. QED
    BY <1>2, <1>3, <2>3, <2>4 DEF ReadingInv
<1>6. PagingDrift' /\ CountInv'
  BY <1>1, <1>2 DEF PagingDrift, CountInv
<1>7. QED
  BY <1>1, <1>2, <1>4, <1>5, <1>6 DEF ListingInv

LEMMA CountRowsKeepsListingInv ==
  ASSUME ListingInv, CountRows
  PROVE  ListingInv'
<1>1. /\ request.next = "count" /\ total' = Len(listed)
      /\ request' = [request EXCEPT !.next = "page"]
      /\ UNCHANGED <<listed, seen, repeats, stayed, entered, left>>
  BY DEF CountRows
<1>2. /\ Len(listed) \in Nat /\ entered \in Nat /\ left \in Nat
      /\ request \in [next : Stage, limit : 1 .. 200, offset : Nat]
  BY LenProperties DEF ListingInv, ListingShapes
<1>3. /\ request' \in [next : Stage, limit : 1 .. 200, offset : Nat]
      /\ request'.next = "page" /\ request'.offset = request.offset
  BY <1>1, <1>2 DEF Stage
<1>4. ListingShapes'
  BY <1>1, <1>2, <1>3 DEF ListingInv, ListingShapes, Listed
<1>5. ReadingInv' /\ CountInv' /\ PagingDrift'
  BY <1>1, <1>2, <1>3 DEF ListingInv, ReadingInv, Reading, CountInv, PagingDrift
<1>6. QED
  BY <1>1, <1>3, <1>4, <1>5 DEF ListingInv

-----------------------------------------------------------------------------
(* The theorems *)

LEMMA InitListingInv == ListingInit => ListingInv
<1> SUFFICES ASSUME ListingInit PROVE ListingInv
  OBVIOUS
<1>1. /\ listed = <<>> \/ listed = <<Followed>>
      /\ request = [next |-> "begin", limit |-> 1, offset |-> 0]
      /\ total = 0 /\ seen = {} /\ repeats = 0 /\ stayed = {} /\ entered = 0 /\ left = 0
  BY DEF ListingInit
<1>2. listed \in Seq(Name) /\ NoRepetition(listed)
  <2>1. CASE listed = <<>>
    BY <2>1 DEF NoRepetition
  <2>2. CASE listed = <<Followed>>
    <3>1. Followed \in Name
      BY DEF Name
    <3>2. <<Followed>> \in Seq(Name) /\ DOMAIN <<Followed>> = 1 .. 1
      BY <3>1
    <3>3. QED
      BY <2>2, <3>2 DEF NoRepetition
  <2>3. QED
    BY <1>1, <2>1, <2>2
<1>3. ListingShapes
  BY <1>1, <1>2, FS_EmptySet DEF ListingShapes, Stage
<1>4. QED
  BY <1>1, <1>2, <1>3 DEF ListingInv, ReadingInv, Reading, CountInv, PagingDrift

LEMMA NextListingInv == ListingInv /\ [ListingNext]_<<job, listing>> => ListingInv'
<1> SUFFICES ASSUME ListingInv, [ListingNext]_<<job, listing>> PROVE ListingInv'
  OBVIOUS
<1>1. CASE FollowedCall
  <2>1. Followed \in Name
    BY DEF Name
  <2>2. Enter(Followed) \/ Leave(Followed) \/ UNCHANGED listing
    BY <1>1 DEF FollowedCall
  <2>3. CASE UNCHANGED listing
    BY <2>3 DEF listing, ListingInv, ListingShapes, Listed, ReadingInv, Reading, CountInv,
                PagingDrift
  <2>4. QED
    BY <2>1, <2>2, <2>3, EnterKeepsListingInv, LeaveKeepsListingInv
<1>2. CASE OtherCall
  <2>1. PICK j \in Others : Enter(j) \/ Leave(j)
    BY <1>2 DEF OtherCall
  <2>2. j \in Name
    BY DEF Name
  <2>3. QED
    BY <2>1, <2>2, EnterKeepsListingInv, LeaveKeepsListingInv
<1>3. CASE BeginReading
  BY <1>3, BeginReadingKeepsListingInv
<1>4. CASE CountRows
  BY <1>4, CountRowsKeepsListingInv
<1>5. CASE ReadPage
  BY <1>5, ReadPageKeepsListingInv
<1>6. CASE UNCHANGED <<job, listing>>
  BY <1>6 DEF listing, ListingInv, ListingShapes, Listed, ReadingInv, Reading, CountInv,
              PagingDrift
<1>7. QED
  BY <1>1, <1>2, <1>3, <1>4, <1>5, <1>6 DEF ListingNext

(* However many jobs come and go between the pages, a client that reads by *)
(* offset passes over one at most for each that has left, is shown one     *)
(* again at most for each that has entered, and is told a total that is    *)
(* off by no more (list_jobs, processing_job_repository.py:97-123).        *)
THEOREM PagingDriftHolds == ListingSpec => []PagingDrift
<1>1. ListingInv => PagingDrift
  BY DEF ListingInv
<1>2. QED
  BY <1>1, InitListingInv, NextListingInv, PTL DEF ListingSpec

(* The followed job is a job like any other: reading the list does not     *)
(* touch it, and its fields agree with its status (jobs.py:81-146).        *)
THEOREM ConsistentWhileListed == ListingSpec => []EntityConsistent
<1>1. ListingInit => EntityInit
  BY DEF ListingInit
<1>2. [ListingNext]_<<job, listing>> => [EntityNext]_job
  BY DEF ListingNext, FollowedCall, OtherCall, BeginReading, CountRows, ReadPage
<1>3. ListingSpec => EntitySpec
  BY <1>1, <1>2, PTL DEF ListingSpec, EntitySpec
<1>4. QED
  BY <1>3, AlwaysConsistent, PTL
=============================================================================
