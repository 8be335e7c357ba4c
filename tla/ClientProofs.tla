--------------------------- MODULE ClientProofs ---------------------------
(***************************************************************************)
(* Theorems about the clients in the mail servers.                         *)
(*                                                                         *)
(* First, the buffer in which smc keeps the sender of a message            *)
(* (Milter.tla): a sender at least as long as every one before it on the   *)
(* connection is asked about as it was given, for buffers of any size and  *)
(* any senders.  Behind the string in the buffer lies what earlier, longer *)
(* senders left there; the invariant says how far it may reach: no letter  *)
(* lies at or beyond the length of the longest sender.                     *)
(*                                                                         *)
(* Then the exchange with gld (MailClient.tla), for any number of threads, *)
(* questions and doubled datagrams: answers are off only once a question   *)
(* was disturbed, and nobody is refused but by gld.  The invariant counts  *)
(* the datagrams: as long as nothing up to a question was disturbed, there *)
(* is at most one of it on the wire, and a thread is waiting for it.       *)
(***************************************************************************)
EXTENDS Milter, MailClient, OrderedArrayProofs, FiniteSetTheorems, TLAPS

Buffer(b)          == b \in [Cells -> Nat] /\ b[Capacity - 1] = NUL
NoLetterFrom(b, n) == \A i \in Cells : i >= n => b[i] \notin Letter
Fits(s)            == Len(s) + 2 < Capacity

IInv ==
  /\ MilterTypeOK
  /\ NoLetterFrom(sender, longest)
  /\ Len(given) = longest /\ Fits(given) => Text(sender) = given
  /\ asked \subseteq {Text(sender)}

(* the cells of the string b that Strip() keeps *)
Kept(b) == {i \in 0 .. End(b) - 1 : b[i] \notin Bracket}
-----------------------------------------------------------------------------
(* the size of an interval *)
LEMMA IntervalSize ==
  ASSUME NEW a \in Int, NEW z \in Int, z >= a - 1
  PROVE  IsFiniteSet(a .. z) /\ Cardinality(a .. z) = z - a + 1
  <1>1. IsFiniteSet(a .. z) /\ Cardinality(a .. z) = IF a > z THEN 0 ELSE z - a + 1
    BY FS_Interval
  <1> QED
    BY <1>1

(* numbers from a on are the members of an interval in their order *)
LEMMA NthOfInterval ==
  ASSUME NEW a \in Nat, NEW n \in Nat, NEW r \in 0 .. n-1
  PROVE  Nth(a .. a+n-1, r) = a + r
  <1> DEFINE S == a .. a+n-1
  <1>1. IsFiniteSet(S) /\ S \in SUBSET Int /\ a + r \in S
    BY FS_Interval
  <1>2. {y \in S : y < a + r} = a .. a+r-1
    OBVIOUS
  <1>3. Cardinality(a .. a+r-1) = r
    BY FS_Interval
  <1>4. Rank(S, a + r) = r
    BY <1>2, <1>3 DEF Rank
  <1> QED
    BY <1>1, <1>4, NthOfRank

(* a buffer whose last cell is NUL holds a string *)
LEMMA EndIsFirst ==
  ASSUME MilterConstants, NEW b, Buffer(b)
  PROVE  End(b) \in Cells /\ b[End(b)] = NUL /\ \A j \in Cells : j < End(b) => b[j] # NUL
  <1> DEFINE S == {i \in Cells : b[i] = NUL}
  <1>1. Capacity - 1 \in S /\ S \in SUBSET Int
    BY DEF MilterConstants, Cells, Buffer
  <1>2. IsFiniteSet(S)
    <2>1. Capacity - 1 \in Int
      BY DEF MilterConstants
    <2>2. IsFiniteSet(Cells)
      BY <2>1, FS_Interval DEF Cells
    <2> QED
      BY <2>2, FS_Subset, S \in SUBSET Cells
  <1>3. PICK i \in S : \A j \in S : i <= j
    BY <1>1, <1>2, FirstAndLastMember
  <1>4. \A j \in Cells : j < i => b[j] # NUL
    BY <1>3 DEF Cells, MilterConstants
  <1> QED
    BY <1>3, <1>4 DEF End

(* and ends at no other cell *)
LEMMA EndUnique ==
  ASSUME MilterConstants, NEW b, Buffer(b), NEW e \in Cells, b[e] = NUL,
         \A j \in Cells : j < e => b[j] # NUL
  PROVE  End(b) = e
  <1>1. End(b) \in Cells /\ b[End(b)] = NUL /\ \A j \in Cells : j < End(b) => b[j] # NUL
    BY EndIsFirst
  <1> QED
    BY <1>1 DEF Cells, MilterConstants
LEMMA KeptFinite ==
  ASSUME MilterConstants, NEW b, Buffer(b)
  PROVE  IsFiniteSet(Kept(b)) /\ Kept(b) \in SUBSET (0 .. End(b) - 1)
  <1>1. End(b) - 1 \in Int
    BY EndIsFirst DEF Cells, MilterConstants
  <1>2. IsFiniteSet(0 .. End(b) - 1) /\ Kept(b) \in SUBSET (0 .. End(b) - 1)
    BY <1>1, FS_Interval DEF Kept
  <1> QED
    BY <1>2, FS_Subset
-----------------------------------------------------------------------------
(***************************************************************************)
(* What remove_char() leaves: the characters it keeps, a NUL, and the old  *)
(* contents behind it.                                                     *)
(***************************************************************************)
LEMMA StripKeeps ==
  ASSUME MilterConstants, NEW b, Buffer(b), NEW n, n = Cardinality(Kept(b))
  PROVE  /\ n \in 0 .. End(b) /\ n \in Cells
         /\ \A i \in 0 .. n-1 : Nth(Kept(b), i) \in Kept(b) /\ Strip(b)[i] = b[Nth(Kept(b), i)]
         /\ Strip(b)[n] = NUL
         /\ \A i \in Cells : i > n => Strip(b)[i] = b[i]
         /\ Buffer(Strip(b)) /\ End(Strip(b)) = n
  <1>1. End(b) \in Cells /\ b[End(b)] = NUL /\ \A j \in Cells : j < End(b) => b[j] # NUL
    BY EndIsFirst
  <1>2. Capacity \in Nat /\ Capacity > 0 /\ End(b) \in Nat /\ End(b) < Capacity
    BY <1>1 DEF MilterConstants, Cells
  <1>3. IsFiniteSet(0 .. End(b) - 1) /\ Cardinality(0 .. End(b) - 1) = End(b)
    <2>1. End(b) - 1 \in Int /\ End(b) - 1 >= 0 - 1
      BY <1>2
    <2>2. IsFiniteSet(0 .. End(b) - 1) /\ Cardinality(0 .. End(b) - 1) = (End(b) - 1) - 0 + 1
      BY <2>1, IntervalSize
    <2> QED
      BY <1>2, <2>2
  <1>4. IsFiniteSet(Kept(b)) /\ n <= End(b) /\ n \in Nat /\ Kept(b) \in SUBSET Int
    BY <1>3, KeptFinite, FS_Subset, FS_CardinalityType DEF Kept
  <1>5. n \in 0 .. End(b) /\ n \in Cells
    BY <1>2, <1>4 DEF Cells
  <1>6. \A i \in 0 .. n-1 : Nth(Kept(b), i) \in Kept(b)
    BY <1>4, NthMember
  <1>7. Strip(b) = [i \in Cells |-> IF i < n THEN b[Nth(Kept(b), i)] ELSE IF i = n THEN NUL ELSE b[i]]
    BY DEF Strip, Kept
  <1>8. \A i \in 0 .. n-1 : i \in Cells
    BY <1>2, <1>4, <1>5 DEF Cells
  <1>9. /\ \A i \in 0 .. n-1 : Strip(b)[i] = b[Nth(Kept(b), i)]
        /\ Strip(b)[n] = NUL
        /\ \A i \in Cells : i > n => Strip(b)[i] = b[i]
    BY <1>4, <1>5, <1>7, <1>8 DEF Cells
  <1>10. \A i \in 0 .. n-1 : Strip(b)[i] \in Nat /\ Strip(b)[i] # NUL
    BY <1>1, <1>2, <1>6, <1>9 DEF Kept, Buffer, Cells
  <1>11. Buffer(Strip(b))
    <2>1. ASSUME NEW i \in Cells PROVE Strip(b)[i] \in Nat
      <3>1. i \in 0 .. n-1 \/ i = n \/ i > n
        BY <1>4 DEF Cells
      <3> QED
        BY <3>1, <1>9, <1>10 DEF Buffer, NUL
    <2>2. Strip(b)[Capacity - 1] = NUL
      BY <1>2, <1>4, <1>5, <1>9 DEF Cells, Buffer
    <2> QED
      BY <1>7, <2>1, <2>2 DEF Buffer
  <1>12. End(Strip(b)) = n
    BY <1>4, <1>5, <1>9, <1>10, <1>11, EndUnique DEF Cells
  <1> QED
    BY <1>5, <1>6, <1>9, <1>11, <1>12
-----------------------------------------------------------------------------
(***************************************************************************)
(* A sender as it is handed over: its letters, from cell o on, and a       *)
(* bracket on either side of them or none.                                 *)
(***************************************************************************)
Shaped(text, s, o) ==
  /\ o \in {0, 1} /\ text \in Seq(Nat) /\ Len(text) = Len(s) + 2*o
  /\ \A j \in 1 .. Len(s) : text[j+o] = s[j]
  /\ o = 1 => text[1] \in Bracket /\ text[Len(s) + 2] \in Bracket

LEMMA HandedShape ==
  ASSUME NEW s \in Seq(Letter), NEW text \in Handed(s)
  PROVE  \E o \in {0, 1} : Shaped(text, s, o)
  <1>1. s \in Seq(Nat) /\ Len(s) \in Nat
    BY DEF Letter
  <1>2. CASE text = s
    <2>1. Shaped(text, s, 0)
      BY <1>1, <1>2 DEF Shaped
    <2> QED
      BY <2>1
  <1>3. CASE text = <<1>> \o s \o <<2>>
    <2>1. text \in Seq(Nat) /\ Len(text) = Len(s) + 2
      BY <1>1, <1>3
    <2>2. \A j \in 1 .. Len(s) : text[j+1] = s[j]
      BY <1>1, <1>3
    <2>3. text[1] = 1 /\ text[Len(s) + 2] = 2
      BY <1>1, <1>3
    <2>4. Shaped(text, s, 1)
      BY <1>1, <2>1, <2>2, <2>3 DEF Shaped, Bracket
    <2> QED
      BY <2>4
  <1> QED
    BY <1>2, <1>3 DEF Handed

(* no character handed over is a NUL, and the letters are those of the sender *)
LEMMA ShapedCharacters ==
  ASSUME NEW s \in Seq(Letter), NEW o, NEW text, Shaped(text, s, o), NEW j \in 1 .. Len(text)
  PROVE  /\ text[j] \in Nat /\ text[j] # NUL
         /\ text[j] \in Bracket <=> ~ (o < j /\ j <= Len(s) + o)
  <1>1. Len(s) \in Nat /\ Len(text) = Len(s) + 2*o /\ text[j] \in Nat /\ j \in Nat /\ 1 <= j
    BY DEF Shaped
  <1>2. CASE o < j /\ j <= Len(s) + o
    <2>1. j - o \in 1 .. Len(s) /\ (j - o) + o = j
      BY <1>1, <1>2 DEF Shaped
    <2>2. text[j] = s[j - o] /\ s[j - o] \in Letter
      BY <2>1 DEF Shaped
    <2> QED
      BY <1>1, <1>2, <2>2 DEF Letter, NUL, Bracket
  <1>3. CASE ~ (o < j /\ j <= Len(s) + o)
    <2>1. o = 1 /\ (j = 1 \/ j = Len(s) + 2)
      BY <1>1, <1>3 DEF Shaped
    <2>2. text[j] \in Bracket
      BY <2>1 DEF Shaped
    <2> QED
      BY <1>1, <1>3, <2>2 DEF NUL, Bracket
  <1> QED
    BY <1>2, <1>3

(***************************************************************************)
(* memcpy(): the first m cells hold what was handed over, the others what  *)
(* they held, and the string ends behind the m cells.                      *)
(***************************************************************************)
LEMMA CopiedCells ==
  ASSUME MilterConstants, NEW b, Buffer(b),
         NEW s \in Seq(Letter), NEW o, NEW text, Shaped(text, s, o),
         NEW c, c = Copied(b, text),
         NEW m, m = IF Len(text) < Capacity - 1 THEN Len(text) ELSE Capacity - 1
  PROVE  /\ Buffer(c) /\ m \in 0 .. End(c)
         /\ \A i \in 0 .. m-1 : c[i] = text[i+1] /\ i+1 \in 1 .. Len(text)
         /\ \A i \in Cells : i >= m => c[i] = b[i]
  <1>1. Capacity \in Nat /\ Capacity > 0 /\ Len(text) \in Nat /\ m \in 0 .. Capacity - 1 /\ m <= Len(text)
    BY DEF MilterConstants, Shaped
  <1>2. \A i \in Cells : c[i] = IF i < Capacity - 1 /\ i < Len(text) THEN text[i+1] ELSE b[i]
    BY DEF Copied
  <1>3. \A i \in 0 .. m-1 : i \in Cells /\ c[i] = text[i+1] /\ i+1 \in 1 .. Len(text)
    <2> SUFFICES ASSUME NEW i \in 0 .. m-1
                 PROVE  i \in Cells /\ c[i] = text[i+1] /\ i+1 \in 1 .. Len(text)
      OBVIOUS
    <2>1. i \in Nat /\ i < Capacity - 1 /\ i < Len(text)
      BY <1>1
    <2>2. i \in Cells /\ i+1 \in 1 .. Len(text)
      BY <1>1, <2>1 DEF Cells
    <2> QED
      BY <1>2, <2>1, <2>2
  <1>4. \A i \in Cells : i >= m => c[i] = b[i]
    BY <1>1, <1>2 DEF Cells
  <1>5. \A i \in 0 .. m-1 : c[i] \in Nat /\ c[i] # NUL
    BY <1>3, ShapedCharacters
  <1>6. Buffer(c)
    <2>1. ASSUME NEW i \in Cells PROVE c[i] \in Nat
      <3>1. b[i] \in Nat /\ i \in Nat
        BY DEF Buffer, Cells
      <3>2. i \in 0 .. m-1 \/ i >= m
        BY <1>1, <3>1
      <3> QED
        BY <1>4, <1>5, <3>1, <3>2
    <2>2. Capacity - 1 \in Cells /\ c[Capacity - 1] = b[Capacity - 1]
      BY <1>1, <1>4 DEF Cells
    <2> QED
      BY <2>1, <2>2 DEF Buffer, Copied
  <1>7. End(c) \in Cells /\ c[End(c)] = NUL
    BY <1>6, EndIsFirst
  <1>8. m <= End(c)
    BY <1>1, <1>5, <1>7 DEF Cells
  <1> QED
    BY <1>1, <1>3, <1>4, <1>6, <1>7, <1>8 DEF Cells

(* the characters kept are no more than the longest sender has *)
LEMMA KeptBounded ==
  ASSUME MilterConstants, NEW b, Buffer(b), NEW L \in Nat, NoLetterFrom(b, L),
         NEW s \in Seq(Letter), NEW o, NEW text, Shaped(text, s, o),
         NEW M \in Nat, L <= M, Len(s) <= M
  PROVE  Cardinality(Kept(Copied(b, text))) <= M
  <1> DEFINE c == Copied(b, text)
             m == IF Len(text) < Capacity - 1 THEN Len(text) ELSE Capacity - 1
  <1>1. /\ Buffer(c) /\ m \in 0 .. End(c)
        /\ \A i \in 0 .. m-1 : c[i] = text[i+1] /\ i+1 \in 1 .. Len(text)
        /\ \A i \in Cells : i >= m => c[i] = b[i]
    <2>1. c = Copied(b, text) /\ m = IF Len(text) < Capacity - 1 THEN Len(text) ELSE Capacity - 1
      OBVIOUS
    <2> HIDE DEF c, m
    <2> QED
      BY <2>1, CopiedCells
  <1>2. End(c) \in Cells /\ \A j \in Cells : j < End(c) => c[j] # NUL
    BY <1>1, EndIsFirst
  <1> HIDE DEF c, m
  <1>3. o \in {0, 1} /\ Len(s) \in Nat
    BY DEF Shaped
  <1>4. ASSUME NEW i \in Kept(c), i < m PROVE o <= i /\ i < Len(s) + o
    <2>1. i \in 0 .. m-1 /\ text[i+1] \notin Bracket
      BY <1>1, <1>4 DEF Kept
    <2>2. o < i+1 /\ i+1 <= Len(s) + o
      BY <1>1, <2>1, ShapedCharacters
    <2> QED
      BY <1>3, <2>1, <2>2
  <1>5. ASSUME NEW i \in Kept(c), i >= m PROVE i < L
    <2>1. i \in Cells /\ i < End(c) /\ c[i] \notin Bracket
      BY <1>2 DEF Kept, Cells, MilterConstants
    <2>2. c[i] = b[i] /\ c[i] # NUL /\ b[i] \in Nat
      BY <1>1, <1>2, <1>5, <2>1 DEF Buffer
    <2>3. b[i] \in Letter
      BY <2>1, <2>2 DEF Letter, Bracket, NUL
    <2> QED
      BY <2>1, <2>3 DEF NoLetterFrom, Cells
  <1>6. Kept(c) \in SUBSET Nat /\ m \in Nat
    BY <1>1, <1>2 DEF Kept, Cells
  <1>7. CASE L <= m
    <2>1. Kept(c) \in SUBSET (o .. Len(s) + o - 1)
      BY <1>3, <1>4, <1>5, <1>6, <1>7
    <2> DEFINE z == Len(s) + o - 1
    <2>2. o \in Int /\ z \in Int /\ z >= o - 1 /\ z - o + 1 = Len(s)
      BY <1>3
    <2> HIDE DEF z
    <2>3. IsFiniteSet(o .. z) /\ Cardinality(o .. z) = Len(s)
      BY <2>2, IntervalSize
    <2>4. Kept(c) \in SUBSET (o .. z)
      BY <2>1 DEF z
    <2>5. IsFiniteSet(Kept(c)) /\ Cardinality(Kept(c)) <= Len(s)
      BY <2>3, <2>4, FS_Subset
    <2> QED
      BY <1>3, <2>5, FS_CardinalityType DEF c
  <1>8. CASE m < L
    <2>1. Kept(c) \in SUBSET (0 .. L - 1)
      BY <1>4, <1>5, <1>6, <1>8
    <2>2. IsFiniteSet(0 .. L - 1) /\ Cardinality(0 .. L - 1) = (L - 1) - 0 + 1
      BY IntervalSize
    <2>3. IsFiniteSet(Kept(c)) /\ Cardinality(Kept(c)) <= L
      BY <2>1, <2>2, FS_Subset
    <2> QED
      BY <2>3, FS_CardinalityType DEF c
  <1> QED
    BY <1>6, <1>7, <1>8

(***************************************************************************)
(* What MAIL FROM leaves in the buffer: no letter lies beyond the longest  *)
(* sender, this one included; and if none was longer, it holds this one.   *)
(***************************************************************************)
LEMMA NoLetterBeyond ==
  ASSUME MilterConstants, NEW b, Buffer(b), NEW L \in Nat, NoLetterFrom(b, L),
         NEW s \in Seq(Letter), NEW o, NEW text, Shaped(text, s, o),
         NEW M \in Nat, L <= M, Len(s) <= M
  PROVE  NoLetterFrom(Strip(Copied(b, text)), M)
  <1> DEFINE c == Copied(b, text)
             m == IF Len(text) < Capacity - 1 THEN Len(text) ELSE Capacity - 1
             n == Cardinality(Kept(c))
  <1>1. /\ Buffer(c) /\ m \in 0 .. End(c)
        /\ \A i \in 0 .. m-1 : c[i] = text[i+1] /\ i+1 \in 1 .. Len(text)
        /\ \A i \in Cells : i >= m => c[i] = b[i]
    <2>1. c = Copied(b, text) /\ m = IF Len(text) < Capacity - 1 THEN Len(text) ELSE Capacity - 1
      OBVIOUS
    <2> HIDE DEF c, m
    <2> QED
      BY <2>1, CopiedCells
  <1>2. n <= M
    BY KeptBounded
  <1> HIDE DEF c, m
  <1>3. n \in Cells /\ Strip(c)[n] = NUL /\ \A i \in Cells : i > n => Strip(c)[i] = c[i]
    BY <1>1, StripKeeps
  <1> HIDE DEF n
  <1>4. ASSUME NEW i \in Cells, i >= M PROVE Strip(c)[i] \notin Letter
    <2>1. i \in Nat /\ n \in Nat /\ m \in Nat /\ o \in {0, 1} /\ Len(s) \in Nat
      BY <1>1, <1>3 DEF Cells, Shaped
    <2>2. CASE i = n
      BY <1>3, <2>2 DEF Letter, NUL
    <2>3. CASE i > n /\ i >= m
      <3>1. Strip(c)[i] = b[i]
        BY <1>1, <1>3, <2>3
      <3> QED
        BY <1>4, <2>1, <3>1 DEF NoLetterFrom
    <2>4. CASE i > n /\ i < m
      <3>1. i \in 0 .. m-1 /\ i + 1 \in 1 .. Len(text) /\ c[i] = text[i+1]
        BY <1>1, <2>1, <2>4
      <3>2. CASE i >= Len(s) + o
        <4>1. text[i+1] \in Bracket
          BY <2>1, <3>1, <3>2, ShapedCharacters
        <4> QED
          BY <1>3, <2>4, <3>1, <4>1 DEF Letter, Bracket
      <3>3. CASE i < Len(s) + o
        (* the letter that was last before the brackets went is kept further down *)
        <4>1. o = 1 /\ i = Len(s) /\ n < Len(s)
          BY <1>2, <1>4, <2>1, <2>4, <3>3
        <4>2. 1 .. Len(s) \in SUBSET Kept(c)
          <5>1. ASSUME NEW j \in 1 .. Len(s) PROVE j \in Kept(c)
            <6>1. j \in 0 .. m-1 /\ j+1 \in 1 .. Len(text) /\ o < j+1 /\ j+1 <= Len(s) + o
              BY <1>1, <2>1, <2>4, <4>1
            <6>2. c[j] = text[j+1] /\ text[j+1] \notin Bracket
              BY <1>1, <2>1, <6>1, ShapedCharacters
            <6>3. j \in 0 .. End(c) - 1
              BY <1>1, <6>1, EndIsFirst DEF Cells
            <6> QED
              BY <6>2, <6>3 DEF Kept
          <5> QED
            BY <5>1
        <4>3. Cardinality(1 .. Len(s)) <= n
          BY <1>1, <4>2, KeptFinite, FS_Subset DEF n
        <4>4. Cardinality(1 .. Len(s)) = Len(s)
          <5> DEFINE k == Len(s)
          <5>1. k \in Nat /\ k >= 1 - 1 /\ k - 1 + 1 = k
            BY <2>1
          <5> HIDE DEF k
          <5>2. Cardinality(1 .. k) = k
            BY <5>1, IntervalSize
          <5> QED
            BY <5>2 DEF k
        <4> QED
          BY <2>1, <4>1, <4>3, <4>4
      <3> QED
        BY <2>1, <3>2, <3>3
    <2> QED
      BY <1>2, <1>4, <2>1, <2>2, <2>3, <2>4
  <1> QED
    BY <1>4 DEF NoLetterFrom, c

LEMMA LongestIsWhole ==
  ASSUME MilterConstants, NEW b, Buffer(b), NEW L \in Nat, NoLetterFrom(b, L),
         NEW s \in Seq(Letter), NEW o, NEW text, Shaped(text, s, o), L <= Len(s), Fits(s)
  PROVE  Text(Strip(Copied(b, text))) = s
  <1> DEFINE c == Copied(b, text)
             m == IF Len(text) < Capacity - 1 THEN Len(text) ELSE Capacity - 1
             n == Cardinality(Kept(c))
             z == Len(s) + o - 1
  <1>1. /\ Buffer(c) /\ m \in 0 .. End(c)
        /\ \A i \in 0 .. m-1 : c[i] = text[i+1] /\ i+1 \in 1 .. Len(text)
        /\ \A i \in Cells : i >= m => c[i] = b[i]
    <2>1. c = Copied(b, text) /\ m = IF Len(text) < Capacity - 1 THEN Len(text) ELSE Capacity - 1
      OBVIOUS
    <2> HIDE DEF c, m
    <2> QED
      BY <2>1, CopiedCells
  <1>2. o \in {0, 1} /\ Len(s) \in Nat /\ m = Len(text) /\ m = Len(s) + 2*o /\ Capacity \in Nat
    BY DEF Shaped, Fits, MilterConstants
  <1> HIDE DEF c, m
  <1>3. End(c) \in Cells /\ \A j \in Cells : j < End(c) => c[j] # NUL
    BY <1>1, EndIsFirst
  <1>4. Kept(c) = o .. z
    <2>1. ASSUME NEW i \in Kept(c) PROVE i \in o .. z
      <3>1. i \in Cells /\ i < End(c) /\ c[i] \notin Bracket /\ c[i] # NUL /\ c[i] \in Nat /\ i \in Nat
        <4>1. i \in Cells /\ i < End(c) /\ c[i] \notin Bracket
          <5>1. i \in 0 .. End(c) - 1 /\ c[i] \notin Bracket
            BY DEF Kept
          <5> QED BY <1>2, <1>3, <5>1 DEF Cells
        <4>2. c[i] # NUL
          BY <1>3, <4>1
        <4>3. c[i] \in Nat
          BY <1>1, <4>1 DEF Buffer
        <4>4. i \in Nat
          BY <1>2, <4>1 DEF Cells
        <4> QED BY <4>1, <4>2, <4>3, <4>4
      <3>2. CASE i < m
        <4>1. i + 1 \in 1 .. Len(text) /\ text[i+1] \notin Bracket
          BY <1>1, <1>2, <3>1, <3>2
        <4>2. o < i+1 /\ i+1 <= Len(s) + o
          BY <4>1, ShapedCharacters
        <4> QED
          BY <1>2, <3>1, <4>2
      <3>3. CASE i >= m
        <4>1. c[i] \in Letter
          BY <3>1 DEF Letter, Bracket, NUL
        <4>2. i >= L /\ c[i] = b[i]
          BY <1>1, <1>2, <3>1, <3>3
        <4> QED
          BY <3>1, <4>1, <4>2 DEF NoLetterFrom
      <3> QED
        BY <1>2, <3>1, <3>2, <3>3
    <2>2. ASSUME NEW i \in o .. z PROVE i \in Kept(c)
      <3>1. i \in 0 .. m-1 /\ i+1 \in 1 .. Len(text) /\ o < i+1 /\ i+1 <= Len(s) + o
        BY <1>1, <1>2
      <3>2. c[i] \notin Bracket
        BY <1>1, <3>1, ShapedCharacters
      <3>3. i \in 0 .. End(c) - 1
        BY <1>1, <1>2, <1>3, <3>1 DEF Cells
      <3> QED
        BY <3>2, <3>3 DEF Kept
    <2> QED
      BY <2>1, <2>2
  <1>5. o \in Int /\ z \in Int /\ z >= o - 1 /\ z - o + 1 = Len(s) /\ o + Len(s) - 1 = z
    BY <1>2
  <1>6. n = Len(s)
    <2> HIDE DEF z
    <2> QED
      BY <1>4, <1>5, IntervalSize
  <1>7. /\ \A i \in 0 .. n-1 : Strip(c)[i] = c[Nth(Kept(c), i)]
        /\ End(Strip(c)) = n
    BY <1>1, StripKeeps
  <1>8. \A i \in 0 .. Len(s) - 1 : Nth(o .. o + Len(s) - 1, i) = o + i
    BY <1>2, NthOfInterval
  <1> HIDE DEF n, z
  <1>9. ASSUME NEW j \in 1 .. Len(s) PROVE Strip(c)[j-1] = s[j]
    <2>1. j - 1 \in 0 .. n-1 /\ j - 1 \in 0 .. Len(s) - 1 /\ o + (j - 1) \in 0 .. m-1
      BY <1>2, <1>6
    <2>2. Strip(c)[j-1] = c[o + (j - 1)]
      BY <1>4, <1>5, <1>7, <1>8, <2>1
    <2>3. c[o + (j - 1)] = text[o + (j - 1) + 1] /\ o + (j - 1) + 1 = j + o
      BY <1>1, <1>2, <2>1
    <2>4. text[j + o] = s[j]
      BY DEF Shaped
    <2> QED
      BY <2>2, <2>3, <2>4
  <1>10. Text(Strip(c)) = [j \in 1 .. Len(s) |-> s[j]]
    BY <1>6, <1>7, <1>9 DEF Text
  <1>11. s = [j \in 1 .. Len(s) |-> s[j]]
    OBVIOUS
  <1> QED
    BY <1>10, <1>11 DEF c
-----------------------------------------------------------------------------
(* the cleared buffer of a new connection *)
LEMMA ZerosFacts ==
  ASSUME MilterConstants
  PROVE  Buffer(Zeros) /\ Text(Zeros) = <<>> /\ NoLetterFrom(Zeros, 0)
  <1>1. 0 \in Cells /\ Capacity - 1 \in Cells
    BY DEF Cells, MilterConstants
  <1>2. Buffer(Zeros)
    BY <1>1 DEF Buffer, Zeros, NUL
  <1>3. End(Zeros) = 0
    BY <1>1, <1>2, EndUnique DEF Zeros, Cells
  <1> QED
    BY <1>2, <1>3 DEF Text, Zeros, NoLetterFrom, Letter, NUL

LEMMA TextIsText ==
  ASSUME MilterConstants, NEW b, Buffer(b)
  PROVE  Text(b) \in Seq(Nat)
  <1>1. End(b) \in Nat /\ \A i \in 1 .. End(b) : i - 1 \in Cells
    BY EndIsFirst DEF Cells, MilterConstants
  <1>2. \A i \in 1 .. End(b) : b[i-1] \in Nat
    BY <1>1 DEF Buffer
  <1> QED
    BY <1>1, <1>2 DEF Text

LEMMA InvInit == MilterConstants /\ MilterInit => IInv
  <1> SUFFICES ASSUME MilterConstants, MilterInit PROVE IInv
    OBVIOUS
  <1>1. MilterTypeOK
    BY ZerosFacts DEF MilterInit, MilterTypeOK, Buffer
  <1> QED
    BY <1>1, ZerosFacts DEF MilterInit, IInv

(* the step that changes the buffer *)
LEMMA MailFromKeeps ==
  ASSUME MilterConstants, IInv, NEW s \in Sender, NEW text \in Handed(s), MailFrom(s, text)
  PROVE  IInv'
  <1>1. s \in Seq(Letter) /\ Len(s) \in Nat /\ longest \in Nat
    BY DEF MilterConstants, IInv, MilterTypeOK
  <1>2. PICK o \in {0, 1} : Shaped(text, s, o)
    BY <1>1, HandedShape
  <1>3. Buffer(sender) /\ NoLetterFrom(sender, longest)
    BY DEF IInv, MilterTypeOK, Buffer
  <1>4. longest' \in Nat /\ longest <= longest' /\ Len(s) <= longest'
        /\ (Len(s) = longest' => longest <= Len(s))
    BY <1>1 DEF MailFrom, Longer
  <1>5. sender' = Strip(Copied(sender, text)) /\ given' = s /\ asked' = {} /\ stage' = "message"
    BY DEF MailFrom
  <1>6. NoLetterFrom(sender', longest')
    BY <1>1, <1>2, <1>3, <1>4, <1>5, NoLetterBeyond
  <1>7. Len(s) = longest' /\ longest' + 2 < Capacity => Text(sender') = s
    BY <1>1, <1>2, <1>3, <1>4, <1>5, LongestIsWhole DEF Fits
  <1>8. Buffer(Copied(sender, text))
    BY <1>1, <1>2, <1>3, CopiedCells
  <1>9. Buffer(sender')
    BY <1>5, <1>8, StripKeeps
  <1>10. MilterTypeOK'
    BY <1>1, <1>4, <1>5, <1>9 DEF MilterTypeOK, Buffer
  <1> QED
    BY <1>5, <1>6, <1>7, <1>10 DEF IInv, Fits, NoLetterFrom, Text, End, Cells

LEMMA InvStep == MilterConstants /\ IInv /\ [MilterNext]_milterVars => IInv'
  <1> SUFFICES ASSUME MilterConstants, IInv, [MilterNext]_milterVars PROVE IInv'
    OBVIOUS
  <1> USE DEF IInv, MilterTypeOK, Fits
  <1>1. CASE Connect
    <2>1. MilterTypeOK'
      BY <1>1, ZerosFacts DEF Connect, Buffer
    <2>2. NoLetterFrom(Zeros, 0)
      BY ZerosFacts
    <2> QED
      BY <1>1, <2>1, <2>2, ZerosFacts DEF Connect
  <1>2. CASE MailFromAuthenticated
    BY <1>2 DEF MailFromAuthenticated
  <1>3. CASE \E s \in Sender : \E text \in Handed(s) : MailFrom(s, text)
    BY <1>3, MailFromKeeps
  <1>4. CASE RcptTo
    <2>1. Text(sender) \in Seq(Nat)
      BY TextIsText DEF Buffer
    <2> QED
      BY <1>4, <2>1 DEF RcptTo
  <1>5. CASE MessageEnds
    BY <1>5 DEF MessageEnds
  <1>6. CASE Close
    BY <1>6 DEF Close
  <1>7. CASE UNCHANGED milterVars
    BY <1>7 DEF milterVars
  <1> QED
    BY <1>1, <1>2, <1>3, <1>4, <1>5, <1>6, <1>7 DEF MilterNext

(***************************************************************************)
(* mf_mail_from() and mf_rcpt_to() ask about the sender that was given if  *)
(* none before it on the connection was longer, for buffers of any size,   *)
(* any senders, and any sequence of messages.                              *)
(***************************************************************************)
THEOREM LongestSenderIsRight ==
  ASSUME MilterConstants
  PROVE  MilterSpec => []RightIfLongest
  <1>1. MilterInit => IInv
    BY InvInit
  <1>2. IInv /\ [MilterNext]_milterVars => IInv'
    BY InvStep
  <1>3. IInv => RightIfLongest
    BY DEF IInv, RightIfLongest, Fits
  <1> QED
    BY <1>1, <1>2, <1>3, PTL DEF MilterSpec
-----------------------------------------------------------------------------
(***************************************************************************)
(* The exchange with gld.                                                  *)
(***************************************************************************)
(* a question up to both p and q was disturbed or crossed: from it on, *)
(* answers may be off                                                 *)
Early(p, q) == \E d \in disturbed \cup crossed : d <= p /\ d <= q
Suspect(q)  == Early(q, q)
IsOpen(t)   == pc[t] # "idle"
Awaits(t)   == pc[t] \in {"sent", "waiting"}

(* the questions asked so far have numbers up to `questions' *)
Asked ==
  /\ \A t \in Thread : IsOpen(t) => question[t] \in 1 .. questions
  /\ \A x \in asks : x.q <= questions
  /\ \A x \in replies : x.q <= questions

(* questions that are open together are both crossed, and so is one that *)
(* was open when a later one was asked                                   *)
Overlaps ==
  /\ \A t, u \in Thread : t # u /\ IsOpen(t) /\ IsOpen(u)
                            => question[t] # question[u] /\ question[t] \in crossed
  /\ \A t \in Thread : IsOpen(t) /\ question[t] < questions => question[t] \in crossed

(* a question nobody has disturbed is one datagram at most, *)
Single ==
  /\ \A x, y \in asks : x.q = y.q => x = y \/ Suspect(x.q)
  /\ \A x, y \in replies : x.q = y.q => x = y \/ Suspect(x.q)
  /\ \A x \in asks, y \in replies : x.q = y.q => Suspect(x.q)

(* and that datagram is awaited *)
AwaitedFor(q) == Suspect(q) \/ \E t \in Thread : Awaits(t) /\ question[t] = q

Awaited ==
  /\ \A x \in asks : AwaitedFor(x.q)
  /\ \A x \in replies : AwaitedFor(x.q)

(* what OffOnlyIfDisturbed says of an answer told holds of one received, *)
OffOnly(of, q) == of \in {0, q} \/ Early(of, q)

Own == \A t \in Thread : pc[t] = "received" => OffOnly(answer[t].of, question[t])

(* and gld has said whatever is on its way back or was received *)
SaidBefore ==
  /\ \A r \in replies : <<r.q, r.says>> \in said
  /\ \A t \in Thread : answer[t].verdict = "accept" \/ <<answer[t].of, answer[t].verdict>> \in said

MailInv == /\ TypeOK /\ Asked /\ Overlaps /\ Single /\ Awaited /\ Own /\ OffOnlyIfDisturbed
           /\ SaidBefore /\ RefusedByGldOnly
-----------------------------------------------------------------------------
(* constants and the numbers of questions *)
LEMMA MailNumbers ==
  /\ MaxQuestions \in Nat /\ MaxDuplicates \in Nat
  /\ Question \subseteq Nat \ {0} /\ Question \cup {0} \subseteq Nat
  /\ Verdict \cap {NONE, Unusable} = {} /\ FailOpen \in Answer
  /\ FailOpen.verdict = "accept" /\ FailOpen.of = 0
  /\ Says \subseteq Verdict \cup {Unusable}
  BY ClientAssumption DEF Question, Verdict, NONE, Unusable, FailOpen, Answer

LEMMA AskFields ==
  /\ \A x \in Ask : x.q \in Question /\ x.q \in Nat \ {0}
  /\ \A x \in Reply : x.q \in Question /\ x.q \in Nat \ {0} /\ x.says \in Says
  BY MailNumbers DEF Ask, Reply

LEMMA StateFacts ==
  ASSUME MailInv
  PROVE  /\ questions \in Nat /\ questions <= MaxQuestions
         /\ \A x \in asks : x \in Ask /\ x.q \in Nat \ {0} /\ x.q \in Question
         /\ \A x \in replies : x \in Reply /\ x.q \in Nat \ {0} /\ x.q \in Question /\ x.says \in Says
         /\ \A t \in Thread : question[t] \in Nat
         /\ \A t \in Thread : IsOpen(t) => question[t] \in Question /\ question[t] <= questions
         /\ disturbed \subseteq Nat /\ crossed \subseteq Nat
         /\ \A t \in Thread : answer[t].of \in Nat
         /\ \A q \in Question : source[q] \in Nat
  <1>1. /\ TypeOK /\ \A t \in Thread : IsOpen(t) => question[t] \in 1 .. questions
    BY DEF MailInv, Asked
  <1>2. questions \in Nat /\ questions <= MaxQuestions
    BY <1>1, MailNumbers DEF TypeOK
  <1>3. asks \subseteq Ask /\ replies \subseteq Reply
    BY <1>1 DEF TypeOK
  <1>4. \A t \in Thread : question[t] \in Nat /\ answer[t].of \in Nat
    <2>1. question \in [Thread -> Question \cup {0}] /\ answer \in [Thread -> Answer]
      BY <1>1 DEF TypeOK
    <2>2. \A a \in Answer : a.of \in Question \cup {0}
      BY DEF Answer
    <2> QED BY <2>1, <2>2, MailNumbers
  <1>5. \A t \in Thread : IsOpen(t) => question[t] \in Question /\ question[t] <= questions
    BY <1>1, <1>2, MailNumbers DEF Question
  <1>6. disturbed \subseteq Nat /\ crossed \subseteq Nat /\ \A q \in Question : source[q] \in Nat
    <2>1. /\ source \in [Question -> Question \cup {0}]
          /\ disturbed \subseteq Question /\ crossed \subseteq Question
      BY <1>1 DEF TypeOK
    <2> QED BY <2>1, MailNumbers
  <1> QED BY <1>2, <1>3, <1>4, <1>5, <1>6, AskFields

(* what was suspect stays so *)
LEMMA SuspectGrows ==
  ASSUME disturbed \subseteq disturbed', crossed \subseteq crossed'
  PROVE  /\ \A p, q : Early(p, q) => Early(p, q)'
         /\ \A q : Suspect(q) => Suspect(q)'
         /\ \A p, q : OffOnly(p, q) => OffOnly(p, q)'
  BY DEF Early, Suspect, OffOnly

LEMMA SuspectSame ==
  ASSUME disturbed' = disturbed, crossed' = crossed
  PROVE  /\ \A p, q : Early(p, q)' <=> Early(p, q)
         /\ \A q : Suspect(q)' <=> Suspect(q)
  BY DEF Early, Suspect

LEMMA Moves ==
  ASSUME TypeOK, NEW t \in Thread, NEW w \in {"idle", "sent", "waiting", "received"}, Goes(t, w)
  PROVE  /\ pc'[t] = w /\ \A u \in Thread \ {t} : pc'[u] = pc[u]
         /\ pc' \in [Thread -> {"idle", "sent", "waiting", "received"}]
         /\ IsOpen(t)' <=> w # "idle"
         /\ \A u \in Thread \ {t} : (IsOpen(u)' <=> IsOpen(u)) /\ (Awaits(u)' <=> Awaits(u))
         /\ Awaits(t)' <=> w \in {"sent", "waiting"}
  BY DEF TypeOK, Goes, IsOpen, Awaits

LEMMA MailInit == Init => MailInv
  <1> SUFFICES ASSUME Init PROVE MailInv
    OBVIOUS
  <1>1. TypeOK
    <2>1. /\ pc \in [Thread -> {"idle", "sent", "waiting", "received"}]
          /\ question \in [Thread -> Question \cup {0}] /\ answer \in [Thread -> Answer]
          /\ told \in [Question -> Verdict \cup {NONE}] /\ source \in [Question -> Question \cup {0}]
      BY MailNumbers DEF Init
    <2>2. questions \in 0 .. MaxQuestions /\ copies \in 0 .. MaxDuplicates
      BY MailNumbers DEF Init
    <2>4. alarm \in BOOLEAN
      BY DEF Init
    <2>3. /\ asks \subseteq Ask /\ replies \subseteq Reply /\ said \subseteq Question \X Says
          /\ disturbed \subseteq Question /\ crossed \subseteq Question
      BY DEF Init
    <2> QED BY <2>1, <2>2, <2>3, <2>4 DEF TypeOK
  <1>2. Asked /\ Overlaps /\ Single /\ Awaited /\ Own
    BY DEF Init, Asked, Overlaps, Single, Awaited, Own, IsOpen
  <1>3. OffOnlyIfDisturbed /\ SaidBefore /\ RefusedByGldOnly
    BY MailNumbers DEF Init, OffOnlyIfDisturbed, SaidBefore, RefusedByGldOnly, NONE
  <1> QED BY <1>1, <1>2, <1>3 DEF MailInv
-----------------------------------------------------------------------------
(* Begin: a new question, and what is open meanwhile is crossed *)
LEMMA BeginFacts ==
  ASSUME MailInv, NEW t \in Thread, Begin(t)
  PROVE  /\ pc[t] = "idle" /\ questions' = questions + 1 /\ questions' \in Question
         /\ questions' \in Nat /\ questions' \in 0 .. MaxQuestions
         /\ question'[t] = questions' /\ \A u \in Thread \ {t} : question'[u] = question[u]
         /\ question' \in [Thread -> Question \cup {0}]
         /\ crossed \subseteq crossed' /\ crossed' \subseteq Question
         /\ \A u \in Thread : IsOpen(u) => question[u] \in crossed' /\ questions' \in crossed'
  <1>1. /\ pc[t] = "idle" /\ questions' = questions + 1 /\ questions < MaxQuestions
        /\ question' = [question EXCEPT ![t] = questions']
        /\ crossed' = IF Open = {} THEN crossed ELSE crossed \cup Open \cup {questions'}
    BY DEF Begin
  <1>2. questions' \in Question /\ questions' \in Nat /\ questions' \in 0 .. MaxQuestions
    BY <1>1, StateFacts, MailNumbers DEF Question
  <1>3. Open = {question[u] : u \in {v \in Thread : pc[v] # "idle"}}
    BY DEF Open, OpenBut
  <1>4. Open \subseteq Question
    BY <1>3, StateFacts DEF IsOpen
  <1>5. \A u \in Thread : IsOpen(u) => question[u] \in Open
    BY <1>3 DEF IsOpen
  <1>6. question \in [Thread -> Question \cup {0}] /\ crossed \subseteq Question
    BY DEF MailInv, TypeOK
  <1> QED BY <1>1, <1>2, <1>4, <1>5, <1>6

LEMMA BeginKeeps ==
  ASSUME MailInv, NEW t \in Thread, Begin(t), NEW w \in {"idle", "sent"},
         pc'[t] = w, \A u \in Thread \ {t} : pc'[u] = pc[u]
  PROVE  Overlaps'
  <1>1. /\ question'[t] = questions' /\ \A u \in Thread \ {t} : question'[u] = question[u]
        /\ crossed \subseteq crossed' /\ questions' = questions + 1
        /\ \A u \in Thread : IsOpen(u) => question[u] \in crossed' /\ questions' \in crossed'
    BY BeginFacts
  <1>2. \A u \in Thread : IsOpen(u) => question[u] \in Nat /\ question[u] <= questions
    BY StateFacts
  <1>3. \A u \in Thread \ {t} : IsOpen(u)' <=> IsOpen(u)
    BY DEF IsOpen
  <1>4. questions \in Nat
    BY StateFacts
  <1>5. Overlaps
    BY DEF MailInv
  <1>6. ASSUME NEW u \in Thread, NEW v \in Thread, u # v, IsOpen(u)', IsOpen(v)'
        PROVE  question'[u] # question'[v] /\ question'[u] \in crossed'
    <2>1. CASE u # t /\ v # t
      BY <1>1, <1>3, <1>5, <1>6, <2>1 DEF Overlaps
    <2>2. CASE u = t
      BY <1>1, <1>2, <1>3, <1>4, <1>6, <2>2
    <2>3. CASE v = t
      BY <1>1, <1>2, <1>3, <1>4, <1>6, <2>3
    <2> QED BY <2>1, <2>2, <2>3
  <1>7. ASSUME NEW u \in Thread, IsOpen(u)', question'[u] < questions'
        PROVE  question'[u] \in crossed'
    BY <1>1, <1>3, <1>4, <1>7
  <1> QED BY <1>6, <1>7 DEF Overlaps

-----------------------------------------------------------------------------
(* what is on its way stays as it is, but for the one datagram that moves *)
SameNet == asks' = asks /\ replies' = replies /\ said' = said

LEMMA AwaitedStays ==
  ASSUME NEW q, AwaitedFor(q), disturbed \subseteq disturbed', crossed \subseteq crossed',
         NEW T \in SUBSET Thread, \A u \in T : Awaits(u)' /\ question'[u] = question[u],
         \A u \in Thread \ T : question[u] = q /\ Awaits(u) => Suspect(q)'
  PROVE  AwaitedFor(q)'
  <1>1. CASE Suspect(q)
    BY <1>1, SuspectGrows DEF AwaitedFor
  <1>2. CASE \E u \in T : Awaits(u) /\ question[u] = q
    BY <1>2 DEF AwaitedFor
  <1>3. CASE \E u \in Thread \ T : Awaits(u) /\ question[u] = q
    BY <1>3 DEF AwaitedFor
  <1> QED BY <1>1, <1>2, <1>3 DEF AwaitedFor

(* a thread that moves on while its question is the last one, or a crossed *)
(* one, leaves the others as they are                                      *)
LEMMA OverlapsStay ==
  ASSUME MailInv, UNCHANGED <<question, questions>>, crossed \subseteq crossed',
         \A u \in Thread : IsOpen(u)' => IsOpen(u)
  PROVE  Overlaps'
  BY DEF MailInv, Overlaps

LEMMA AskedStays ==
  ASSUME MailInv, UNCHANGED <<question, questions>>,
         \A u \in Thread : IsOpen(u)' => IsOpen(u),
         \A x \in asks' : x.q <= questions, \A x \in replies' : x.q <= questions
  PROVE  Asked'
  BY DEF MailInv, Asked

LEMMA SendStep == ASSUME MailInv, NEW t \in Thread, Send(t) PROVE MailInv'
  <1> DEFINE a == [q |-> questions', copy |-> 0]
  <1>1. /\ Begin(t) /\ Goes(t, "sent") /\ asks' = asks \cup {a}
        /\ UNCHANGED <<replies, copies, alarm, answer, told, source, said, disturbed>>
    BY DEF Send
  <1>2. /\ pc[t] = "idle" /\ questions' = questions + 1 /\ questions' \in Question
        /\ questions' \in Nat /\ questions' \in 0 .. MaxQuestions
        /\ question'[t] = questions' /\ \A u \in Thread \ {t} : question'[u] = question[u]
        /\ question' \in [Thread -> Question \cup {0}]
        /\ crossed \subseteq crossed' /\ crossed' \subseteq Question
    BY <1>1, BeginFacts
  <1>3. /\ pc'[t] = "sent" /\ \A u \in Thread \ {t} : pc'[u] = pc[u]
        /\ pc' \in [Thread -> {"idle", "sent", "waiting", "received"}]
        /\ Awaits(t)' /\ IsOpen(t)'
        /\ \A u \in Thread \ {t} : (IsOpen(u)' <=> IsOpen(u)) /\ (Awaits(u)' <=> Awaits(u))
    BY <1>1, Moves DEF MailInv
  <1>4. a \in Ask /\ a.q = questions'
    BY <1>2, MailNumbers DEF Ask
  <1>5. /\ questions \in Nat /\ \A x \in asks : x.q \in Nat /\ x.q <= questions
        /\ \A x \in replies : x.q \in Nat /\ x.q <= questions
        /\ \A u \in Thread : IsOpen(u) => question[u] \in Nat /\ 1 <= question[u] /\ question[u] <= questions
    BY StateFacts DEF MailInv, Asked
  <1> HIDE DEF a
  <1>6. TypeOK'
    BY <1>1, <1>2, <1>3, <1>4 DEF MailInv, TypeOK
  <1>7. Asked'
    BY <1>1, <1>2, <1>3, <1>4, <1>5 DEF Asked
  <1>8. Overlaps'
    BY <1>1, <1>3, BeginKeeps
  <1>9. disturbed \subseteq disturbed' /\ crossed \subseteq crossed'
    BY <1>1, <1>2
  <1>10. Single'
    <2>1. \A x, y \in asks' : x.q = y.q => x = y \/ Suspect(x.q)'
      BY <1>1, <1>2, <1>4, <1>5, <1>9, SuspectGrows DEF MailInv, Single
    <2>2. \A x, y \in replies' : x.q = y.q => x = y \/ Suspect(x.q)'
      BY <1>1, <1>9, SuspectGrows DEF MailInv, Single
    <2>3. \A x \in asks', y \in replies' : x.q = y.q => Suspect(x.q)'
      BY <1>1, <1>2, <1>4, <1>5, <1>9, SuspectGrows DEF MailInv, Single
    <2> QED BY <2>1, <2>2, <2>3 DEF Single
  <1>11. Awaited'
    <2>1. ASSUME NEW q, AwaitedFor(q) PROVE AwaitedFor(q)'
      <3>1. ~Awaits(t)
        BY <1>2 DEF Awaits
      <3>2. CASE Suspect(q)
        BY <3>2, <1>9, SuspectGrows DEF AwaitedFor
      <3>3. CASE \E u \in Thread : Awaits(u) /\ question[u] = q
        BY <3>1, <3>3, <1>2, <1>3 DEF AwaitedFor
      <3> QED BY <2>1, <3>2, <3>3 DEF AwaitedFor
    <2>2. ASSUME NEW q, q = questions' PROVE AwaitedFor(q)'
      BY <1>2, <1>3, <2>2 DEF AwaitedFor
    <2> QED BY <1>1, <1>4, <2>1, <2>2 DEF MailInv, Awaited
  <1>12. Own'
    BY <1>1, <1>2, <1>3, <1>9, SuspectGrows DEF MailInv, Own
  <1>13. OffOnlyIfDisturbed' /\ SaidBefore' /\ RefusedByGldOnly'
    BY <1>1, <1>9 DEF MailInv, OffOnlyIfDisturbed, SaidBefore, RefusedByGldOnly
  <1> QED BY <1>6, <1>7, <1>8, <1>10, <1>11, <1>12, <1>13 DEF MailInv

(* the steps that begin or end nothing else *)
LEMMA QuietStep ==
  ASSUME MailInv, UNCHANGED <<question, questions, asks, replies, said, told, source, answer>>,
         copies' = copies, alarm' \in BOOLEAN, disturbed' = disturbed,
         crossed \subseteq crossed', crossed' \subseteq Question,
         pc' \in [Thread -> {"idle", "sent", "waiting", "received"}],
         \A u \in Thread : /\ IsOpen(u)' <=> IsOpen(u)
                           /\ Awaits(u)' <=> Awaits(u)
                           /\ pc'[u] = "received" => pc[u] = "received"
  PROVE  MailInv'
  <1>0. disturbed \subseteq disturbed' /\ crossed \subseteq crossed'
    OBVIOUS
  <1>1. TypeOK'
    BY DEF MailInv, TypeOK
  <1>2. Asked' /\ Overlaps'
    BY DEF MailInv, Asked, Overlaps
  <1>3. Single'
    BY <1>0, SuspectGrows DEF MailInv, Single
  <1>4. ASSUME NEW q, AwaitedFor(q) PROVE AwaitedFor(q)'
    BY <1>0, <1>4, SuspectGrows DEF AwaitedFor
  <1>5. Awaited'
    BY <1>4 DEF MailInv, Awaited
  <1>6. Own'
    BY <1>0, SuspectGrows DEF MailInv, Own
  <1>7. OffOnlyIfDisturbed' /\ SaidBefore' /\ RefusedByGldOnly'
    BY <1>0 DEF MailInv, OffOnlyIfDisturbed, SaidBefore, RefusedByGldOnly
  <1> QED BY <1>1, <1>2, <1>3, <1>5, <1>6, <1>7 DEF MailInv

LEMMA WaitStep == ASSUME MailInv, NEW t \in Thread, Wait(t) PROVE MailInv'
  <1>1. /\ pc[t] = "sent" /\ Goes(t, "waiting") /\ alarm' = TRUE
        /\ UNCHANGED <<question, questions, asks, replies, copies, answer, told, source, said, disturbed, crossed>>
    BY DEF Wait, net, ghosts
  <1>2. /\ pc'[t] = "waiting" /\ \A u \in Thread \ {t} : pc'[u] = pc[u]
        /\ pc' \in [Thread -> {"idle", "sent", "waiting", "received"}]
    BY <1>1, Moves DEF MailInv
  <1>3. \A u \in Thread : /\ IsOpen(u)' <=> IsOpen(u)
                          /\ Awaits(u)' <=> Awaits(u)
                          /\ pc'[u] = "received" => pc[u] = "received"
    BY <1>1, <1>2 DEF IsOpen, Awaits
  <1>4. crossed' \subseteq Question /\ alarm' \in BOOLEAN
    BY <1>1 DEF MailInv, TypeOK
  <1> QED BY <1>1, <1>2, <1>3, <1>4, QuietStep

LEMMA ExpireElsewhereStep == ASSUME MailInv, NEW t \in Thread, ExpireElsewhere(t) PROVE MailInv'
  <1>1. /\ alarm' = FALSE /\ crossed' = crossed \cup OpenBut({t})
        /\ UNCHANGED <<pc, question, questions, asks, replies, copies, answer, told, source, said, disturbed>>
    BY DEF ExpireElsewhere, net
  <1>2. OpenBut({t}) \subseteq Question
    BY StateFacts DEF OpenBut, IsOpen
  <1>3. crossed \subseteq crossed' /\ crossed' \subseteq Question
    BY <1>1, <1>2 DEF MailInv, TypeOK
  <1>4. \A u \in Thread : /\ IsOpen(u)' <=> IsOpen(u)
                          /\ Awaits(u)' <=> Awaits(u)
                          /\ pc'[u] = "received" => pc[u] = "received"
    BY <1>1 DEF IsOpen, Awaits
  <1>5. pc' \in [Thread -> {"idle", "sent", "waiting", "received"}] /\ alarm' \in BOOLEAN
    BY <1>1 DEF MailInv, TypeOK
  <1> QED BY <1>1, <1>3, <1>4, <1>5, QuietStep

LEMMA StutterStep == ASSUME MailInv, UNCHANGED vars PROVE MailInv'
  <1>1. UNCHANGED <<pc, question, questions, asks, replies, copies, alarm, answer, told, source, said, disturbed, crossed>>
    BY DEF vars, net, ghosts
  <1>2. /\ pc' \in [Thread -> {"idle", "sent", "waiting", "received"}] /\ alarm' \in BOOLEAN
        /\ crossed' \subseteq Question
    BY <1>1 DEF MailInv, TypeOK
  <1> QED BY <1>1, <1>2, QuietStep DEF IsOpen, Awaits

LEMMA SendFailsStep == ASSUME MailInv, NEW t \in Thread, SendFails(t) PROVE MailInv'
  <1>1. /\ Begin(t) /\ told' = [told EXCEPT ![questions'] = "accept"]
        /\ UNCHANGED <<pc, asks, replies, copies, alarm, answer, source, said, disturbed>>
    BY DEF SendFails, net
  <1>2. /\ pc[t] = "idle" /\ questions' = questions + 1 /\ questions' \in Question
        /\ questions' \in Nat /\ questions' \in 0 .. MaxQuestions
        /\ question'[t] = questions' /\ \A u \in Thread \ {t} : question'[u] = question[u]
        /\ question' \in [Thread -> Question \cup {0}]
        /\ crossed \subseteq crossed' /\ crossed' \subseteq Question
    BY <1>1, BeginFacts
  <1>3. ~IsOpen(t)' /\ ~Awaits(t) /\ \A u \in Thread : (IsOpen(u)' <=> IsOpen(u)) /\ (Awaits(u)' <=> Awaits(u))
    BY <1>1, <1>2 DEF IsOpen, Awaits
  <1>4. /\ questions \in Nat /\ \A x \in asks : x.q \in Nat /\ x.q <= questions
        /\ \A x \in replies : x.q \in Nat /\ x.q <= questions
        /\ \A u \in Thread : IsOpen(u) => question[u] \in Nat /\ 1 <= question[u] /\ question[u] <= questions
    BY StateFacts DEF MailInv, Asked
  <1>5. told' \in [Question -> Verdict \cup {NONE}]
    BY <1>1 DEF MailInv, TypeOK, Verdict
  <1>6. TypeOK'
    BY <1>1, <1>2, <1>5 DEF MailInv, TypeOK
  <1>7. Asked'
    BY <1>1, <1>2, <1>3, <1>4 DEF Asked
  <1>8. Overlaps'
    BY <1>1, <1>2, BeginKeeps
  <1>9. disturbed \subseteq disturbed' /\ crossed \subseteq crossed'
    BY <1>1, <1>2
  <1>10. Single'
    BY <1>1, <1>9, SuspectGrows DEF MailInv, Single
  <1>11. ASSUME NEW q, AwaitedFor(q) PROVE AwaitedFor(q)'
    <2>1. CASE Suspect(q)
      BY <2>1, <1>9, SuspectGrows DEF AwaitedFor
    <2>2. CASE \E u \in Thread : Awaits(u) /\ question[u] = q
      BY <2>2, <1>2, <1>3 DEF AwaitedFor
    <2> QED BY <1>11, <2>1, <2>2 DEF AwaitedFor
  <1>12. Awaited'
    BY <1>1, <1>11 DEF MailInv, Awaited
  <1>13. Own'
    BY <1>1, <1>2, <1>9, SuspectGrows DEF MailInv, Own
  <1>14. OffOnlyIfDisturbed' /\ SaidBefore'
    BY <1>1, <1>9 DEF MailInv, OffOnlyIfDisturbed, SaidBefore
  <1>15. RefusedByGldOnly'
    BY <1>1 DEF MailInv, RefusedByGldOnly, TypeOK
  <1> QED BY <1>6, <1>7, <1>8, <1>10, <1>12, <1>13, <1>14, <1>15 DEF MailInv
-----------------------------------------------------------------------------
(***************************************************************************)
(* Whatever datagram a thread receives, it is the answer to its question,  *)
(* or an early question was disturbed or crossed.                          *)
(***************************************************************************)
LEMMA ReceivedRight ==
  ASSUME MailInv, NEW t \in Thread, Awaits(t), NEW r \in replies
  PROVE  OffOnly(r.q, question[t])
  <1> DEFINE p == r.q
             q == question[t]
  <1>1. /\ p \in Nat /\ p <= questions /\ q \in Nat /\ q <= questions /\ questions \in Nat
        /\ IsOpen(t) /\ disturbed \subseteq Nat /\ crossed \subseteq Nat
    BY StateFacts DEF MailInv, Asked, IsOpen, Awaits
  <1>2. Suspect(p) \/ \E u \in Thread : Awaits(u) /\ question[u] = p
    BY DEF MailInv, Awaited, AwaitedFor
  <1> HIDE DEF p, q
  <1>3. CASE q < p
    <2>1. q \in crossed
      BY <1>1, <1>3 DEF MailInv, Overlaps, q
    <2> QED BY <1>1, <1>3, <2>1 DEF OffOnly, Early, p, q
  <1>4. CASE p < q
    <2>1. CASE Suspect(p)
      <3>1. PICK d \in disturbed \cup crossed : d <= p
        BY <2>1 DEF Suspect, Early
      <3>2. d \in Nat /\ d <= q
        BY <1>1, <1>4, <3>1
      <3> QED BY <3>1, <3>2 DEF OffOnly, Early, p, q
    <2>2. ASSUME NEW u \in Thread, Awaits(u), question[u] = p PROVE OffOnly(p, q)
      <3>1. u # t /\ IsOpen(u)
        BY <1>1, <1>4, <2>2 DEF q, IsOpen, Awaits
      <3>2. p \in crossed
        BY <1>1, <2>2, <3>1 DEF MailInv, Overlaps
      <3> QED BY <1>1, <1>4, <3>2 DEF OffOnly, Early
    <2> QED BY <1>2, <2>1, <2>2 DEF p, q
  <1>5. CASE p = q
    BY <1>5 DEF OffOnly, p, q
  <1> QED BY <1>1, <1>3, <1>4, <1>5

(* a thread stops waiting; its question is suspect if it is still answered *)
LEMMA AwaitedLess ==
  ASSUME MailInv, NEW t \in Thread, NEW q, AwaitedFor(q),
         disturbed \subseteq disturbed', crossed \subseteq crossed', question' = question,
         \A u \in Thread \ {t} : Awaits(u)' <=> Awaits(u),
         question[t] = q => Suspect(q)'
  PROVE  AwaitedFor(q)'
  <1>1. CASE Suspect(q)
    BY <1>1, SuspectGrows DEF AwaitedFor
  <1>2. ASSUME NEW u \in Thread, Awaits(u), question[u] = q PROVE AwaitedFor(q)'
    BY <1>2 DEF AwaitedFor
  <1> QED BY <1>1, <1>2 DEF AwaitedFor

LEMMA ReceiveStep == ASSUME MailInv, NEW t \in Thread, NEW r \in replies, Receive(t, r) PROVE MailInv'
  <1> DEFINE v == IF r.says = Unusable THEN "accept" ELSE r.says
             a == [verdict |-> v, of |-> r.q]
  <1>1. /\ pc[t] = "waiting" /\ Goes(t, "received") /\ replies' = replies \ {r}
        /\ answer' = [answer EXCEPT ![t] = a]
        /\ UNCHANGED <<question, questions, asks, copies, alarm, told, source, said, disturbed, crossed>>
    BY DEF Receive, ghosts
  <1>2. r.says \in Says /\ r.q \in Question
    BY StateFacts
  <1>3. v \in Verdict /\ (v = "accept" \/ v = r.says)
    BY <1>2, MailNumbers DEF Verdict
  <1>4. a \in Answer /\ a.verdict = v /\ a.of = r.q
    BY <1>2, <1>3 DEF Answer
  <1> HIDE DEF a, v
  <1>5. /\ answer'[t] = a /\ \A u \in Thread \ {t} : answer'[u] = answer[u]
        /\ answer' \in [Thread -> Answer]
    BY <1>1, <1>4 DEF MailInv, TypeOK
  <1>6. /\ pc'[t] = "received" /\ \A u \in Thread \ {t} : pc'[u] = pc[u]
        /\ pc' \in [Thread -> {"idle", "sent", "waiting", "received"}]
        /\ IsOpen(t)' /\ IsOpen(t) /\ Awaits(t)
        /\ \A u \in Thread \ {t} : (IsOpen(u)' <=> IsOpen(u)) /\ (Awaits(u)' <=> Awaits(u))
    BY <1>1, Moves DEF MailInv, IsOpen, Awaits
  <1>7. disturbed \subseteq disturbed' /\ crossed \subseteq crossed'
    BY <1>1
  <1>8. OffOnly(r.q, question[t])
    BY <1>6, ReceivedRight
  <1>9. TypeOK'
    BY <1>1, <1>5, <1>6 DEF MailInv, TypeOK
  <1>10. Asked' /\ Overlaps'
    BY <1>1, <1>6 DEF MailInv, Asked, Overlaps
  <1>11. Single'
    BY <1>1, <1>7, SuspectGrows DEF MailInv, Single
  <1>12. Awaited'
    <2>1. ASSUME NEW q, AwaitedFor(q), question[t] = q => Suspect(q) PROVE AwaitedFor(q)'
      BY <1>1, <1>6, <1>7, <2>1, SuspectGrows, AwaitedLess
    <2>2. ASSUME NEW q, q = question[t], r.q # q PROVE Suspect(q)
      <3>1. r.q # 0
        BY <1>2, MailNumbers
      <3>2. Early(r.q, q)
        BY <1>8, <2>2, <3>1 DEF OffOnly
      <3> QED BY <3>2 DEF Early, Suspect
    <2>3. ASSUME NEW x \in asks' PROVE AwaitedFor(x.q)'
      <3>1. AwaitedFor(x.q) /\ (x.q = r.q => Suspect(x.q))
        BY <1>1 DEF MailInv, Awaited, Single
      <3> QED BY <2>1, <2>2, <3>1
    <2>4. ASSUME NEW x \in replies' PROVE AwaitedFor(x.q)'
      <3>1. AwaitedFor(x.q) /\ (x.q = r.q => Suspect(x.q))
        BY <1>1 DEF MailInv, Awaited, Single
      <3> QED BY <2>1, <2>2, <3>1
    <2> QED BY <2>3, <2>4 DEF Awaited
  <1>13. Own'
    <2>1. OffOnly(answer[t].of, question[t])'
      BY <1>1, <1>4, <1>5, <1>7, <1>8, SuspectGrows
    <2>2. \A u \in Thread \ {t} : pc'[u] = "received" => OffOnly(answer[u].of, question[u])'
      BY <1>1, <1>5, <1>6, <1>7, SuspectGrows DEF MailInv, Own
    <2> QED BY <2>1, <2>2 DEF Own
  <1>14. OffOnlyIfDisturbed' /\ RefusedByGldOnly'
    BY <1>1 DEF MailInv, OffOnlyIfDisturbed, RefusedByGldOnly
  <1>15. SaidBefore'
    <2>1. <<r.q, r.says>> \in said
      BY DEF MailInv, SaidBefore
    <2> QED BY <1>1, <1>3, <1>4, <1>5, <2>1 DEF MailInv, SaidBefore
  <1> QED BY <1>9, <1>10, <1>11, <1>12, <1>13, <1>14, <1>15 DEF MailInv

(* recvfrom() ends without a reply *)
LEMMA ExpireStep ==
  ASSUME MailInv, NEW t \in Thread, Expire(t) \/ ReceiveFails(t)
  PROVE  MailInv'
  <1>1. /\ alarm' \in {FALSE, alarm} /\ pc[t] = "waiting" /\ Goes(t, "received")
        /\ answer' = [answer EXCEPT ![t] = FailOpen] /\ disturbed' = disturbed \cup {question[t]}
        /\ UNCHANGED <<question, questions, asks, replies, copies, told, source, said, crossed>>
    BY DEF Expire, ReceiveFails, net
  <1>2. /\ answer'[t] = FailOpen /\ \A u \in Thread \ {t} : answer'[u] = answer[u]
        /\ answer' \in [Thread -> Answer]
    BY <1>1, MailNumbers DEF MailInv, TypeOK
  <1>3. /\ pc'[t] = "received" /\ \A u \in Thread \ {t} : pc'[u] = pc[u]
        /\ pc' \in [Thread -> {"idle", "sent", "waiting", "received"}]
        /\ IsOpen(t)' /\ IsOpen(t)
        /\ \A u \in Thread \ {t} : (IsOpen(u)' <=> IsOpen(u)) /\ (Awaits(u)' <=> Awaits(u))
    BY <1>1, Moves DEF MailInv, IsOpen
  <1>4. question[t] \in Question /\ question[t] \in Nat
    BY <1>3, StateFacts
  <1>5. disturbed \subseteq disturbed' /\ crossed \subseteq crossed' /\ disturbed' \subseteq Question
    BY <1>1, <1>4 DEF MailInv, TypeOK
  <1>6. Suspect(question[t])'
    BY <1>1, <1>4 DEF Suspect, Early
  <1>7. TypeOK'
    <2>1. alarm' \in BOOLEAN
      BY <1>1 DEF MailInv, TypeOK
    <2> QED BY <1>1, <1>2, <1>3, <1>5, <2>1 DEF MailInv, TypeOK
  <1>8. Asked' /\ Overlaps'
    BY <1>1, <1>3 DEF MailInv, Asked, Overlaps
  <1>9. Single'
    BY <1>1, <1>5, SuspectGrows DEF MailInv, Single
  <1>10. Awaited'
    <2>1. ASSUME NEW q, AwaitedFor(q) PROVE AwaitedFor(q)'
      <3>1. question[t] = q => Suspect(q)'
        BY <1>1, <1>4 DEF Suspect, Early
      <3> QED BY <1>1, <1>3, <1>5, <2>1, <3>1, AwaitedLess
    <2> QED BY <1>1, <2>1 DEF MailInv, Awaited
  <1>11. Own'
    <2>1. OffOnly(answer[t].of, question[t])'
      BY <1>2, MailNumbers DEF OffOnly
    <2>2. \A u \in Thread \ {t} : pc'[u] = "received" => OffOnly(answer[u].of, question[u])'
      BY <1>1, <1>2, <1>3, <1>5, SuspectGrows DEF MailInv, Own
    <2> QED BY <2>1, <2>2 DEF Own
  <1>12. OffOnlyIfDisturbed' /\ RefusedByGldOnly'
    BY <1>1, <1>5 DEF MailInv, OffOnlyIfDisturbed, RefusedByGldOnly
  <1>13. SaidBefore'
    BY <1>1, <1>2, MailNumbers DEF MailInv, SaidBefore
  <1> QED BY <1>7, <1>8, <1>9, <1>10, <1>11, <1>12, <1>13 DEF MailInv

LEMMA ReturnStep == ASSUME MailInv, NEW t \in Thread, Return(t) PROVE MailInv'
  <1> DEFINE q == question[t]
  <1>1. /\ pc[t] = "received" /\ Goes(t, "idle") /\ alarm' = FALSE
        /\ told' = [told EXCEPT ![q] = answer[t].verdict]
        /\ source' = [source EXCEPT ![q] = answer[t].of]
        /\ answer' = [answer EXCEPT ![t] = FailOpen]
        /\ UNCHANGED <<question, questions, asks, replies, copies, said, disturbed, crossed>>
    BY DEF Return, net, ghosts
  <1>2. /\ pc'[t] = "idle" /\ \A u \in Thread \ {t} : pc'[u] = pc[u]
        /\ pc' \in [Thread -> {"idle", "sent", "waiting", "received"}]
        /\ ~IsOpen(t)' /\ IsOpen(t) /\ ~Awaits(t)
        /\ \A u \in Thread \ {t} : (IsOpen(u)' <=> IsOpen(u)) /\ (Awaits(u)' <=> Awaits(u))
    BY <1>1, Moves DEF MailInv, IsOpen, Awaits
  <1>3. q \in Question
    BY <1>2, StateFacts
  <1>4. answer[t].verdict \in Verdict /\ answer[t].of \in Question \cup {0}
    BY DEF MailInv, TypeOK, Answer
  <1> HIDE DEF q
  <1>5. /\ told'[q] = answer[t].verdict /\ source'[q] = answer[t].of
        /\ \A p \in Question \ {q} : told'[p] = told[p] /\ source'[p] = source[p]
        /\ told' \in [Question -> Verdict \cup {NONE}] /\ source' \in [Question -> Question \cup {0}]
    BY <1>1, <1>3, <1>4 DEF MailInv, TypeOK
  <1>6. /\ answer'[t] = FailOpen /\ \A u \in Thread \ {t} : answer'[u] = answer[u]
        /\ answer' \in [Thread -> Answer]
    BY <1>1, MailNumbers DEF MailInv, TypeOK
  <1>7. TypeOK'
    <2>1. alarm' \in BOOLEAN
      BY <1>1
    <2> QED BY <1>1, <1>2, <1>5, <1>6, <2>1 DEF MailInv, TypeOK
  <1>8. Asked' /\ Overlaps'
    BY <1>1, <1>2 DEF MailInv, Asked, Overlaps
  <1>9. Single'
    BY <1>1, SuspectGrows DEF MailInv, Single
  <1>10. Awaited'
    <2>1. ASSUME NEW p, AwaitedFor(p) PROVE AwaitedFor(p)'
      <3>1. CASE Suspect(p)
        BY <1>1, <3>1, SuspectGrows DEF AwaitedFor
      <3>2. CASE \E u \in Thread : Awaits(u) /\ question[u] = p
        BY <1>1, <1>2, <3>2 DEF AwaitedFor
      <3> QED BY <2>1, <3>1, <3>2 DEF AwaitedFor
    <2> QED BY <1>1, <2>1 DEF MailInv, Awaited
  <1>11. Own'
    BY <1>1, <1>2, <1>6, SuspectGrows DEF MailInv, Own
  <1>12. OffOnlyIfDisturbed'
    <2>1. OffOnly(answer[t].of, q)
      BY <1>1 DEF MailInv, Own, q
    <2>2. source'[q] \in {0, q} \/ \E d \in disturbed' \cup crossed' : d <= source'[q] /\ d <= q
      BY <1>1, <1>5, <2>1 DEF OffOnly, Early
    <2> QED BY <1>1, <1>5, <2>2 DEF MailInv, OffOnlyIfDisturbed
  <1>13. SaidBefore'
    BY <1>1, <1>6, MailNumbers DEF MailInv, SaidBefore
  <1>14. RefusedByGldOnly'
    <2>1. answer[t].verdict = "accept" \/ <<answer[t].of, answer[t].verdict>> \in said
      BY DEF MailInv, SaidBefore
    <2> QED BY <1>1, <1>5, <2>1 DEF MailInv, RefusedByGldOnly
  <1> QED BY <1>7, <1>8, <1>9, <1>10, <1>11, <1>12, <1>13, <1>14 DEF MailInv

LEMMA ServeStep ==
  ASSUME MailInv, NEW a \in asks, NEW says \in Says, Serve(a, says)
  PROVE  MailInv'
  <1> DEFINE r == [q |-> a.q, copy |-> a.copy, says |-> says]
  <1>1. /\ asks' = asks \ {a} /\ replies' = replies \cup {r} /\ said' = said \cup {<<a.q, says>>}
        /\ UNCHANGED <<pc, question, questions, copies, alarm, answer, told, source, disturbed, crossed>>
    BY DEF Serve
  <1>2. r \in Reply /\ r.q = a.q /\ r.says = says /\ a.q \in Question
    BY StateFacts DEF Ask, Reply
  <1> HIDE DEF r
  <1>3. disturbed \subseteq disturbed' /\ crossed \subseteq crossed' /\ said \subseteq said'
    BY <1>1
  <1>4. TypeOK'
    BY <1>1, <1>2 DEF MailInv, TypeOK
  <1>5. Asked'
    BY <1>1, <1>2 DEF MailInv, Asked, IsOpen
  <1>6. Overlaps'
    BY <1>1 DEF MailInv, Overlaps, IsOpen
  <1>7. Single'
    <2>1. \A x, y \in asks' : x.q = y.q => x = y \/ Suspect(x.q)'
      BY <1>1, <1>3, SuspectGrows DEF MailInv, Single
    <2>2. \A x \in asks : x.q = a.q => x = a \/ Suspect(x.q)
      BY DEF MailInv, Single
    <2>3. \A y \in replies : a.q = y.q => Suspect(y.q)
      BY DEF MailInv, Single
    <2>4. \A x, y \in replies' : x.q = y.q => x = y \/ Suspect(x.q)'
      BY <1>1, <1>2, <1>3, <2>3, SuspectGrows DEF MailInv, Single
    <2>5. \A x \in asks', y \in replies' : x.q = y.q => Suspect(x.q)'
      BY <1>1, <1>2, <1>3, <2>2, SuspectGrows DEF MailInv, Single
    <2> QED BY <2>1, <2>4, <2>5 DEF Single
  <1>8. Awaited'
    <2>1. ASSUME NEW q, AwaitedFor(q) PROVE AwaitedFor(q)'
      BY <1>1, <1>3, <2>1, SuspectGrows DEF AwaitedFor, Awaits
    <2> QED BY <1>1, <1>2, <2>1 DEF MailInv, Awaited
  <1>9. Own'
    BY <1>1, <1>3, SuspectGrows DEF MailInv, Own
  <1>10. OffOnlyIfDisturbed'
    BY <1>1 DEF MailInv, OffOnlyIfDisturbed
  <1>11. SaidBefore'
    BY <1>1, <1>2, <1>3 DEF MailInv, SaidBefore
  <1>12. RefusedByGldOnly'
    BY <1>1, <1>3 DEF MailInv, RefusedByGldOnly
  <1> QED BY <1>4, <1>5, <1>6, <1>7, <1>8, <1>9, <1>10, <1>11, <1>12 DEF MailInv

(* A datagram is doubled: its question is disturbed, and nothing else about it changes. *)
LEMMA DuplicateStep == ASSUME MailInv, Duplicate PROVE MailInv'
  <1>1. /\ copies < MaxDuplicates /\ copies' = copies + 1
        /\ UNCHANGED <<pc, question, questions, alarm, answer, told, source, said, crossed>>
    BY DEF Duplicate
  <1>2. PICK q \in Question :
          /\ disturbed' = disturbed \cup {q} /\ q <= questions /\ AwaitedFor(q)
          /\ asks \subseteq asks' /\ asks' \subseteq Ask /\ \A x \in asks' : x \in asks \/ x.q = q
          /\ replies \subseteq replies' /\ replies' \subseteq Reply
          /\ \A x \in replies' : x \in replies \/ (x.q = q /\ \E y \in replies : y.q = q /\ x.says = y.says)
    <2>1. copies' \in 0 .. MaxDuplicates
      BY <1>1, MailNumbers DEF MailInv, TypeOK
    <2>2. ASSUME NEW a \in asks, asks' = asks \cup {[a EXCEPT !.copy = copies']},
                 disturbed' = disturbed \cup {a.q}, UNCHANGED replies
          PROVE  /\ a.q \in Question /\ a.q <= questions /\ AwaitedFor(a.q)
                 /\ asks \subseteq asks' /\ asks' \subseteq Ask /\ \A x \in asks' : x \in asks \/ x.q = a.q
                 /\ replies' \subseteq Reply
      <3>1. a \in Ask /\ a.q \in Question /\ a.q <= questions /\ AwaitedFor(a.q)
        BY StateFacts DEF MailInv, Asked, Awaited
      <3>2. [a EXCEPT !.copy = copies'] \in Ask /\ [a EXCEPT !.copy = copies'].q = a.q
        BY <2>1, <3>1 DEF Ask
      <3> QED BY <2>2, <3>1, <3>2 DEF MailInv, TypeOK
    <2>3. ASSUME NEW r \in replies, replies' = replies \cup {[r EXCEPT !.copy = copies']},
                 disturbed' = disturbed \cup {r.q}, UNCHANGED asks
          PROVE  /\ r.q \in Question /\ r.q <= questions /\ AwaitedFor(r.q)
                 /\ replies \subseteq replies' /\ replies' \subseteq Reply
                 /\ \A x \in replies' : x \in replies \/ (x.q = r.q /\ x.says = r.says)
                 /\ asks' \subseteq Ask
      <3>1. r \in Reply /\ r.q \in Question /\ r.q <= questions /\ AwaitedFor(r.q)
        BY StateFacts DEF MailInv, Asked, Awaited
      <3>2. /\ [r EXCEPT !.copy = copies'] \in Reply
            /\ [r EXCEPT !.copy = copies'].q = r.q /\ [r EXCEPT !.copy = copies'].says = r.says
        BY <2>1, <3>1 DEF Reply
      <3> QED BY <2>3, <3>1, <3>2 DEF MailInv, TypeOK
    <2>4. CASE \E a \in asks : /\ asks' = asks \cup {[a EXCEPT !.copy = copies']}
                               /\ disturbed' = disturbed \cup {a.q} /\ UNCHANGED replies
      BY <2>2, <2>4
    <2>5. CASE \E r \in replies : /\ replies' = replies \cup {[r EXCEPT !.copy = copies']}
                                  /\ disturbed' = disturbed \cup {r.q} /\ UNCHANGED asks
      BY <2>3, <2>5
    <2> QED BY <2>4, <2>5 DEF Duplicate
  <1>3. disturbed \subseteq disturbed' /\ crossed \subseteq crossed'
    BY <1>1, <1>2
  <1>4. ASSUME NEW p, p = q PROVE Suspect(p)'
    BY <1>2, <1>4, MailNumbers DEF Suspect, Early
  <1>5. TypeOK'
    <2>1. copies' \in 0 .. MaxDuplicates
      BY <1>1, MailNumbers DEF MailInv, TypeOK
    <2> QED BY <1>1, <1>2, <2>1 DEF MailInv, TypeOK
  <1>6. Asked'
    BY <1>1, <1>2 DEF MailInv, Asked, IsOpen
  <1>7. Overlaps'
    BY <1>1 DEF MailInv, Overlaps, IsOpen
  <1>8. Single'
    <2>1. \A x, y \in asks' : x.q = y.q => x = y \/ Suspect(x.q)'
      BY <1>2, <1>3, <1>4, SuspectGrows DEF MailInv, Single
    <2>2. \A x, y \in replies' : x.q = y.q => x = y \/ Suspect(x.q)'
      BY <1>2, <1>3, <1>4, SuspectGrows DEF MailInv, Single
    <2>3. \A x \in asks', y \in replies' : x.q = y.q => Suspect(x.q)'
      BY <1>2, <1>3, <1>4, SuspectGrows DEF MailInv, Single
    <2> QED BY <2>1, <2>2, <2>3 DEF Single
  <1>9. Awaited'
    <2>1. ASSUME NEW p, AwaitedFor(p) PROVE AwaitedFor(p)'
      BY <1>1, <1>3, <2>1, SuspectGrows DEF AwaitedFor, Awaits
    <2> QED BY <1>2, <2>1 DEF MailInv, Awaited
  <1>10. Own'
    BY <1>1, <1>3, SuspectGrows DEF MailInv, Own
  <1>11. OffOnlyIfDisturbed'
    BY <1>1, <1>3 DEF MailInv, OffOnlyIfDisturbed
  <1>12. SaidBefore'
    BY <1>1, <1>2 DEF MailInv, SaidBefore
  <1>13. RefusedByGldOnly'
    BY <1>1 DEF MailInv, RefusedByGldOnly
  <1> QED BY <1>5, <1>6, <1>7, <1>8, <1>9, <1>10, <1>11, <1>12, <1>13 DEF MailInv

LEMMA MailStep == MailInv /\ [Next]_vars => MailInv'
  <1> SUFFICES ASSUME MailInv, [Next]_vars PROVE MailInv'
    OBVIOUS
  <1>1. ASSUME NEW t \in Thread, Send(t) \/ SendFails(t) \/ Wait(t) \/ Return(t) PROVE MailInv'
    BY <1>1, SendStep, SendFailsStep, WaitStep, ReturnStep
  <1>2. ASSUME NEW t \in Thread, NEW r \in replies, Receive(t, r) PROVE MailInv'
    BY <1>2, ReceiveStep
  <1>3. ASSUME NEW t \in Thread, Expire(t) \/ ExpireElsewhere(t) \/ ReceiveFails(t) PROVE MailInv'
    BY <1>3, ExpireStep, ExpireElsewhereStep
  <1>4. ASSUME NEW a \in asks, NEW says \in Says, Serve(a, says) PROVE MailInv'
    BY <1>4, ServeStep
  <1>5. CASE Duplicate
    BY <1>5, DuplicateStep
  <1>6. CASE UNCHANGED vars
    BY <1>6, StutterStep
  <1> QED BY <1>1, <1>2, <1>3, <1>4, <1>5, <1>6 DEF Next, Runs, AlarmFires

LEMMA MailInvariance == Spec => []MailInv
  BY MailInit, MailStep, PTL DEF Spec

(***************************************************************************)
(* check_greylist() of pfc and smc keep their types, for any number of     *)
(* threads, questions and doubled datagrams.                               *)
(***************************************************************************)
THEOREM MailTypeCorrect == Spec => []TypeOK
  <1>1. MailInv => TypeOK
    BY DEF MailInv
  <1> QED BY <1>1, MailInvariance, PTL

(***************************************************************************)
(* Answers are off only if a question was disturbed or crossed, for any    *)
(* number of threads, questions and doubled datagrams, and any delays.     *)
(***************************************************************************)
THEOREM AlwaysOffOnlyIfDisturbed == Spec => []OffOnlyIfDisturbed
  <1>1. MailInv => OffOnlyIfDisturbed
    BY DEF MailInv
  <1> QED BY <1>1, MailInvariance, PTL

(***************************************************************************)
(* A mail is deferred or refused on gld's word only, whatever is late,     *)
(* doubled, damaged or lost.                                               *)
(***************************************************************************)
THEOREM AlwaysRefusedByGldOnly == Spec => []RefusedByGldOnly
  <1>1. MailInv => RefusedByGldOnly
    BY DEF MailInv
  <1> QED BY <1>1, MailInvariance, PTL
=============================================================================
