-------------------------- MODULE UploadPlanProofs --------------------------
(***************************************************************************)
(* Page and server cut every file alike, whatever its size and the size of *)
(* a part.  All follows from one fact on the number of parts: the last     *)
(* part begins before the end of the file and a part behind it would not.  *)
(***************************************************************************)
EXTENDS UploadPlan, TLAPS

-----------------------------------------------------------------------------
(* Division of Go and of TLA+, for positive numbers.                       *)
LEMMA Quotient ==
    ASSUME NEW a \in Nat, NEW b \in Nat, b > 0
    PROVE  /\ a \div b \in Nat
           /\ (a \div b) * b <= a
           /\ a < (a \div b) * b + b
BY SMT

LEMMA LessTimes ==
    ASSUME NEW m \in Int, NEW n \in Int, NEW b \in Nat, b > 0, m <= n
    PROVE  /\ m * b \in Int
           /\ n * b \in Int
           /\ m * b <= n * b
BY SMT

LEMMA Successor ==
    ASSUME NEW n \in Int, NEW b \in Int
    PROVE  (n + 1) * b = n * b + b /\ (n - 1) * b = n * b - b
BY SMT

(* The parts reach the end of the file, and the last one is needed.        *)
LEMMA PartCountBounds ==
    ASSUME NEW size \in Nat, NEW chunk \in Nat, chunk > 0
    PROVE  /\ PartCount(size, chunk) \in Nat
           /\ PartCount(size, chunk) >= 1
           /\ size <= PartCount(size, chunk) * chunk
           /\ size > 0 => PartCount(size, chunk) * chunk - chunk < size
<1>1. CASE size = 0
  <2>1. PartCount(size, chunk) = 1
    BY <1>1 DEF PartCount
  <2> QED
    BY <1>1, <2>1
<1>2. CASE size > 0
  <2> DEFINE a == size + chunk - 1
             q == a \div chunk
  <2>1. a \in Nat /\ PartCount(size, chunk) = q
    BY <1>2 DEF PartCount
  <2>2. q \in Nat /\ q * chunk <= a /\ a < q * chunk + chunk
    <3> HIDE DEF a
    <3> QED BY <2>1, Quotient
  <2>3. q * chunk \in Int
    <3> HIDE DEF q
    <3> QED BY <2>2
  <2>4. size <= q * chunk /\ q * chunk - chunk < size
    <3> HIDE DEF q
    <3> QED BY <2>2, <2>3
  <2>5. q # 0
    <3> HIDE DEF q
    <3> SUFFICES ASSUME q = 0 PROVE FALSE
      OBVIOUS
    <3> QED BY <2>4, <1>2
  <2> HIDE DEF q
  <2> QED
    BY <2>1, <2>2, <2>4, <2>5
<1> QED
  BY <1>1, <1>2

(* Where a part lies.                                                      *)
LEMMA PartPlace ==
    ASSUME NEW size \in Nat, NEW chunk \in Nat, chunk > 0,
           NEW index \in Indexes(size, chunk)
    PROVE  /\ index \in Nat
           /\ index * chunk \in Nat
           /\ size > 0 => index * chunk < size
           /\ index < PartCount(size, chunk) - 1 => index * chunk + chunk < size
           /\ index = PartCount(size, chunk) - 1 => size <= index * chunk + chunk
           /\ index <= PartCount(size, chunk) - 1
<1> DEFINE n == PartCount(size, chunk)
<1>1. n \in Nat /\ n >= 1 /\ size <= n * chunk /\ (size > 0 => n * chunk - chunk < size)
  BY PartCountBounds
<1>2. index \in Nat /\ index <= n - 1
  BY <1>1 DEF Indexes
<1> HIDE DEF n
<1>3. n * chunk \in Int /\ index * chunk \in Int /\ (n - 1) * chunk = n * chunk - chunk
  BY <1>1, <1>2, Successor
<1>4. index * chunk <= n * chunk - chunk
  BY <1>1, <1>2, <1>3, LessTimes
<1>5. index * chunk >= 0
  BY <1>2, LessTimes
<1>6. ASSUME index < n - 1 PROVE index * chunk + chunk <= n * chunk - chunk /\ size > 0
  <2>1. index + 1 <= n - 1
    BY <1>1, <1>2, <1>6
  <2>2. (index + 1) * chunk <= (n - 1) * chunk /\ (index + 1) * chunk = index * chunk + chunk
    BY <1>1, <1>2, <2>1, LessTimes, Successor
  <2>3. size # 0
    <3> SUFFICES ASSUME size = 0 PROVE n = 1
      BY <1>2, <1>6, <1>1
    <3> QED
      BY DEF n, PartCount
  <2> QED
    BY <2>2, <2>3, <1>3
<1>7. ASSUME index = n - 1 PROVE index * chunk + chunk = n * chunk
  BY <1>7, <1>3
<1> QED
  BY <1>1, <1>2, <1>3, <1>4, <1>5, <1>6, <1>7 DEF n

-----------------------------------------------------------------------------
(* Page and server agree on the length of every part of every file, and    *)
(* WritePart accepts a body of that length and no other.                   *)
THEOREM PartsAgree ==
    \A size \in Nat, chunk \in Nat \ {0} :
        \A index \in Indexes(size, chunk), length \in Nat :
            SliceIsExpected(size, chunk, index, length)
<1> SUFFICES ASSUME NEW size \in Nat, NEW chunk \in Nat \ {0},
                    NEW index \in Indexes(size, chunk), NEW length \in Nat
             PROVE  SliceIsExpected(size, chunk, index, length)
  OBVIOUS
<1> DEFINE n == PartCount(size, chunk)
           s == index * chunk
           e == ExpectedPartSize(size, chunk, index)
<1>1. /\ chunk \in Nat /\ chunk > 0
      /\ index \in Nat /\ s \in Nat /\ index <= n - 1
      /\ size > 0 => s < size
      /\ index < n - 1 => s + chunk < size
      /\ index = n - 1 => size <= s + chunk
      /\ n \in Nat /\ n >= 1
  BY PartPlace, PartCountBounds
<1>2. size = 0 => s = 0
  <2> SUFFICES ASSUME size = 0 PROVE index = 0
    BY <1>1
  <2> QED
    BY <1>1 DEF n, PartCount
<1>3. SliceSize(size, chunk, index) = IF size < s + chunk THEN size - s ELSE chunk
  BY <1>1 DEF SliceSize, SliceEnd, SliceStart
<1>4. e = IF size = 0 THEN 0 ELSE IF index < n - 1 \/ size - s = 0 THEN chunk ELSE size - s
  BY DEF ExpectedPartSize, Remaining
<1>5. SliceSize(size, chunk, index) = e /\ e \in Nat
  <2> HIDE DEF n, s, e
  <2> QED BY <1>1, <1>2, <1>3, <1>4
<1>6. ExpectedStatusPartSize(size, chunk, index) = e
  BY DEF ExpectedStatusPartSize
<1>7. Accepted(size, chunk, index, length) <=> length = e
  <2> HIDE DEF e
  <2>1. Accepted(size, chunk, index, length) <=> (IF length < e + 1 THEN length ELSE e + 1) = e
    BY DEF Accepted, e
  <2> QED
    BY <2>1, <1>5
<1> QED
  BY <1>5, <1>6, <1>7 DEF SliceIsExpected

(* The parts of every file, put together in their order, are the file.     *)
THEOREM PartsAreTheFile ==
    \A size \in Nat, chunk \in Nat \ {0} : PartsJoin(size, chunk)
<1> SUFFICES ASSUME NEW size \in Nat, NEW chunk \in Nat \ {0}
             PROVE  PartsJoin(size, chunk)
  OBVIOUS
<1> DEFINE n == PartCount(size, chunk)
<1>1. chunk \in Nat /\ chunk > 0 /\ n \in Nat /\ n >= 1
  BY PartCountBounds
<1>2. SliceStart(chunk, 0) = 0
  BY <1>1 DEF SliceStart
<1>3. SliceEnd(size, chunk, n - 1) = size
  <2>1. n - 1 \in Indexes(size, chunk)
    BY <1>1 DEF Indexes
  <2>2. (n - 1) * chunk \in Nat /\ size <= (n - 1) * chunk + chunk
    BY <1>1, <2>1, PartPlace
  <2> QED
    BY <1>1, <2>2 DEF SliceEnd, SliceStart
<1>4. ASSUME NEW index \in Indexes(size, chunk) \ {n - 1}
      PROVE  SliceEnd(size, chunk, index) = SliceStart(chunk, index + 1)
  <2>1. index \in Nat /\ index * chunk \in Nat /\ index * chunk + chunk < size
    BY <1>1, PartPlace
  <2>2. (index + 1) * chunk = index * chunk + chunk
    BY <1>1, <2>1, Successor
  <2> QED
    BY <1>1, <2>1, <2>2 DEF SliceEnd, SliceStart
<1>5. ASSUME size > 0, NEW index \in Indexes(size, chunk)
      PROVE  SliceSize(size, chunk, index) \in 1..chunk
  <2>1. index * chunk \in Nat /\ index * chunk < size
    BY <1>1, <1>5, PartPlace
  <2> QED
    BY <1>1, <2>1 DEF SliceSize, SliceEnd, SliceStart
<1> QED
  BY <1>1, <1>2, <1>3, <1>4, <1>5 DEF PartsJoin

(* No byte is sent twice or left out.                                      *)
THEOREM BytesAreSentOnce ==
    \A size \in Nat, chunk \in Nat \ {0} :
        \A byte \in 0..size - 1 : ByteInOnePart(size, chunk, byte)
<1> SUFFICES ASSUME NEW size \in Nat, NEW chunk \in Nat \ {0}, NEW byte \in 0..size - 1
             PROVE  ByteInOnePart(size, chunk, byte)
  OBVIOUS
<1> DEFINE n == PartCount(size, chunk)
           i == byte \div chunk
<1>1. /\ chunk \in Nat /\ chunk > 0 /\ byte \in Nat /\ byte < size
      /\ n \in Nat /\ n >= 1 /\ size <= n * chunk
  BY PartCountBounds
<1>2. i \in Nat /\ i * chunk <= byte /\ byte < i * chunk + chunk
  BY <1>1, Quotient
<1> HIDE DEF i
<1>3. i \in Indexes(size, chunk)
  <2>1. ASSUME n <= i PROVE FALSE
    <3>1. n * chunk \in Int /\ i * chunk \in Int /\ n * chunk <= i * chunk
      BY <1>1, <1>2, <2>1, LessTimes
    <3> QED
      BY <1>1, <1>2, <3>1
  <2> QED
    BY <1>1, <1>2, <2>1 DEF Indexes
<1>4. ASSUME NEW other \in Indexes(size, chunk)
      PROVE  (SliceStart(chunk, other) <= byte /\ byte < SliceEnd(size, chunk, other)) <=> other = i
  <2>1. other \in Nat /\ other * chunk \in Nat /\ i * chunk \in Int
    BY <1>1, <1>2, PartPlace
  <2>2. (SliceStart(chunk, other) <= byte /\ byte < SliceEnd(size, chunk, other))
            <=> (other * chunk <= byte /\ byte < other * chunk + chunk)
    BY <1>1, <2>1 DEF SliceStart, SliceEnd
  <2>3. ASSUME other < i PROVE other * chunk + chunk <= i * chunk
    <3>1. other + 1 <= i /\ other + 1 \in Int
      BY <1>2, <2>1, <2>3
    <3> QED
      BY <1>1, <1>2, <2>1, <3>1, LessTimes, Successor
  <2>4. ASSUME i < other PROVE i * chunk + chunk <= other * chunk
    <3>1. i + 1 <= other /\ i + 1 \in Int
      BY <1>2, <2>1, <2>4
    <3> QED
      BY <1>1, <1>2, <2>1, <3>1, LessTimes, Successor
  <2>5. other < i \/ other = i \/ i < other
    BY <1>2, <2>1
  <2> QED
    BY <1>1, <1>2, <2>1, <2>2, <2>3, <2>4, <2>5
<1> QED
  BY <1>3, <1>4 DEF ByteInOnePart

(* The bound on parts that Validate computes for the largest file holds    *)
(* for every smaller one, the empty one included.                          *)
THEOREM AdmittedSizesFit ==
    \A size, maxBytes \in Int, chunk, maxParts \in Int :
        LimitsAgree(size, maxBytes, chunk, maxParts)
<1> SUFFICES ASSUME NEW size \in Int, NEW maxBytes \in Int, NEW chunk \in Int, NEW maxParts \in Int,
                    LimitsValid(maxBytes, chunk, maxParts), size \in 0..maxBytes
             PROVE  PartCount(size, chunk) <= maxParts
  BY DEF LimitsAgree, RequestValid
<1>1. size \in Nat /\ size <= maxBytes /\ maxBytes \in Nat /\ chunk \in Nat /\ chunk > 0 /\ maxParts >= 1
  BY DEF LimitsValid
<1>2. CASE size = 0
  BY <1>1, <1>2 DEF PartCount
<1>3. CASE size > 0
  <2> DEFINE n == PartCount(size, chunk)
             m == PartCount(maxBytes, chunk)
  <2>1. m <= maxParts
    BY <1>1, <1>3 DEF PartCount, LimitsValid
  <2>2. n \in Nat /\ m \in Nat /\ n * chunk - chunk < size /\ maxBytes <= m * chunk
    BY <1>1, <1>3, PartCountBounds
  <2> HIDE DEF n, m
  <2>3. ASSUME m + 1 <= n PROVE FALSE
    <3>1. (m + 1) * chunk <= n * chunk /\ (m + 1) * chunk = m * chunk + chunk
      BY <1>1, <2>2, <2>3, LessTimes, Successor
    <3>2. m * chunk \in Int /\ n * chunk \in Int
      BY <1>1, <2>2
    <3> QED
      BY <1>1, <2>2, <3>1, <3>2
  <2> QED
    BY <1>1, <2>1, <2>2, <2>3 DEF n
<1> QED
  BY <1>1, <1>2, <1>3
=============================================================================
