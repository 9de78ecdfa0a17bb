----------------------------- MODULE FormProofs -----------------------------
(***************************************************************************)
(* What form_url_decode, html_escape_attr and basic_token do to a text,    *)
(* for texts of every length: decoding undoes the browser's encoding, a    *)
(* text that fits its slot survives the page, and the token tells any two  *)
(* credentials apart.  Of StorageProofs only the facts about texts and     *)
(* configurations are used.                                                *)
(***************************************************************************)
EXTENDS WebForm, StorageProofs

LEMMA IntervalSize ==
    ASSUME NEW n \in Nat
    PROVE  IsFiniteSet(1..n) /\ Cardinality(1..n) = n
BY FS_Interval

-----------------------------------------------------------------------------
(* The browser's encoding.                                                 *)

\* The code of one byte.
LEMMA EncodedByte ==
    ASSUME NEW b \in Byte
    PROVE  /\ ~Escaped(b) => /\ Encoded(b) = <<IF b = Space THEN Plus ELSE b>>
                             /\ b # Percent /\ b # Plus
           /\ Escaped(b) => /\ Encoded(b) = <<Percent, Digit(b \div 16), Digit(b % 16)>>
                            /\ b \div 16 \in 0..15 /\ b % 16 \in 0..15
                            /\ 16 * (b \div 16) + (b % 16) = b
<1>1. b \in Nat /\ b <= 255
    BY DEF Byte
<1>2. ~Escaped(b) => /\ Encoded(b) = <<IF b = Space THEN Plus ELSE b>>
                     /\ b # Percent /\ b # Plus
    BY <1>1 DEF Escaped, Encoded, Unreserved, Space, Plus, Percent
<1>3. Escaped(b) => Encoded(b) = <<Percent, Digit(b \div 16), Digit(b % 16)>>
    BY DEF Escaped, Encoded
<1>4. b \div 16 \in 0..15
    BY <1>1, SMT
<1>5. b % 16 \in 0..15
    BY <1>1, SMT
<1>6. 16 * (b \div 16) + (b % 16) = b
    BY <1>1, SMT
<1> QED BY <1>2, <1>3, <1>4, <1>5, <1>6, Zenon

LEMMA DigitValue ==
    ASSUME NEW n \in 0..15
    PROVE  /\ Digit(n) \in Byte /\ Digit(n) \in HexDigit
           /\ Digit(n) # Percent /\ HexValue(Digit(n)) = n
BY DEF Digit, HexDigit, HexValue, Byte, Percent

\* The code of a byte begins where the one before it ends.
LEMMA StartNext ==
    ASSUME NEW s \in Seq(Byte)
    PROVE  /\ Start(s, 1) = 1
           /\ \A i \in 1..Len(s) + 1 : Start(s, i) \in Nat /\ Start(s, i) >= i
           /\ \A i \in 1..Len(s) :
                  Start(s, i + 1) = Start(s, i) + (IF Escaped(s[i]) THEN 3 ELSE 1)
<1> DEFINE E(i) == {j \in 1..i - 1 : Escaped(s[j])}
<1>1. PICK n \in Nat : n = Len(s)
    OBVIOUS
<1>2. ASSUME NEW i \in 1..n + 1
      PROVE  IsFiniteSet(E(i)) /\ Cardinality(E(i)) \in Nat
  <2>1. IsFiniteSet(1..i - 1) /\ E(i) \in SUBSET (1..i - 1)
      BY FS_Interval
  <2> QED BY <2>1, FS_Subset, FS_CardinalityType
<1>3. \A i \in 1..n + 1 : Start(s, i) = i + 2 * Cardinality(E(i))
    BY DEF Start
<1>4. E(1) = {}
    OBVIOUS
<1>5. ASSUME NEW i \in 1..n
      PROVE  Cardinality(E(i + 1)) =
                 IF Escaped(s[i]) THEN Cardinality(E(i)) + 1 ELSE Cardinality(E(i))
  <2>1. i \in 1..n + 1 /\ i \notin E(i)
      OBVIOUS
  <2>2. CASE Escaped(s[i])
    <3>1. E(i + 1) = E(i) \union {i}
        BY <2>2
    <3> HIDE DEF E
    <3> QED BY <1>2, <2>1, <2>2, <3>1, FS_AddElement
  <2>3. CASE ~Escaped(s[i])
    <3>1. E(i + 1) = E(i)
        BY <2>3
    <3> QED BY <2>3, <3>1, Zenon
  <2> QED BY <2>2, <2>3
<1> HIDE DEF E
<1>6. Start(s, 1) = 1
    BY <1>3, <1>4, FS_EmptySet
<1>7. \A i \in 1..n + 1 : Start(s, i) \in Nat /\ Start(s, i) >= i
    BY <1>2, <1>3
<1>8. ASSUME NEW i \in 1..n
      PROVE  Start(s, i + 1) = Start(s, i) + (IF Escaped(s[i]) THEN 3 ELSE 1)
  <2>1. i \in 1..n + 1 /\ i + 1 \in 1..n + 1
      OBVIOUS
  <2>2. PICK a \in Nat : a = Cardinality(E(i))
      BY <1>2, <2>1
  <2>3. Start(s, i) = i + 2 * a
      BY <1>3, <2>1, <2>2
  <2>4. Start(s, i + 1) = i + 1 + 2 * (IF Escaped(s[i]) THEN a + 1 ELSE a)
      BY <1>3, <1>5, <2>1, <2>2
  <2> QED BY <2>3, <2>4
<1> QED BY <1>1, <1>6, <1>7, <1>8

\* Codes do not overlap.
LEMMA StartMonotone ==
    ASSUME NEW s \in Seq(Byte), NEW i \in 1..Len(s) + 1, NEW j \in 1..Len(s) + 1, i <= j
    PROVE  Start(s, i) + (j - i) <= Start(s, j)
<1> DEFINE E(k) == {m \in 1..k - 1 : Escaped(s[m])}
<1>1. E(i) \in SUBSET E(j) /\ E(j) \in SUBSET (1..j - 1)
    OBVIOUS
<1>2. IsFiniteSet(1..j - 1)
    BY FS_Interval
<1> DEFINE Ei == E(i)  Ej == E(j)
<1> HIDE DEF E
<1>8. IsFiniteSet(Ej)
    BY <1>1, <1>2, FS_Subset
<1>3. IsFiniteSet(Ei) /\ Cardinality(Ei) <= Cardinality(Ej)
    BY <1>1, <1>8, FS_Subset
<1>4. Cardinality(Ei) \in Nat /\ Cardinality(Ej) \in Nat
    BY <1>8, <1>3, FS_CardinalityType
<1>5. Start(s, i) = i + 2 * Cardinality(Ei) /\ Start(s, j) = j + 2 * Cardinality(Ej)
    BY DEF Start, E
<1> HIDE DEF Ei, Ej
<1>6. PICK a \in Nat, b \in Nat : a = Cardinality(Ei) /\ b = Cardinality(Ej)
    BY <1>4
<1>7. i \in Nat /\ j \in Nat
    OBVIOUS
<1> QED BY <1>3, <1>5, <1>6, <1>7

\* Every position of the encoding lies in the code of some byte, and of one only.
LEMMA CodeOf ==
    ASSUME NEW s \in Seq(Byte), NEW k \in Nat, k >= 1, k < Start(s, Len(s) + 1)
    PROVE  \E i \in 1..Len(s) : /\ Start(s, i) <= k /\ k < Start(s, i + 1)
                                /\ \A j \in 1..Len(s) :
                                       Start(s, j) <= k /\ k < Start(s, j + 1) => j = i
<1>1. PICK n \in Nat : n = Len(s)
    OBVIOUS
<1> DEFINE After == {j \in 1..n + 1 : k < Start(s, j)}
<1>2. After \subseteq Nat /\ n + 1 \in After
    BY <1>1
<1>3. PICK j \in After : \A m \in After : j <= m
    BY <1>2, Least
<1>4. j \in 1..n + 1 /\ k < Start(s, j) /\ j # 1
    BY <1>3, StartNext
<1>5. j - 1 \in 1..n /\ (j - 1) + 1 = j
    BY <1>4
<1>6. Start(s, j - 1) <= k
  <2>1. j - 1 \notin After
      BY <1>3, <1>5
  <2>2. Start(s, j - 1) \in Nat
      BY <1>1, <1>5, StartNext
  <2> QED BY <1>5, <2>1, <2>2
<1>7. ASSUME NEW m \in 1..n, Start(s, m) <= k, k < Start(s, m + 1)
      PROVE  m = j - 1
  <2>1. m \in 1..n + 1 /\ m + 1 \in 1..n + 1
      OBVIOUS
  <2>2. Start(s, m) \in Nat /\ Start(s, m + 1) \in Nat /\ Start(s, j) \in Nat
      BY <1>1, <1>4, <2>1, StartNext
  <2>3. j <= m + 1
      BY <1>3, <1>7, <2>1
  <2>4. ~(j <= m)
    <3>1. j <= m => Start(s, j) <= Start(s, m)
      <4> SUFFICES ASSUME j <= m PROVE Start(s, j) <= Start(s, m)
          OBVIOUS
      <4>1. Start(s, j) + (m - j) <= Start(s, m)
          BY <1>1, <1>4, <2>1, StartMonotone
      <4> QED BY <4>1, <2>2, <1>4
    <3> QED BY <3>1, <2>2, <1>4, <1>7
  <2> QED BY <2>3, <2>4, <1>4
<1> QED BY <1>1, <1>4, <1>5, <1>6, <1>7

\* What the encoding holds at each position of the code of byte i.
LEMMA UrlEncodeCode ==
    ASSUME NEW s \in Seq(Byte), NEW i \in 1..Len(s)
    PROVE  /\ Start(s, i) \in DOMAIN UrlEncode(s)
           /\ ~Escaped(s[i]) =>
                  /\ UrlEncode(s)[Start(s, i)] = IF s[i] = Space THEN Plus ELSE s[i]
                  /\ UrlEncode(s)[Start(s, i)] # Percent
           /\ Escaped(s[i]) =>
                  /\ {Start(s, i) + 1, Start(s, i) + 2} \subseteq DOMAIN UrlEncode(s)
                  /\ UrlEncode(s)[Start(s, i)] = Percent
                  /\ UrlEncode(s)[Start(s, i) + 1] = Digit(s[i] \div 16)
                  /\ UrlEncode(s)[Start(s, i) + 2] = Digit(s[i] % 16)
<1> DEFINE v == UrlEncode(s)
           P(k, j) == Start(s, j) <= k /\ k < Start(s, j + 1)
<1>1. PICK n \in Nat : n = Len(s) /\ DOMAIN s = 1..n
    OBVIOUS
<1>2. PICK a \in Nat : a = Start(s, i) /\ a >= 1
    BY <1>1, StartNext
<1>3. PICK e \in Nat : e = Start(s, i + 1) /\ e = a + (IF Escaped(s[i]) THEN 3 ELSE 1)
    BY <1>2, StartNext
<1>4. PICK z \in Nat : z = Start(s, n + 1) /\ e <= z
  <2>1. i + 1 \in 1..n + 1 /\ n + 1 \in 1..n + 1 /\ i + 1 <= n + 1
      BY <1>1
  <2>2. Start(s, i + 1) + ((n + 1) - (i + 1)) <= Start(s, n + 1)
      BY <1>1, <2>1, StartMonotone
  <2>3. Start(s, n + 1) \in Nat
      BY <1>1, <2>1, StartNext
  <2> QED BY <1>1, <1>3, <2>2, <2>3
<1>5. v = [k \in 1..z - 1 |->
              Encoded(s[CHOOSE j \in 1..n : P(k, j)])
                  [k - Start(s, CHOOSE j \in 1..n : P(k, j)) + 1]]
    BY <1>1, <1>4 DEF UrlEncode
<1>6. ASSUME NEW k \in Nat, a <= k, k < e
      PROVE  k \in DOMAIN v /\ v[k] = Encoded(s[i])[k - a + 1]
  <2>1. k \in 1..z - 1
      BY <1>2, <1>4, <1>6
  <2>2. k < Start(s, Len(s) + 1) /\ k >= 1
      BY <1>1, <1>4, <2>1
  <2>3. PICK m \in 1..n : \A j \in 1..n : P(k, j) => j = m
      BY <1>1, <2>2, CodeOf
  <2>4. i \in 1..n /\ P(k, i)
      BY <1>1, <1>2, <1>3, <1>6
  <2> HIDE DEF P
  <2>5. (CHOOSE j \in 1..n : P(k, j)) = i
      BY <2>3, <2>4
  <2> QED BY <1>2, <1>5, <2>1, <2>5
<1> HIDE DEF v
<1>7. s[i] \in Byte
    OBVIOUS
<1>8. a \in DOMAIN v
    BY <1>3, <1>6
<1>9. ASSUME ~Escaped(s[i])
      PROVE  v[a] = (IF s[i] = Space THEN Plus ELSE s[i]) /\ v[a] # Percent
  <2>1. /\ Encoded(s[i]) = <<IF s[i] = Space THEN Plus ELSE s[i]>>
        /\ s[i] # Percent
      BY <1>7, <1>9, EncodedByte
  <2>2. v[a] = Encoded(s[i])[1]
    <3>1. a < e /\ a - a + 1 = 1
        BY <1>3
    <3> QED BY <1>6, <3>1
  <2>3. v[a] = IF s[i] = Space THEN Plus ELSE s[i]
      BY <2>1, <2>2
  <2> QED BY <2>1, <2>3 DEF Plus, Percent
<1>10. ASSUME Escaped(s[i])
       PROVE  /\ a + 1 \in DOMAIN v /\ a + 2 \in DOMAIN v
              /\ v[a] = Percent /\ v[a + 1] = Digit(s[i] \div 16)
              /\ v[a + 2] = Digit(s[i] % 16)
  <2>1. Encoded(s[i]) = <<Percent, Digit(s[i] \div 16), Digit(s[i] % 16)>>
      BY <1>7, <1>10, EncodedByte
  <2>2. /\ a < e /\ a + 1 < e /\ a + 2 < e
        /\ a - a + 1 = 1 /\ (a + 1) - a + 1 = 2 /\ (a + 2) - a + 1 = 3
      BY <1>3, <1>10
  <2>3. v[a] = Encoded(s[i])[1]
      BY <1>6, <2>2
  <2>4. a + 1 \in DOMAIN v /\ v[a + 1] = Encoded(s[i])[2]
    <3>1. a + 1 \in Nat /\ a <= a + 1
        OBVIOUS
    <3> QED BY <1>6, <2>2, <3>1
  <2>5. a + 2 \in DOMAIN v /\ v[a + 2] = Encoded(s[i])[3]
    <3>1. a + 2 \in Nat /\ a <= a + 2
        OBVIOUS
    <3> QED BY <1>6, <2>2, <3>1
  <2> QED BY <2>1, <2>3, <2>4, <2>5
<1> QED BY <1>2, <1>8, <1>9, <1>10 DEF v

\* Every position is one of these.
LEMMA UrlEncodePosition ==
    ASSUME NEW s \in Seq(Byte), NEW k \in DOMAIN UrlEncode(s)
    PROVE  /\ k \in Nat
           /\ \E i \in 1..Len(s) :
                  \/ k = Start(s, i)
                  \/ Escaped(s[i]) /\ k \in {Start(s, i) + 1, Start(s, i) + 2}
<1>1. PICK n \in Nat : n = Len(s)
    OBVIOUS
<1>2. PICK z \in Nat : z = Start(s, n + 1)
    BY <1>1, StartNext
<1>3. k \in 1..z - 1
    BY <1>1, <1>2 DEF UrlEncode
<1>4. k \in Nat /\ k >= 1 /\ k < Start(s, Len(s) + 1)
    BY <1>1, <1>2, <1>3
<1>5. PICK i \in 1..Len(s) : Start(s, i) <= k /\ k < Start(s, i + 1)
    BY <1>4, CodeOf
<1>6. PICK a \in Nat : a = Start(s, i)
    BY StartNext
<1>7. Start(s, i + 1) = a + (IF Escaped(s[i]) THEN 3 ELSE 1)
    BY <1>6, StartNext
<1>8. CASE Escaped(s[i])
  <2>1. k = a \/ k = a + 1 \/ k = a + 2
      BY <1>4, <1>5, <1>6, <1>7, <1>8
  <2> QED BY <1>4, <1>6, <1>8, <2>1
<1>9. CASE ~Escaped(s[i])
  <2>1. k = a
      BY <1>4, <1>5, <1>6, <1>7, <1>9
  <2> QED BY <1>4, <1>6, <2>1
<1> QED BY <1>8, <1>9

LEMMA UrlEncodeType ==
    ASSUME NEW s \in Seq(Byte)
    PROVE  UrlEncode(s) \in Seq(Byte)
<1>1. PICK n \in Nat : n = Len(s)
    OBVIOUS
<1>2. PICK z \in Nat : z = Start(s, n + 1) /\ z >= 1
    BY <1>1, StartNext
<1>3. DOMAIN UrlEncode(s) = 1..z - 1
    BY <1>1, <1>2 DEF UrlEncode
<1> DEFINE v == UrlEncode(s)
<1>4. v = [k \in DOMAIN v |-> v[k]]
    BY DEF UrlEncode
<1>5. ASSUME NEW k \in DOMAIN v PROVE v[k] \in Byte
  <2>1. PICK i \in 1..Len(s) :
            \/ k = Start(s, i)
            \/ Escaped(s[i]) /\ k \in {Start(s, i) + 1, Start(s, i) + 2}
      BY UrlEncodePosition
  <2>4. s[i] \in Byte
      OBVIOUS
  <2>5. Plus \in Byte /\ Percent \in Byte
      BY DEF Plus, Percent, Byte
  <2>2. s[i] \in Byte /\ Plus \in Byte /\ Percent \in Byte
      BY <2>4, <2>5
  <2>3. Escaped(s[i]) => Digit(s[i] \div 16) \in Byte /\ Digit(s[i] % 16) \in Byte
      BY <2>2, EncodedByte, DigitValue
  <2> HIDE DEF v
  <2> QED BY <2>1, <2>2, <2>3, UrlEncodeCode DEF v
<1> HIDE DEF v
<1>6. v \in [1..z - 1 -> Byte] /\ z - 1 \in Nat
    BY <1>2, <1>3, <1>4, <1>5 DEF v
<1> QED BY <1>6 DEF v

\* No code begins inside another one.
LEMMA StartsApart ==
    ASSUME NEW s \in Seq(Byte), NEW i \in 1..Len(s), NEW j \in 1..Len(s), Escaped(s[j])
    PROVE  Start(s, i) \notin {Start(s, j) + 1, Start(s, j) + 2}
<1>1. i \in 1..Len(s) + 1 /\ j \in 1..Len(s) + 1 /\ j + 1 \in 1..Len(s) + 1
    OBVIOUS
<1>2. PICK a \in Nat, b \in Nat : a = Start(s, i) /\ b = Start(s, j)
    BY <1>1, StartNext
<1>3. Start(s, j + 1) = b + 3
    BY <1>2, StartNext
<1>4. CASE i <= j
  <2>1. a + (j - i) <= b
      BY <1>1, <1>2, <1>4, StartMonotone
  <2> QED BY <1>2, <1>4, <2>1
<1>5. CASE j + 1 <= i
  <2>1. b + 3 + (i - (j + 1)) <= a
      BY <1>1, <1>2, <1>3, <1>5, StartMonotone
  <2> QED BY <1>2, <1>5, <2>1
<1> QED BY <1>4, <1>5

\* web_form.rs: form_url_decode never refuses an escape of the browser.
LEMMA UrlEncodeWellFormed ==
    ASSUME NEW s \in Seq(Byte)
    PROVE  WellFormed(UrlEncode(s))
<1> DEFINE v == UrlEncode(s)
<1> SUFFICES ASSUME NEW k \in DOMAIN v, v[k] = Percent
             PROVE  k + 2 <= Len(v) /\ {v[k + 1], v[k + 2]} \subseteq HexDigit
    BY DEF WellFormed
<1>1. PICK i \in 1..Len(s) :
          \/ k = Start(s, i)
          \/ Escaped(s[i]) /\ k \in {Start(s, i) + 1, Start(s, i) + 2}
    BY UrlEncodePosition
<1>2. s[i] \in Byte
    OBVIOUS
<1>3. Escaped(s[i]) => /\ Digit(s[i] \div 16) \in HexDigit \ {Percent}
                       /\ Digit(s[i] % 16) \in HexDigit \ {Percent}
    BY <1>2, EncodedByte, DigitValue
<1>4. PICK m \in Nat : m = Len(v) /\ DOMAIN v = 1..m
    BY UrlEncodeType
<1> HIDE DEF v
<1>5. k = Start(s, i) /\ Escaped(s[i])
    BY <1>1, <1>3, UrlEncodeCode DEF v
<1>6. /\ k + 2 \in 1..m
      /\ v[k + 1] \in HexDigit /\ v[k + 2] \in HexDigit
    BY <1>3, <1>4, <1>5, UrlEncodeCode DEF v
<1> QED BY <1>4, <1>6

-----------------------------------------------------------------------------
(* form_url_decode.                                                        *)

\* The loop arrives where a code begins.
LEMMA UrlEncodeArrivals ==
    ASSUME NEW s \in Seq(Byte)
    PROVE  Arrivals(UrlEncode(s)) = {Start(s, i) : i \in 1..Len(s)}
<1> DEFINE v == UrlEncode(s)
<1>1. ASSUME NEW i \in 1..Len(s) PROVE Start(s, i) \in Arrivals(v)
  <2>1. Start(s, i) \in DOMAIN v
      BY UrlEncodeCode
  <2>2. ASSUME NEW k \in {Start(s, i) - 1, Start(s, i) - 2} \intersect DOMAIN v,
               v[k] = Percent
        PROVE  FALSE
    <3>1. PICK j \in 1..Len(s) :
              \/ k = Start(s, j)
              \/ Escaped(s[j]) /\ k \in {Start(s, j) + 1, Start(s, j) + 2}
        BY UrlEncodePosition
    <3>2. s[j] \in Byte
        OBVIOUS
    <3>3. Escaped(s[j]) => Digit(s[j] \div 16) # Percent /\ Digit(s[j] % 16) # Percent
        BY <3>2, EncodedByte, DigitValue
    <3> HIDE DEF v
    <3>4. k = Start(s, j) /\ Escaped(s[j])
        BY <2>2, <3>1, <3>3, UrlEncodeCode DEF v
    <3>5. PICK a \in Nat, b \in Nat : a = Start(s, i) /\ b = Start(s, j)
        BY StartNext
    <3>6. a = b + 1 \/ a = b + 2
        BY <3>4, <3>5
    <3> QED BY <3>4, <3>5, <3>6, StartsApart
  <2> HIDE DEF v
  <2> QED BY <2>1, <2>2 DEF Arrivals
<1>2. ASSUME NEW k \in Arrivals(v) PROVE \E i \in 1..Len(s) : k = Start(s, i)
  <2>1. k \in DOMAIN v
      BY DEF Arrivals
  <2>2. PICK i \in 1..Len(s) :
            \/ k = Start(s, i)
            \/ Escaped(s[i]) /\ k \in {Start(s, i) + 1, Start(s, i) + 2}
      BY <2>1, UrlEncodePosition
  <2>3. ASSUME Escaped(s[i]), k \in {Start(s, i) + 1, Start(s, i) + 2} PROVE FALSE
    <3>1. PICK a \in Nat : a = Start(s, i)
        BY StartNext
    <3>2. a \in DOMAIN v /\ v[a] = Percent
        BY <2>3, <3>1, UrlEncodeCode
    <3>3. a = k - 1 \/ a = k - 2
        BY <2>3, <3>1
    <3> HIDE DEF v
    <3> QED BY <3>2, <3>3 DEF Arrivals
  <2> QED BY <2>2, <2>3
<1> HIDE DEF v
<1>3. Arrivals(v) = {Start(s, i) : i \in 1..Len(s)}
    BY <1>1, <1>2
<1> QED BY <1>3 DEF v

\* The set of the first i arrivals has i elements.
LEMMA StartsCount ==
    ASSUME NEW s \in Seq(Byte), NEW i \in 0..Len(s)
    PROVE  Cardinality({Start(s, m) : m \in 1..i}) = i
<1> DEFINE T == {Start(s, m) : m \in 1..i}
           f == [m \in 1..i |-> Start(s, m)]
<1>1. ASSUME NEW m \in 1..i, NEW o \in 1..i, m < o PROVE Start(s, m) # Start(s, o)
  <2>1. m \in 1..Len(s) + 1 /\ o \in 1..Len(s) + 1
      OBVIOUS
  <2>2. PICK a \in Nat, b \in Nat : a = Start(s, m) /\ b = Start(s, o)
      BY <2>1, StartNext
  <2>3. a + (o - m) <= b
      BY <1>1, <2>1, <2>2, StartMonotone
  <2> QED BY <1>1, <2>2, <2>3
<1>2. ASSUME NEW m \in 1..i, NEW o \in 1..i, f[m] = f[o] PROVE m = o
  <2>1. Start(s, m) = Start(s, o)
      BY <1>2
  <2> QED BY <1>1, <2>1
<1>3. f \in [1..i -> T] /\ \A t \in T : \E m \in 1..i : f[m] = t
    OBVIOUS
<1> HIDE DEF f, T
<1>4. f \in Bijection(1..i, T)
    BY <1>2, <1>3 DEF Bijection, Injection, Surjection, IsInjective
<1>5. i \in Nat /\ ExistsBijection(1..i, T)
    BY <1>4 DEF ExistsBijection
<1> QED BY <1>5, FS_CountingElements DEF T

\* web_form.rs: decoding returns the text that the browser has encoded.
THEOREM DecodeEncode ==
    ASSUME NEW s \in Seq(Byte)
    PROVE  WellFormed(UrlEncode(s)) /\ Decoded(UrlEncode(s)) = s
<1> DEFINE v == UrlEncode(s)
<1>1. PICK n \in Nat : n = Len(s) /\ s = [i \in 1..n |-> s[i]]
    OBVIOUS
<1>2. Arrivals(v) = {Start(s, i) : i \in 1..n}
    BY <1>1, UrlEncodeArrivals
<1>3. Cardinality(Arrivals(v)) = n
  <2>1. n \in 0..Len(s)
      BY <1>1
  <2> QED BY <1>2, <2>1, StartsCount
<1>4. ASSUME NEW i \in 1..n PROVE Rank(v, Start(s, i)) = i
  <2>1. ASSUME NEW m \in 1..n PROVE Start(s, m) <= Start(s, i) <=> m <= i
    <3>1. m \in 1..Len(s) + 1 /\ i \in 1..Len(s) + 1
        BY <1>1
    <3>2. PICK a \in Nat, b \in Nat : a = Start(s, m) /\ b = Start(s, i)
        BY <3>1, StartNext
    <3>3. m <= i => a + (i - m) <= b
        BY <3>1, <3>2, StartMonotone
    <3>4. i <= m => b + (m - i) <= a
        BY <3>1, <3>2, StartMonotone
    <3> QED BY <3>2, <3>3, <3>4
  <2>2. {j \in Arrivals(v) : j <= Start(s, i)} = {Start(s, m) : m \in 1..i}
      BY <1>2, <2>1
  <2>3. i \in 0..Len(s)
      BY <1>1
  <2> QED BY <2>2, <2>3, StartsCount DEF Rank
<1>5. ASSUME NEW k \in 1..n
      PROVE  (CHOOSE i \in Arrivals(v) : Rank(v, i) = k) = Start(s, k)
  <2>1. Start(s, k) \in Arrivals(v) /\ Rank(v, Start(s, k)) = k
      BY <1>2, <1>4
  <2>2. \A i \in Arrivals(v) : Rank(v, i) = k => i = Start(s, k)
      BY <1>2, <1>4
  <2> HIDE DEF v
  <2> QED BY <2>1, <2>2
<1>6. ASSUME NEW k \in 1..n PROVE ByteAt(v, Start(s, k)) = s[k]
  <2>1. k \in 1..Len(s) /\ s[k] \in Byte
      BY <1>1
  <2>2. CASE Escaped(s[k])
    <3>1. PICK x \in 0..15, y \in 0..15 :
              x = s[k] \div 16 /\ y = s[k] % 16 /\ 16 * x + y = s[k]
        BY <2>1, <2>2, EncodedByte
    <3>2. /\ v[Start(s, k)] = Percent
          /\ v[Start(s, k) + 1] = Digit(x) /\ v[Start(s, k) + 2] = Digit(y)
        BY <2>1, <2>2, <3>1, UrlEncodeCode
    <3>3. HexValue(Digit(x)) = x /\ HexValue(Digit(y)) = y
        BY DigitValue
    <3> HIDE DEF v
    <3>4. PICK a : a = Start(s, k)
        OBVIOUS
    <3>5. ByteAt(v, a) = 16 * HexValue(v[a + 1]) + HexValue(v[a + 2])
      <4>1. v[a] = Percent /\ Percent # Plus
          BY <3>2, <3>4 DEF Percent, Plus
      <4> QED BY <4>1 DEF ByteAt
    <3> QED BY <3>1, <3>2, <3>3, <3>4, <3>5
  <2>3. CASE ~Escaped(s[k])
    <3>1. /\ v[Start(s, k)] = IF s[k] = Space THEN Plus ELSE s[k]
          /\ v[Start(s, k)] # Percent /\ s[k] # Plus
        BY <2>1, <2>3, UrlEncodeCode, EncodedByte
    <3> HIDE DEF v
    <3> QED BY <3>1 DEF ByteAt
  <2> QED BY <2>2, <2>3
<1> HIDE DEF v
<1>7. Decoded(v) = [k \in 1..n |-> ByteAt(v, CHOOSE i \in Arrivals(v) : Rank(v, i) = k)]
    BY <1>3 DEF Decoded
<1>8. Decoded(v) = s
    BY <1>1, <1>5, <1>6, <1>7
<1>9. WellFormed(v)
    BY UrlEncodeWellFormed DEF v
<1> QED BY <1>8, <1>9 DEF v

\* What is pushed is a byte.
LEMMA ByteAtType ==
    ASSUME NEW v \in Seq(Byte), WellFormed(v), NEW i \in DOMAIN v
    PROVE  ByteAt(v, i) \in Byte
<1>1. CASE v[i] = Percent
  <2>1. v[i + 1] \in HexDigit /\ v[i + 2] \in HexDigit
      BY <1>1 DEF WellFormed
  <2>2. \A d \in HexDigit : HexValue(d) \in 0..15
      BY DEF HexDigit, HexValue
  <2>3. PICK x \in 0..15, y \in 0..15 : x = HexValue(v[i + 1]) /\ y = HexValue(v[i + 2])
      BY <2>1, <2>2
  <2>4. ByteAt(v, i) = 16 * x + y
    <3>1. Percent # Plus
        BY DEF Percent, Plus
    <3> QED BY <1>1, <2>3, <3>1 DEF ByteAt
  <2>5. 16 * x + y \in 0..255
      OBVIOUS
  <2> QED BY <2>4, <2>5 DEF Byte
<1>2. CASE v[i] # Percent
  <2>1. Space \in Byte
      BY DEF Space, Byte
  <2>2. v[i] \in Byte
      OBVIOUS
  <2> QED BY <1>2, <2>1, <2>2 DEF ByteAt
<1> QED BY <1>1, <1>2

\* The arrivals are numbered without gaps: form_url_decode of a well-formed
\* text is a text.
LEMMA DecodedType ==
    ASSUME NEW v \in Seq(Byte), WellFormed(v)
    PROVE  Decoded(v) \in Seq(Byte)
<1> DEFINE A == Arrivals(v)
           R(i) == {j \in A : j <= i}
           c == Cardinality(A)
           f == [i \in A |-> Rank(v, i)]
<1>1. PICK n \in Nat : n = Len(v) /\ DOMAIN v = 1..n
    OBVIOUS
<1>2. A \in SUBSET (1..n)
    BY <1>1 DEF Arrivals
<1> HIDE DEF A
<1>3. IsFiniteSet(A) /\ c \in Nat
  <2>1. IsFiniteSet(1..n)
      BY FS_Interval
  <2> QED BY <1>2, <2>1, FS_Subset, FS_CardinalityType
<1>4. ASSUME NEW i \in A
      PROVE  /\ IsFiniteSet(R(i)) /\ Cardinality(R(i)) = Rank(v, i)
             /\ Rank(v, i) \in 1..c
  <2>1. R(i) \in SUBSET A /\ i \in R(i)
      BY <1>2
  <2>2. Cardinality(R(i)) = Rank(v, i)
      BY DEF Rank, A
  <2> DEFINE T == R(i)
  <2> HIDE DEF R
  <2>3. IsFiniteSet(T) /\ Cardinality(T) <= c /\ Cardinality(T) \in Nat
      BY <1>3, <2>1, FS_Subset, FS_CardinalityType
  <2>4. Cardinality(T) # 0
      BY <2>1, <2>3, FS_EmptySet
  <2> QED BY <1>3, <2>2, <2>3, <2>4
<1>5. ASSUME NEW i \in A, NEW j \in A, i < j PROVE Rank(v, i) # Rank(v, j)
  <2>1. R(i) \in SUBSET R(j) /\ R(i) # R(j)
    <3>1. i \in Nat /\ j \in Nat
        BY <1>2
    <3>2. j \in R(j) /\ j \notin R(i)
        BY <1>5, <3>1
    <3>3. \A m \in A : m \in Nat
        BY <1>2
    <3>4. \A m \in A : m <= i => m <= j
        BY <1>5, <3>1, <3>3
    <3> QED BY <3>2, <3>4
  <2> HIDE DEF R
  <2> QED BY <1>4, <2>1, FS_Subset
<1>6. f \in Injection(A, 1..c)
  <2>1. f \in [A -> 1..c]
      BY <1>4
  <2>2. ASSUME NEW i \in A, NEW j \in A, f[i] = f[j] PROVE i = j
    <3>1. i \in Nat /\ j \in Nat /\ Rank(v, i) = Rank(v, j)
        BY <1>2, <2>2
    <3> QED BY <1>5, <3>1
  <2> HIDE DEF f, c
  <2> QED BY <2>1, <2>2 DEF Injection, IsInjective
<1>7. f \in Surjection(A, 1..c)
  <2>1. IsFiniteSet(1..c) /\ Cardinality(1..c) = c
      BY <1>3, FS_Interval
  <2> HIDE DEF f
  <2> QED BY <1>6, <2>1, FS_Injection
<1>8. ASSUME NEW k \in 1..c PROVE \E i \in A : Rank(v, i) = k
    BY <1>7 DEF Surjection
<1>9. ASSUME NEW k \in 1..c
      PROVE  ByteAt(v, CHOOSE i \in Arrivals(v) : Rank(v, i) = k) \in Byte
  <2>1. (CHOOSE i \in Arrivals(v) : Rank(v, i) = k) \in DOMAIN v
      BY <1>1, <1>2, <1>8 DEF A
  <2> QED BY <2>1, ByteAtType
<1>10. Decoded(v) \in [1..c -> Byte]
    BY <1>9 DEF Decoded, A
<1> HIDE DEF c
<1> QED BY <1>3, <1>10

\* What form_url_decode can return of what a user typed.
Plain(s) == Len(s) <= DecodeCap /\ NoNul(s) /\ Utf8(s)

LEMMA DecodablePlain ==
    ASSUME NEW s \in Seq(Byte)
    PROVE  Decodable(UrlEncode(s)) <=> Plain(s)
BY DecodeEncode DEF Decodable, Plain, NoNul

-----------------------------------------------------------------------------
(* html_escape_attr.                                                       *)

\* web.rs, write_attr: a text that fits its slot fits the buffer of the page.
LEMMA AttrKept ==
    ASSUME NEW s \in Seq(Byte), 6 * Len(s) <= AttrCap
    PROVE  Attr(s) = s
<1> DEFINE P(bytes) == {i \in DOMAIN s : s[i] \in bytes}
           A == P({38, 39})  B == P({60, 62})  C == P({34})
<1>1. PICK n \in Nat : n = Len(s) /\ DOMAIN s = 1..n
    OBVIOUS
<1>2. A \in SUBSET (1..n) /\ B \in SUBSET (1..n) /\ C \in SUBSET (1..n)
    BY <1>1
<1>3. A \intersect B = {} /\ (A \union B) \intersect C = {}
    OBVIOUS
<1>4. /\ Count(s, {38, 39}) = Cardinality(A) /\ Count(s, {60, 62}) = Cardinality(B)
      /\ Count(s, {34}) = Cardinality(C)
    BY DEF Count
<1> HIDE DEF A, B, C
<1>5. IsFiniteSet(1..n) /\ Cardinality(1..n) = n
    BY IntervalSize
<1>6. IsFiniteSet(A) /\ IsFiniteSet(B) /\ IsFiniteSet(C)
    BY <1>2, <1>5, FS_Subset
<1>7. PICK a \in Nat, b \in Nat, c \in Nat :
          a = Cardinality(A) /\ b = Cardinality(B) /\ c = Cardinality(C)
    BY <1>6, FS_CardinalityType
<1>8. IsFiniteSet(A \union B) /\ Cardinality(A \union B) = a + b
  <2>1. Cardinality(A \union B) = Cardinality(A) + Cardinality(B) - Cardinality({})
      BY <1>3, <1>6, FS_Union
  <2>2. IsFiniteSet(A \union B)
      BY <1>6, FS_Union
  <2> QED BY <1>7, <2>1, <2>2, FS_EmptySet
<1>9. Cardinality((A \union B) \union C) = a + b + c
  <2>1. Cardinality((A \union B) \union C)
            = Cardinality(A \union B) + Cardinality(C) - Cardinality({})
      BY <1>3, <1>6, <1>8, FS_Union
  <2> QED BY <1>7, <1>8, <2>1, FS_EmptySet
<1>10. Cardinality((A \union B) \union C) <= n
    BY <1>2, <1>5, FS_Subset
<1>11. EscapedSize(s) = n + 4 * a + 3 * b + 5 * c
    BY <1>1, <1>4, <1>7 DEF EscapedSize
<1>12. AttrCap \in Nat
    BY FormAssumption
<1>13. EscapedSize(s) <= AttrCap
    BY <1>1, <1>9, <1>10, <1>11, <1>12
<1> QED BY <1>13 DEF Attr

-----------------------------------------------------------------------------
(* basic_token.                                                            *)

\* Four sextets determine the three bytes they were made from, none is a pad.
LEMMA ByteParts ==
    ASSUME NEW b \in Byte
    PROVE  /\ \E x \in Nat, y \in 0..3 : x = b \div 4 /\ y = b % 4 /\ b = 4 * x + y
           /\ \E x \in 0..15, y \in 0..15 : x = b \div 16 /\ y = b % 16 /\ b = 16 * x + y
           /\ \E x \in 0..3, y \in 0..63 : x = b \div 64 /\ y = b % 64 /\ b = 64 * x + y
<1>1. b \in Nat /\ b <= 255
    BY DEF Byte
<1>2. b = 4 * (b \div 4) + (b % 4) /\ b \div 4 \in Nat /\ b % 4 \in 0..3
    BY <1>1, SMT
<1>3. b = 16 * (b \div 16) + (b % 16) /\ b \div 16 \in 0..15 /\ b % 16 \in 0..15
    BY <1>1, SMT
<1>4. b = 64 * (b \div 64) + (b % 64) /\ b \div 64 \in 0..3 /\ b % 64 \in 0..63
    BY <1>1, SMT
<1> QED BY <1>2, <1>3, <1>4

LEMMA FirstSextets ==
    ASSUME NEW b1 \in Byte, NEW b2 \in Byte, NEW c1 \in Byte, NEW c2 \in Byte,
           b1 \div 4 = c1 \div 4,
           (b1 % 4) * 16 + b2 \div 16 = (c1 % 4) * 16 + c2 \div 16
    PROVE  b1 = c1 /\ b2 \div 16 = c2 \div 16
<1>1. PICK x \in Nat, y \in 0..3 : x = b1 \div 4 /\ y = b1 % 4 /\ b1 = 4 * x + y
    BY ByteParts
<1>2. PICK z \in Nat, w \in 0..3 : z = c1 \div 4 /\ w = c1 % 4 /\ c1 = 4 * z + w
    BY ByteParts
<1>3. PICK d \in 0..15, e \in 0..15 : d = b2 \div 16 /\ e = c2 \div 16
    BY ByteParts
<1>4. x = z /\ y * 16 + d = w * 16 + e
    BY <1>1, <1>2, <1>3
<1>5. y = w /\ d = e
    BY <1>4
<1> QED BY <1>1, <1>2, <1>3, <1>4, <1>5

LEMMA ThirdSextet ==
    ASSUME NEW b2 \in Byte, NEW b3 \in Byte, NEW c2 \in Byte, NEW c3 \in Byte,
           b2 \div 16 = c2 \div 16,
           (b2 % 16) * 4 + b3 \div 64 = (c2 % 16) * 4 + c3 \div 64
    PROVE  b2 = c2 /\ b3 \div 64 = c3 \div 64
<1>1. PICK x \in 0..15, y \in 0..15 : x = b2 \div 16 /\ y = b2 % 16 /\ b2 = 16 * x + y
    BY ByteParts
<1>2. PICK z \in 0..15, w \in 0..15 : z = c2 \div 16 /\ w = c2 % 16 /\ c2 = 16 * z + w
    BY ByteParts
<1>3. PICK d \in 0..3, e \in 0..3 : d = b3 \div 64 /\ e = c3 \div 64
    BY ByteParts
<1>4. x = z /\ y * 4 + d = w * 4 + e
    BY <1>1, <1>2, <1>3
<1>5. y = w /\ d = e
    BY <1>4
<1> QED BY <1>1, <1>2, <1>3, <1>4, <1>5

LEMMA FourthSextet ==
    ASSUME NEW b3 \in Byte, NEW c3 \in Byte,
           b3 \div 64 = c3 \div 64, b3 % 64 = c3 % 64
    PROVE  b3 = c3
BY ByteParts

LEMMA NotPad ==
    ASSUME NEW b2 \in Byte, NEW b3 \in Byte
    PROVE  (b2 % 16) * 4 + b3 \div 64 # Pad /\ b3 % 64 # Pad
<1>1. PICK x \in 0..15 : x = b2 % 16
    BY ByteParts
<1>2. PICK y \in 0..3, z \in 0..63 : y = b3 \div 64 /\ z = b3 % 64
    BY ByteParts
<1>3. x * 4 + y # 64 /\ z # 64
    OBVIOUS
<1> QED BY <1>1, <1>2, <1>3 DEF Pad

\* Byte i of a text, zero behind its end.
PadByte(raw, i) == IF i <= Len(raw) THEN raw[i] ELSE 0

\* Chunk m of the code is made from chunk m of the text.
LEMMA Base64Chunk ==
    ASSUME NEW raw \in Seq(Byte), NEW m \in Nat, m < (Len(raw) + 2) \div 3
    PROVE  LET b(i) == PadByte(raw, 3 * m + i)
               out == Base64(raw)
           IN  /\ out[4 * m + 1] = b(1) \div 4
               /\ out[4 * m + 2] = (b(1) % 4) * 16 + b(2) \div 16
               /\ out[4 * m + 3] = IF 3 * m + 2 <= Len(raw)
                                   THEN (b(2) % 16) * 4 + b(3) \div 64 ELSE Pad
               /\ out[4 * m + 4] = IF 3 * m + 3 <= Len(raw) THEN b(3) % 64 ELSE Pad
<1>1. PICK n \in Nat : n = Len(raw)
    OBVIOUS
<1>2. PICK q \in Nat : q = (n + 2) \div 3 /\ m < q
    BY <1>1, SMT
<1> DEFINE out == Base64(raw)
           B(k, i) == PadByte(raw, 3 * ((k - 1) \div 4) + i)
           Sextet(k) ==
               CASE k % 4 = 1 -> B(k, 1) \div 4
                 [] k % 4 = 2 -> (B(k, 1) % 4) * 16 + B(k, 2) \div 16
                 [] k % 4 = 3 -> IF 3 * ((k - 1) \div 4) + 2 <= n
                                 THEN (B(k, 2) % 16) * 4 + B(k, 3) \div 64 ELSE Pad
                 [] k % 4 = 0 -> IF 3 * ((k - 1) \div 4) + 3 <= n
                                 THEN B(k, 3) % 64 ELSE Pad
<1>3. out = [k \in 1..4 * q |-> Sextet(k)]
    BY <1>1, <1>2 DEF Base64, PadByte
<1>4. /\ 4 * m + 1 \in 1..4 * q /\ 4 * m + 2 \in 1..4 * q
      /\ 4 * m + 3 \in 1..4 * q /\ 4 * m + 4 \in 1..4 * q
    BY <1>2
<1>5. /\ ((4 * m + 1) - 1) \div 4 = m /\ (4 * m + 1) % 4 = 1
      /\ ((4 * m + 2) - 1) \div 4 = m /\ (4 * m + 2) % 4 = 2
    BY SMT
<1>6. /\ ((4 * m + 3) - 1) \div 4 = m /\ (4 * m + 3) % 4 = 3
      /\ ((4 * m + 4) - 1) \div 4 = m /\ (4 * m + 4) % 4 = 0
    BY SMT
<1> HIDE DEF out
<1>7. out[4 * m + 1] = PadByte(raw, 3 * m + 1) \div 4
  <2>1. PICK k \in 1..4 * q : k = 4 * m + 1 /\ (k - 1) \div 4 = m /\ k % 4 = 1
      BY <1>4, <1>5
  <2>2. k % 4 # 0 /\ k % 4 # 2 /\ k % 4 # 3
      BY <2>1
  <2> QED BY <1>3, <2>1, <2>2, Zenon
<1>8. out[4 * m + 2] = (PadByte(raw, 3 * m + 1) % 4) * 16 + PadByte(raw, 3 * m + 2) \div 16
  <2>1. PICK k \in 1..4 * q : k = 4 * m + 2 /\ (k - 1) \div 4 = m /\ k % 4 = 2
      BY <1>4, <1>5
  <2>2. k % 4 # 0 /\ k % 4 # 1 /\ k % 4 # 3
      BY <2>1
  <2> QED BY <1>3, <2>1, <2>2, Zenon
<1>9. out[4 * m + 3] = IF 3 * m + 2 <= n
                       THEN (PadByte(raw, 3 * m + 2) % 16) * 4 + PadByte(raw, 3 * m + 3) \div 64
                       ELSE Pad
  <2>1. PICK k \in 1..4 * q : k = 4 * m + 3 /\ (k - 1) \div 4 = m /\ k % 4 = 3
      BY <1>4, <1>6
  <2>2. k % 4 # 0 /\ k % 4 # 1 /\ k % 4 # 2
      BY <2>1
  <2> QED BY <1>3, <2>1, <2>2, Zenon
<1>10. out[4 * m + 4] = IF 3 * m + 3 <= n THEN PadByte(raw, 3 * m + 3) % 64 ELSE Pad
  <2>1. PICK k \in 1..4 * q : k = 4 * m + 4 /\ (k - 1) \div 4 = m /\ k % 4 = 0
      BY <1>4, <1>6
  <2>2. k % 4 # 1 /\ k % 4 # 2 /\ k % 4 # 3
      BY <2>1
  <2> QED BY <1>3, <2>1, <2>2, Zenon
<1> QED BY <1>1, <1>7, <1>8, <1>9, <1>10 DEF out

\* The number of chunks.
LEMMA Chunks ==
    ASSUME NEW n \in Nat
    PROVE  /\ (n + 2) \div 3 \in Nat
           /\ n <= 3 * ((n + 2) \div 3) /\ 3 * ((n + 2) \div 3) <= n + 2
BY SMT

LEMMA Base64Length ==
    ASSUME NEW raw \in Seq(Byte), NEW q \in Nat, q = (Len(raw) + 2) \div 3
    PROVE  Base64(raw) = [k \in 1..4 * q |-> Base64(raw)[k]]
BY DEF Base64

\* base64 of two texts is the same only if the texts are.
THEOREM Base64Injective ==
    ASSUME NEW raw \in Seq(Byte), NEW other \in Seq(Byte), Base64(raw) = Base64(other)
    PROVE  raw = other
<1> DEFINE out == Base64(raw)
           b(i) == PadByte(raw, i)
           c(i) == PadByte(other, i)
<1>1. PICK n \in Nat, k \in Nat : n = Len(raw) /\ k = Len(other)
    OBVIOUS
<1>2. PICK q \in Nat : q = (n + 2) \div 3 /\ n <= 3 * q /\ 3 * q <= n + 2
    BY Chunks
<1>3. PICK r \in Nat : r = (k + 2) \div 3 /\ k <= 3 * r /\ 3 * r <= k + 2
    BY Chunks
<1>4. q = r
  <2>1. DOMAIN out = 1..4 * q
      BY <1>1, <1>2, Base64Length
  <2>2. DOMAIN out = 1..4 * r
      BY <1>1, <1>3, Base64Length
  <2>3. CASE q < r
    <3>1. 4 * r \in 1..4 * r /\ 4 * r \notin 1..4 * q
        BY <2>3
    <3> QED BY <2>1, <2>2, <3>1
  <2>4. CASE r < q
    <3>1. 4 * q \in 1..4 * q /\ 4 * q \notin 1..4 * r
        BY <2>4
    <3> QED BY <2>1, <2>2, <3>1
  <2> QED BY <2>3, <2>4
<1>5. \A i \in Nat \ {0} : b(i) \in Byte /\ c(i) \in Byte
  <2>1. 0 \in Byte
      BY DEF Byte
  <2>2. /\ \A i \in Nat \ {0} : i <= n => raw[i] \in Byte
        /\ \A i \in Nat \ {0} : i <= k => other[i] \in Byte
      BY <1>1
  <2> QED BY <1>1, <2>1, <2>2 DEF PadByte
<1>6. ASSUME NEW m \in Nat, m < q
      PROVE  /\ (3 * m + 2 <= n <=> 3 * m + 2 <= k)
             /\ (3 * m + 3 <= n <=> 3 * m + 3 <= k)
             /\ b(3 * m + 1) = c(3 * m + 1)
             /\ 3 * m + 2 <= n => b(3 * m + 2) = c(3 * m + 2)
             /\ 3 * m + 3 <= n => b(3 * m + 3) = c(3 * m + 3)
  <2>1. PICK b1 \in Byte, b2 \in Byte, b3 \in Byte :
            b1 = b(3 * m + 1) /\ b2 = b(3 * m + 2) /\ b3 = b(3 * m + 3)
      BY <1>5
  <2>2. PICK c1 \in Byte, c2 \in Byte, c3 \in Byte :
            c1 = c(3 * m + 1) /\ c2 = c(3 * m + 2) /\ c3 = c(3 * m + 3)
      BY <1>5
  <2>3. /\ out[4 * m + 1] = b1 \div 4
        /\ out[4 * m + 2] = (b1 % 4) * 16 + b2 \div 16
        /\ out[4 * m + 3] = IF 3 * m + 2 <= n THEN (b2 % 16) * 4 + b3 \div 64 ELSE Pad
        /\ out[4 * m + 4] = IF 3 * m + 3 <= n THEN b3 % 64 ELSE Pad
      BY <1>1, <1>2, <1>6, <2>1, Base64Chunk
  <2>4. /\ out[4 * m + 1] = c1 \div 4
        /\ out[4 * m + 2] = (c1 % 4) * 16 + c2 \div 16
        /\ out[4 * m + 3] = IF 3 * m + 2 <= k THEN (c2 % 16) * 4 + c3 \div 64 ELSE Pad
        /\ out[4 * m + 4] = IF 3 * m + 3 <= k THEN c3 % 64 ELSE Pad
      BY <1>1, <1>3, <1>4, <1>6, <2>2, Base64Chunk
  <2> HIDE DEF out, b, c
  <2>5. /\ (b2 % 16) * 4 + b3 \div 64 # Pad /\ b3 % 64 # Pad
        /\ (c2 % 16) * 4 + c3 \div 64 # Pad /\ c3 % 64 # Pad
      BY NotPad
  <2>6. /\ (3 * m + 2 <= n <=> 3 * m + 2 <= k)
        /\ (3 * m + 3 <= n <=> 3 * m + 3 <= k)
      BY <2>3, <2>4, <2>5, Zenon
  <2>7. b1 = c1 /\ b2 \div 16 = c2 \div 16
    <3>1. /\ b1 \div 4 = c1 \div 4
          /\ (b1 % 4) * 16 + b2 \div 16 = (c1 % 4) * 16 + c2 \div 16
        BY <2>3, <2>4, Zenon
    <3> QED BY <3>1, FirstSextets
  <2>8. ASSUME 3 * m + 2 <= n PROVE b2 = c2 /\ b3 \div 64 = c3 \div 64
    <3>1. (b2 % 16) * 4 + b3 \div 64 = (c2 % 16) * 4 + c3 \div 64
        BY <2>3, <2>4, <2>6, <2>8, Zenon
    <3> QED BY <2>7, <3>1, ThirdSextet
  <2>9. ASSUME 3 * m + 3 <= n PROVE b3 = c3
    <3>1. b3 % 64 = c3 % 64
        BY <2>3, <2>4, <2>6, <2>9, Zenon
    <3>2. 3 * m + 2 <= n
        BY <2>9
    <3> QED BY <2>8, <3>1, <3>2, FourthSextet
  <2> QED BY <2>1, <2>2, <2>6, <2>7, <2>8, <2>9, Zenon
<1>7. n = k
  <2>1. CASE q = 0
      BY <1>2, <1>3, <1>4, <2>1
  <2>2. CASE q # 0
    <3>1. PICK m \in Nat : q = m + 1
      <4>1. q - 1 \in Nat /\ q = (q - 1) + 1
          BY <2>2
      <4> QED BY <4>1
    <3>2. /\ (3 * m + 2 <= n <=> 3 * m + 2 <= k)
          /\ (3 * m + 3 <= n <=> 3 * m + 3 <= k)
        BY <1>6, <3>1
    <3> QED BY <1>2, <1>3, <1>4, <3>1, <3>2
  <2> QED BY <2>1, <2>2
<1>8. ASSUME NEW i \in 1..n PROVE raw[i] = other[i]
  <2>1. PICK m \in Nat : i = 3 * m + 1 \/ i = 3 * m + 2 \/ i = 3 * m + 3
    <3>1. PICK j \in Nat : i = j + 1
      <4>1. i - 1 \in Nat /\ i = (i - 1) + 1
          OBVIOUS
      <4> QED BY <4>1
    <3>2. j \div 3 \in Nat
        BY SMT
    <3>3. j = 3 * (j \div 3) \/ j = 3 * (j \div 3) + 1 \/ j = 3 * (j \div 3) + 2
        BY SMT
    <3> QED BY <3>1, <3>2, <3>3
  <2>2. m < q
      BY <1>2, <2>1
  <2>3. b(i) = c(i)
    <3> HIDE DEF b, c
    <3>1. CASE i = 3 * m + 1
        BY <1>6, <2>2, <3>1
    <3>2. CASE i = 3 * m + 2
        BY <1>6, <2>2, <3>2
    <3>3. CASE i = 3 * m + 3
        BY <1>6, <2>2, <3>3
    <3> QED BY <2>1, <3>1, <3>2, <3>3
  <2> QED BY <1>1, <1>7, <2>3 DEF PadByte
<1>9. raw = [i \in 1..n |-> raw[i]]
    BY <1>1
<1>10. other = [i \in 1..n |-> other[i]]
    BY <1>1, <1>7
<1> QED BY <1>8, <1>9, <1>10

\* Two texts joined by a colon.
Joined(u, p) == u \o <<Colon>> \o p

LEMMA JoinedParts ==
    ASSUME NEW u \in Seq(Byte), NEW p \in Seq(Byte)
    PROVE  /\ Joined(u, p) \in Seq(Byte) /\ Len(Joined(u, p)) = Len(u) + 1 + Len(p)
           /\ \A i \in 1..Len(u) : Joined(u, p)[i] = u[i]
           /\ Joined(u, p)[Len(u) + 1] = Colon
           /\ \A i \in 1..Len(p) : Joined(u, p)[Len(u) + 1 + i] = p[i]
<1> DEFINE uc == u \o <<Colon>>
<1>1. PICK a \in Nat, b \in Nat : a = Len(u) /\ b = Len(p)
    OBVIOUS
<1>2. Colon \in Byte
    BY DEF Colon, Byte
<1>3. /\ uc \in Seq(Byte) /\ Len(uc) = a + 1 /\ uc[a + 1] = Colon
      /\ \A i \in 1..a : uc[i] = u[i]
    BY <1>1, <1>2
<1>4. Joined(u, p) = uc \o p
    BY DEF Joined
<1> HIDE DEF uc
<1>5. /\ uc \o p \in Seq(Byte) /\ Len(uc \o p) = a + 1 + b
      /\ \A i \in 1..a + 1 : (uc \o p)[i] = uc[i]
      /\ \A i \in 1..b : (uc \o p)[a + 1 + i] = p[i]
  <2>1. PICK c \in Nat : c = Len(uc) /\ c = a + 1
      BY <1>3
  <2>2. uc \o p \in Seq(Byte) /\ Len(uc \o p) = c + b
      BY <1>1, <1>3, <2>1
  <2>3. \A i \in 1..c : (uc \o p)[i] = uc[i]
      BY <1>1, <1>3, <2>1
  <2>4. \A i \in 1..b : (uc \o p)[c + i] = p[i]
      BY <1>1, <1>3, <2>1
  <2> QED BY <2>1, <2>2, <2>3, <2>4
<1>6. a + 1 \in 1..a + 1 /\ \A i \in 1..a : i \in 1..a + 1
    OBVIOUS
<1> QED BY <1>1, <1>3, <1>4, <1>5, <1>6

\* Byte y is part of a UTF-8 character between bytes x and z.
InCharacter(x, y, z) ==
    \/ y < 128
    \/ y \in 194..223 /\ z \in 128..191
    \/ y \in 128..191 /\ x \in 194..223
Before(s, i) == IF i > 1 THEN s[i - 1] ELSE 0
Behind(s, i) == IF i < Len(s) THEN s[i + 1] ELSE 0

LEMMA Utf8Characters ==
    ASSUME NEW s \in Seq(Byte)
    PROVE  Utf8(s) <=> \A i \in 1..Len(s) : InCharacter(Before(s, i), s[i], Behind(s, i))
<1>1. PICK n \in Nat : n = Len(s) /\ DOMAIN s = 1..n
    OBVIOUS
<1> DEFINE Part(i) ==
               \/ s[i] < 128
               \/ s[i] \in 194..223 /\ i < Len(s) /\ s[i + 1] \in 128..191
               \/ s[i] \in 128..191 /\ i > 1 /\ s[i - 1] \in 194..223
<1>2. ASSUME NEW i \in 1..n
      PROVE  InCharacter(Before(s, i), s[i], Behind(s, i)) <=> Part(i)
  <2>1. Behind(s, i) \in 128..191 <=> i < Len(s) /\ s[i + 1] \in 128..191
      BY DEF Behind
  <2>2. Before(s, i) \in 194..223 <=> i > 1 /\ s[i - 1] \in 194..223
      BY DEF Before
  <2> QED BY <2>1, <2>2 DEF InCharacter
<1>3. Utf8(s) <=> \A i \in 1..n : Part(i)
    BY <1>1 DEF Utf8
<1> HIDE DEF Part
<1> QED BY <1>1, <1>2, <1>3

\* A text is UTF-8 exactly if the parts before and behind a colon are, and has
\* no NUL exactly if they have none.
LEMMA JoinedUtf8 ==
    ASSUME NEW u \in Seq(Byte), NEW p \in Seq(Byte)
    PROVE  /\ Utf8(Joined(u, p)) <=> Utf8(u) /\ Utf8(p)
           /\ NoNul(Joined(u, p)) <=> NoNul(u) /\ NoNul(p)
<1> DEFINE w == Joined(u, p)
           Good(s, i) == InCharacter(Before(s, i), s[i], Behind(s, i))
<1>1. PICK a \in Nat, b \in Nat : /\ a = Len(u) /\ b = Len(p)
                                  /\ DOMAIN u = 1..a /\ DOMAIN p = 1..b
    OBVIOUS
<1>2. /\ w \in Seq(Byte) /\ Len(w) = a + 1 + b
      /\ \A i \in 1..a : w[i] = u[i]
      /\ w[a + 1] = 58
      /\ \A i \in 1..b : w[a + 1 + i] = p[i]
  <2>1. w[a + 1] = Colon /\ \A i \in 1..b : w[a + 1 + i] = p[i]
      BY <1>1, JoinedParts
  <2>2. w \in Seq(Byte) /\ Len(w) = a + 1 + b /\ \A i \in 1..a : w[i] = u[i]
      BY <1>1, JoinedParts
  <2> HIDE DEF w
  <2> QED BY <2>1, <2>2 DEF Colon
<1> HIDE DEF w
<1>3. DOMAIN w = 1..a + 1 + b
    BY <1>2
<1>4. /\ Utf8(w) <=> \A i \in 1..a + 1 + b : Good(w, i)
      /\ Utf8(u) <=> \A i \in 1..a : Good(u, i)
      /\ Utf8(p) <=> \A i \in 1..b : Good(p, i)
    BY <1>1, <1>2, Utf8Characters
<1>5. ASSUME NEW i \in 1..a PROVE Good(w, i) <=> Good(u, i)
  <2>1. w[i] = u[i] /\ Before(w, i) = Before(u, i)
      BY <1>2 DEF Before
  <2>2. CASE i < a
    <3>1. Behind(w, i) = Behind(u, i)
        BY <1>1, <1>2, <2>2 DEF Behind
    <3> QED BY <2>1, <3>1
  <2>3. CASE i = a
    <3>1. Behind(w, i) = 58 /\ Behind(u, i) = 0
        BY <1>1, <1>2, <2>3 DEF Behind
    <3>2. 58 \notin 128..191 /\ 0 \notin 128..191
        OBVIOUS
    <3>3. Behind(w, i) \notin 128..191 /\ Behind(u, i) \notin 128..191
        BY <3>1, <3>2
    <3> QED BY <2>1, <3>3 DEF InCharacter
  <2> QED BY <2>2, <2>3
<1>6. ASSUME NEW i \in 1..b PROVE Good(w, a + 1 + i) <=> Good(p, i)
  <2>1. w[a + 1 + i] = p[i]
      BY <1>2
  <2>2. Behind(w, a + 1 + i) = Behind(p, i)
    <3>1. CASE i < b
      <4>1. i + 1 \in 1..b /\ a + 1 + (i + 1) = (a + 1 + i) + 1 /\ a + 1 + i < a + 1 + b
          BY <3>1
      <4>2. w[(a + 1 + i) + 1] = p[i + 1]
          BY <1>2, <4>1
      <4> QED BY <1>1, <1>2, <3>1, <4>1, <4>2 DEF Behind
    <3>2. CASE ~(i < b)
      <4>1. ~(a + 1 + i < a + 1 + b)
          BY <3>2
      <4> QED BY <1>1, <1>2, <3>2, <4>1 DEF Behind
    <3> QED BY <3>1, <3>2
  <2>3. CASE i > 1
    <3>1. i - 1 \in 1..b /\ a + 1 + (i - 1) = (a + 1 + i) - 1 /\ a + 1 + i > 1
        BY <2>3
    <3>2. w[(a + 1 + i) - 1] = p[i - 1]
        BY <1>2, <3>1
    <3>3. Before(w, a + 1 + i) = Before(p, i)
        BY <2>3, <3>1, <3>2 DEF Before
    <3> QED BY <2>1, <2>2, <3>3
  <2>4. CASE i = 1
    <3>1. (a + 1 + 1) - 1 = a + 1 /\ a + 1 + 1 > 1 /\ ~(1 > 1)
        OBVIOUS
    <3>2. Before(w, a + 1 + i) = 58 /\ Before(p, i) = 0
        BY <1>2, <2>4, <3>1 DEF Before
    <3>3. 58 \notin 194..223 /\ 0 \notin 194..223
        OBVIOUS
    <3>5. Before(w, a + 1 + i) \notin 194..223
      <4>1. PICK x : x = Before(w, a + 1 + i)
          OBVIOUS
      <4>2. x = 58
          BY <3>2, <4>1
      <4>3. x \notin 194..223
          BY <4>2
      <4> QED BY <4>1, <4>3, Zenon
    <3>4. Before(p, i) \notin 194..223
        BY <3>2
    <3> QED BY <2>1, <2>2, <3>4, <3>5 DEF InCharacter
  <2> QED BY <2>3, <2>4
<1>7. ASSUME NEW i \in 1..a + 1 + b
      PROVE  i \in 1..a \/ i = a + 1 \/ \E j \in 1..b : i = a + 1 + j
  <2>1. i > a + 1 => i - (a + 1) \in 1..b /\ i = a + 1 + (i - (a + 1))
      OBVIOUS
  <2> QED BY <2>1
<1>8. Good(w, a + 1)
    BY <1>2 DEF InCharacter
<1>9. /\ \A i \in 1..a : i \in 1..a + 1 + b
      /\ \A i \in 1..b : a + 1 + i \in 1..a + 1 + b
    OBVIOUS
<1>10. Utf8(w) <=> Utf8(u) /\ Utf8(p)
  <2> HIDE DEF Good
  <2> QED BY <1>4, <1>5, <1>6, <1>7, <1>8, <1>9
<1>11. NoNul(w) <=> NoNul(u) /\ NoNul(p)
  <2>1. /\ NoNul(w) <=> \A i \in 1..a + 1 + b : w[i] # 0
        /\ NoNul(u) <=> \A i \in 1..a : u[i] # 0
        /\ NoNul(p) <=> \A i \in 1..b : p[i] # 0
      BY <1>1, <1>3, Zenon DEF NoNul
  <2>2. ASSUME NoNul(w) PROVE NoNul(u) /\ NoNul(p)
    <3>1. ASSUME NEW i \in 1..a PROVE u[i] # 0
        BY <1>2, <1>9, <2>1, <2>2
    <3>2. ASSUME NEW i \in 1..b PROVE p[i] # 0
        BY <1>2, <1>9, <2>1, <2>2
    <3> QED BY <2>1, <3>1, <3>2
  <2>3. ASSUME NoNul(u), NoNul(p) PROVE NoNul(w)
    <3>1. ASSUME NEW i \in 1..a + 1 + b PROVE w[i] # 0
      <4>1. CASE i \in 1..a
          BY <1>2, <2>1, <2>3, <4>1
      <4>2. CASE i = a + 1
          BY <1>2, <4>2
      <4>3. ASSUME NEW j \in 1..b, i = a + 1 + j PROVE w[i] # 0
        <5>1. w[a + 1 + j] = p[j]
            BY <1>2, Zenon
        <5>2. p[j] # 0
            BY <2>1, <2>3, Zenon
        <5> QED BY <4>3, <5>1, <5>2, Zenon
      <4> QED BY <1>7, <4>1, <4>2, <4>3
    <3> QED BY <2>1, <3>1
  <2> QED BY <2>2, <2>3
<1> QED BY <1>10, <1>11 DEF w

\* What basic_token makes of stored credentials: nothing is left out or cut.
LEMMA StoredToken ==
    ASSUME NEW u \in Text(CredLen), NEW p \in Text(CredLen)
    PROVE  /\ BasicToken(u, p) = Base64(Joined(u, p))
           /\ Len(Base64(Joined(u, p))) < TokenCap
<1>1. PICK a \in Nat, b \in Nat, c \in Nat :
          a = Len(u) /\ b = Len(p) /\ c = CredLen /\ a <= c /\ b <= c
    BY CodecAssumption DEF Text
<1>2. u \in Seq(Byte) /\ p \in Seq(Byte) /\ <<Colon>> \in Seq(Byte)
    BY DEF Text, Colon, Byte
<1>3. PICK cap \in Nat : /\ cap = TokenCap /\ 2 * c < cap
                         /\ 4 * ((2 * c + 3) \div 3) < cap
    BY <1>1, FormAssumption
<1>4. Raw(u, p) = Joined(u, p)
  <2>1. Len(<<>>) + a <= TokenCap /\ <<>> \o u = u
      BY <1>1, <1>2, <1>3
  <2>2. a + Len(<<Colon>>) <= TokenCap
      BY <1>1, <1>3
  <2>3. Len(u \o <<Colon>>) = a + 1
      BY <1>1, <1>2
  <2>4. a + 1 + b <= TokenCap
      BY <1>1, <1>3
  <2> QED BY <1>1, <2>1, <2>2, <2>3, <2>4, Zenon DEF Raw, Joined
<1>5. Joined(u, p) \in Seq(Byte) /\ Len(Joined(u, p)) = a + 1 + b
    BY <1>1, <1>2, JoinedParts
<1>6. PICK q \in Nat : q = (a + 1 + b + 2) \div 3 /\ 4 * q < cap
  <2>1. (a + 1 + b + 2) \div 3 \in Nat /\ (a + 1 + b + 2) \div 3 <= (2 * c + 3) \div 3
      BY <1>1, SMT
  <2>2. (2 * c + 3) \div 3 \in Nat
      BY SMT
  <2> QED BY <1>3, <2>1, <2>2
<1>7. Len(Base64(Joined(u, p))) = 4 * q
  <2> DEFINE out == Base64(Joined(u, p))
  <2>1. q = (Len(Joined(u, p)) + 2) \div 3
      BY <1>5, <1>6
  <2>2. out = [k \in 1..4 * q |-> out[k]]
      BY <1>5, <2>1, Base64Length
  <2> HIDE DEF out
  <2>3. Len(out) = 4 * q
      BY <2>2
  <2> QED BY <2>3 DEF out
<1> QED BY <1>3, <1>4, <1>6, <1>7 DEF BasicToken

\* The token of a login: the password is left out when there is no room for it.
LEMMA LoginRaw ==
    ASSUME NEW user \in Seq(Byte), NEW pass \in Seq(Byte), Len(user) <= DecodeCap
    PROVE  Raw(user, pass) = IF Len(user) + 1 + Len(pass) <= TokenCap
                             THEN Joined(user, pass) ELSE Joined(user, <<>>)
<1>1. PICK a \in Nat, b \in Nat, d \in Nat, cap \in Nat :
          /\ a = Len(user) /\ b = Len(pass) /\ d = DecodeCap /\ cap = TokenCap
          /\ a <= d /\ d < cap
    BY FormAssumption
<1>2. Colon \in Byte
    BY DEF Colon, Byte
<1>3. Len(<<>>) + a <= TokenCap /\ <<>> \o user = user
    BY <1>1
<1>4. a + Len(<<Colon>>) <= TokenCap
    BY <1>1
<1>5. /\ Len(user \o <<Colon>>) = a + 1
      /\ (user \o <<Colon>>) \o <<>> = user \o <<Colon>>
    BY <1>1, <1>2
<1> QED BY <1>1, <1>3, <1>4, <1>5, Zenon DEF Raw, Joined

\* web.rs, login_credentials_match: which words the login form accepts.
THEOREM TokenExact ==
    ASSUME NEW u \in Text(CredLen), NEW p \in Text(CredLen), NoNul(u), NoNul(p),
           NEW user \in Seq(Byte), NEW pass \in Seq(Byte)
    PROVE  CredentialsMatch(user, pass, BasicToken(u, p))
               <=> \/ user \o <<Colon>> \o pass = u \o <<Colon>> \o p
                   \/ /\ user \o <<Colon>> = u \o <<Colon>> \o p
                      /\ Len(user) + 1 + Len(pass) > TokenCap
                      /\ Decodable(UrlEncode(pass))
<1> DEFINE match == CredentialsMatch(user, pass, BasicToken(u, p))
           stored == Joined(u, p)
           long == Len(user) + 1 + Len(pass) > TokenCap
<1>1. PICK a \in Nat, b \in Nat, c \in Nat, cap \in Nat, d \in Nat :
          /\ a = Len(user) /\ b = Len(pass) /\ c = CredLen /\ cap = TokenCap
          /\ d = DecodeCap /\ 2 * c <= d /\ d < cap
  <2>1. Len(user) \in Nat /\ Len(pass) \in Nat
      OBVIOUS
  <2>2. /\ CredLen \in Nat /\ TokenCap \in Nat /\ DecodeCap \in Nat
        /\ 2 * CredLen <= DecodeCap /\ DecodeCap < TokenCap
      BY CodecAssumption, FormAssumption
  <2> QED BY <2>1, <2>2, Zenon
<1>2. /\ u \in Seq(Byte) /\ p \in Seq(Byte) /\ Utf8(u) /\ Utf8(p)
      /\ Len(u) <= c /\ Len(p) <= c /\ <<>> \in Seq(Byte)
    BY <1>1 DEF Text
<1>3. /\ stored \in Seq(Byte) /\ Utf8(stored) /\ NoNul(stored)
      /\ Len(stored) = Len(u) + 1 + Len(p)
    BY <1>2, JoinedParts, JoinedUtf8
<1>4. match <=> /\ Plain(user) /\ Plain(pass)
                /\ BasicToken(user, pass) = Base64(stored)
    BY DecodablePlain, DecodeEncode, StoredToken DEF CredentialsMatch, LoginParsed
<1>5. ASSUME NEW x \in Seq(Byte), NEW y \in Seq(Byte), Joined(x, y) = stored
      PROVE  Plain(x) /\ Plain(y) /\ Len(x) + 1 + Len(y) <= TokenCap
  <2>1. Utf8(x) /\ Utf8(y) /\ NoNul(x) /\ NoNul(y)
      BY <1>3, <1>5, JoinedUtf8
  <2>2. PICK e \in Nat, f \in Nat, g \in Nat, h \in Nat :
            /\ e = Len(x) /\ f = Len(y) /\ g = Len(u) /\ h = Len(p)
            /\ g <= c /\ h <= c
      BY <1>2
  <2>3. e + 1 + f = g + 1 + h
      BY <1>3, <1>5, <2>2, JoinedParts
  <2>4. e <= d /\ f <= d /\ e + 1 + f <= cap
      BY <1>1, <2>2, <2>3
  <2> QED BY <1>1, <2>1, <2>2, <2>4 DEF Plain
<1>6. ASSUME Plain(user), Plain(pass)
      PROVE  BasicToken(user, pass) = Base64(stored)
                 <=> (IF long THEN Joined(user, <<>>) ELSE Joined(user, pass)) = stored
  <2> DEFINE raw == Raw(user, pass)
             out == Base64(raw)
  <2>1. raw = IF long THEN Joined(user, <<>>) ELSE Joined(user, pass)
    <3>1. raw = IF a + 1 + b <= cap THEN Joined(user, pass) ELSE Joined(user, <<>>)
        BY <1>1, <1>6, LoginRaw DEF Plain
    <3>2. long <=> ~(a + 1 + b <= cap)
        BY <1>1
    <3> QED BY <3>1, <3>2, Zenon
  <2>2. raw \in Seq(Byte)
      BY <1>2, <2>1, JoinedParts
  <2> HIDE DEF raw
  <2>3. PICK n \in Nat : n = Len(raw)
      BY <2>2
  <2>4. PICK q \in Nat : q = (n + 2) \div 3
      BY Chunks
  <2>5. out = [k \in 1..4 * q |-> out[k]]
      BY <2>2, <2>3, <2>4, Base64Length
  <2>6. BasicToken(user, pass) = IF Len(out) <= TokenCap THEN out ELSE SubSeq(out, 1, TokenCap)
      BY DEF BasicToken, raw
  <2>7. Len(Base64(stored)) < TokenCap
      BY StoredToken
  <2> HIDE DEF out
  <2>8. CASE Len(out) <= TokenCap
    <3>1. BasicToken(user, pass) = out
        BY <2>6, <2>8
    <3>2. out = Base64(stored) <=> raw = stored
        BY <1>3, <2>2, Base64Injective DEF out
    <3> QED BY <2>1, <3>1, <3>2
  <2>9. CASE ~(Len(out) <= TokenCap)
    <3>1. Len(out) = 4 * q /\ 4 * q \in Nat
        BY <2>5
    <3>2. SubSeq(out, 1, cap) = [k \in 1..cap |-> out[k]]
        BY <1>1, <2>5, <2>9, <3>1
    <3>3. Len(BasicToken(user, pass)) = cap
        BY <1>1, <2>6, <2>9, <3>2
    <3>4. BasicToken(user, pass) # Base64(stored)
        BY <1>1, <2>7, <3>3
    <3>5. Base64(stored) # out
        BY <2>7, <2>9, <3>1, <1>1
    <3>6. raw # stored
        BY <3>5 DEF out
    <3> QED BY <2>1, <3>4, <3>6
  <2> QED BY <2>8, <2>9
<1>7. Joined(user, <<>>) = user \o <<Colon>>
  <2>1. Colon \in Byte
      BY DEF Colon, Byte
  <2>2. user \o <<Colon>> \in Seq(Byte)
      BY <2>1
  <2> QED BY <2>2 DEF Joined
<1>8. CASE long
  <2>1. Joined(user, pass) # stored
    <3>1. ~(a + 1 + b <= cap)
        BY <1>1, <1>8
    <3> QED BY <1>1, <1>5, <3>1
  <2>2. Joined(user, <<>>) = stored => Plain(user)
      BY <1>2, <1>5
  <2>3. match <=> Plain(pass) /\ Joined(user, <<>>) = stored
      BY <1>4, <1>6, <1>8, <2>2
  <2> QED BY <1>7, <1>8, <2>1, <2>3, DecodablePlain DEF Joined
<1>9. CASE ~long
  <2>1. Joined(user, pass) = stored => Plain(user) /\ Plain(pass)
      BY <1>5
  <2>2. match <=> Joined(user, pass) = stored
      BY <1>4, <1>6, <1>9, <2>1
  <2> QED BY <1>9, <2>2 DEF Joined
<1> QED BY <1>8, <1>9
=============================================================================
