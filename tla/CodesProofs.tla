------------------------------ MODULE CodesProofs ------------------------------
(***************************************************************************)
(* The secret code of ma_ango.c loses nothing, for every key of an even    *)
(* length and every text.                                                  *)
(***************************************************************************)
EXTENDS Codes, TLAPS

Byte == SUBSET (0..7)

LEMMA ModSmall == \A h \in Nat \ {0}, j \in Nat : j < h => j % h = j
OBVIOUS

LEMMA ModAddOnce == \A h \in Nat \ {0}, j \in Nat : j < h => (h + j) % h = j
OBVIOUS

\* The halves of a shuffled key have the even and the odd bits.
LEMMA ShuffleLosesNothing ==
  ASSUME NEW key \in Seq(Byte), Len(key) % 2 = 0
  PROVE  BitHalfBack(gb_BitHalfMove(key)) = key
<1> DEFINE half == Len(key) \div 2
           moved == gb_BitHalfMove(key)
<1>1. Len(key) \in Nat /\ half \in Nat /\ Len(key) = 2 * half
  OBVIOUS
<1>2. moved = [i \in 1 .. Len(key) |->
        LET j   == 2 * ((i - 1) % half)
            odd == IF i > half THEN 1 ELSE 0
        IN {4 + m : m \in {n \in 0..3 : 2 * n + odd \in key[j + 1]}}
           \cup {m \in 0..3 : 2 * m + odd \in key[j + 2]}]
  BY DEF gb_BitHalfMove
<1>3. Len(moved) = Len(key)
  BY <1>1, <1>2
<1> HIDE DEF half, moved
<1>4. ASSUME NEW i \in 1 .. Len(key), NEW m \in 0..7
      PROVE  (IF i % 2 = 1 THEN 4 ELSE 0) + m \div 2
                \in moved[(i - 1) \div 2 + 1 + (IF m % 2 = 1 THEN half ELSE 0)]
               <=> m \in key[i]
  <2>1. PICK q \in 0..3, r \in 0..1 : q = m \div 2 /\ r = m % 2 /\ m = 2 * q + r
    OBVIOUS
  <2>2. PICK h \in Nat : h = half /\ h > 0 /\ Len(key) = 2 * h
    BY <1>1
  <2>3. PICK j \in 0 .. h - 1 : j = (i - 1) \div 2
    <3>1. i \in Int /\ 1 <= i /\ i <= 2 * h
      BY <2>2
    <3>2. (i - 1) \div 2 \in 0 .. h - 1
      BY <2>2, <3>1
    <3> QED
      BY <3>2
  <2>4. PICK k \in 1 .. Len(key) : k = j + 1 + (IF r = 1 THEN h ELSE 0)
    <3>1. j + 1 \in 1 .. h /\ j + 1 + h \in 1 .. 2 * h /\ j + 1 \in 1 .. 2 * h
      BY <2>2
    <3> QED
      BY <2>2, <3>1
  <2>5. k > h <=> r = 1
    BY <2>4, <2>3, <2>2
  <2>6. (k - 1) % h = j
    <3>1. CASE r = 1
      <4>1. k - 1 = h + j
        BY <3>1, <2>2, <2>3, <2>4
      <4> QED
        BY <4>1, <2>2, <2>3, ModAddOnce
    <3>2. CASE r # 1
      BY <3>2, <2>2, <2>3, <2>4, ModSmall
    <3> QED
      BY <3>1, <3>2
  <2>7. moved[k] = {4 + n : n \in {n \in 0..3 : 2 * n + r \in key[2 * j + 1]}}
                     \cup {n \in 0..3 : 2 * n + r \in key[2 * j + 2]}
    <3>1. moved[k] = {4 + n : n \in {n \in 0..3 : 2 * n + (IF k > half THEN 1 ELSE 0)
                                                     \in key[2 * ((k - 1) % half) + 1]}}
                     \cup {n \in 0..3 : 2 * n + (IF k > half THEN 1 ELSE 0)
                                           \in key[2 * ((k - 1) % half) + 2]}
      BY <1>2
    <3>2. (k - 1) % half = j /\ (IF k > half THEN 1 ELSE 0) = r
      BY <2>1, <2>2, <2>5, <2>6
    <3> QED
      BY <3>1, <3>2
  <2>8. (i - 1) \div 2 + 1 + (IF m % 2 = 1 THEN half ELSE 0) = k
    BY <2>1, <2>2, <2>3, <2>4
  <2>9. CASE i % 2 = 1
    <3>1. i = 2 * j + 1
      <4>1. i \in Int
        BY <1>1
      <4> QED
        BY <2>9, <2>3, <4>1
    <3>2. 4 + q \in moved[k] <=> 2 * q + r \in key[2 * j + 1]
      <4>1. 4 + q \notin 0..3
        OBVIOUS
      <4> QED
        BY <2>7, <4>1
    <3>3. (IF i % 2 = 1 THEN 4 ELSE 0) + m \div 2 = 4 + q
      BY <2>1, <2>9
    <3> QED
      BY <2>1, <2>8, <3>1, <3>2, <3>3
  <2>10. CASE i % 2 # 1
    <3>1. i = 2 * j + 2
      <4>1. i \in Int
        BY <1>1
      <4> QED
        BY <2>10, <2>3, <4>1
    <3>2. q \in moved[k] <=> 2 * q + r \in key[2 * j + 2]
      BY <2>1, <2>7
    <3>3. (IF i % 2 = 1 THEN 4 ELSE 0) + m \div 2 = q
      BY <2>1, <2>10
    <3> QED
      BY <2>1, <2>8, <3>1, <3>2, <3>3
  <2> QED
    BY <2>9, <2>10
<1>5. ASSUME NEW i \in 1 .. Len(key)
      PROVE  {m \in 0..7 : (IF i % 2 = 1 THEN 4 ELSE 0) + m \div 2
                \in moved[(i - 1) \div 2 + 1 + (IF m % 2 = 1 THEN half ELSE 0)]} = key[i]
  <2>1. key[i] \in Byte
    OBVIOUS
  <2> QED
    BY <1>4, <2>1 DEF Byte
<1>6. BitHalfBack(moved) = [i \in 1 .. Len(key) |-> key[i]]
  <2>1. BitHalfBack(moved) =
          [i \in 1 .. Len(key) |->
             {m \in 0..7 : (IF i % 2 = 1 THEN 4 ELSE 0) + m \div 2
                \in moved[(i - 1) \div 2 + 1 + (IF m % 2 = 1 THEN half ELSE 0)]}]
    BY <1>3 DEF BitHalfBack, half
  <2> QED
    BY <1>5, <2>1
<1> QED
  BY <1>6 DEF moved

LEMMA ShuffleOfBytes ==
  ASSUME NEW key \in Seq(Byte)
  PROVE  /\ DOMAIN gb_BitHalfMove(key) = 1 .. Len(key)
         /\ \A i \in 1 .. Len(key) : gb_BitHalfMove(key)[i] \in Byte
BY DEF gb_BitHalfMove, Byte

\* The rotation of the bits of a byte can be undone.
LEMMA BitsComeBack ==
  ASSUME NEW a \in Byte
  PROVE  {BitBack(b) : b \in {CASE b = 3 -> 6 [] b = 0 -> 3 [] b = 6 -> 0 [] OTHER -> b : b \in a}} = a
BY DEF BitBack, Byte

LEMMA XorTwice == \A a, b \in Byte : Xor(Xor(a, b), b) = a
BY DEF Xor, Byte

\* Whoever knows the key gets every byte of the text from the secret.
LEMMA SecretGivesBack ==
  ASSUME NEW key \in Seq(Byte), NEW bytes, NEW i \in 1 .. Len(key), bytes[i] \in Byte
  PROVE  Xor({BitBack(b) : b \in gb_OutSecretCode(key, bytes)[i]}, gb_BitHalfMove(key)[i]) = bytes[i]
<1> DEFINE mixed == Xor(bytes[i], gb_BitHalfMove(key)[i])
<1>1. gb_BitHalfMove(key)[i] \in Byte
  BY ShuffleOfBytes
<1>2. mixed \in Byte
  BY <1>1 DEF Xor, Byte
<1>3. Len(gb_BitHalfMove(key)) = Len(key)
  BY ShuffleOfBytes DEF gb_BitHalfMove
<1>4. gb_OutSecretCode(key, bytes)[i] =
        {CASE b = 3 -> 6 [] b = 0 -> 3 [] b = 6 -> 0 [] OTHER -> b : b \in mixed}
  BY <1>3 DEF gb_OutSecretCode, gb_BitChangeAndRotation
<1> HIDE DEF mixed
<1>5. {BitBack(b) : b \in gb_OutSecretCode(key, bytes)[i]} = mixed
  BY <1>2, <1>4, BitsComeBack
<1> QED
  BY <1>1, <1>5, XorTwice DEF mixed

LEMMA ReversibleForEveryKey ==
  ASSUME data \in Seq(Byte)
  PROVE  CodeReversible
<1> SUFFICES ASSUME Len(data) % 2 = 0
             PROVE  /\ BitHalfBack(gb_BitHalfMove(data)) = data
                    /\ \A plain \in Bytes, i \in DOMAIN data :
                         Xor({BitBack(b) : b \in gb_OutSecretCode(data, [k \in DOMAIN data |-> plain])[i]},
                             gb_BitHalfMove(data)[i]) = plain
  BY DEF CodeReversible
<1>1. BitHalfBack(gb_BitHalfMove(data)) = data
  BY ShuffleLosesNothing
<1>2. ASSUME NEW plain \in Bytes, NEW i \in DOMAIN data
      PROVE  Xor({BitBack(b) : b \in gb_OutSecretCode(data, [k \in DOMAIN data |-> plain])[i]},
                 gb_BitHalfMove(data)[i]) = plain
  <2> DEFINE text == [k \in DOMAIN data |-> plain]
  <2>1. text[i] = plain /\ plain \in Byte /\ i \in 1 .. Len(data)
    BY CodesAssumption DEF Byte
  <2> HIDE DEF text
  <2>2. Xor({BitBack(b) : b \in gb_OutSecretCode(data, text)[i]}, gb_BitHalfMove(data)[i]) = text[i]
    BY <2>1, SecretGivesBack
  <2> QED
    BY <2>1, <2>2 DEF text
<1> QED
  BY <1>1, <1>2

\* The secret code is reversible given the key, for every key of bytes however
\* long it grows and whatever bytes it is made of.
THEOREM CodesReversible == CodesInit /\ [][Grow]_data => []CodeReversible
<1>1. CodesInit => data \in Seq(Byte)
  BY DEF CodesInit
<1>2. data \in Seq(Byte) /\ [Grow]_data => (data \in Seq(Byte))'
  <2> SUFFICES ASSUME data \in Seq(Byte), Grow PROVE (data \in Seq(Byte))'
    OBVIOUS
  <2>1. PICK b \in Bytes : data' = Append(data, b)
    BY DEF Grow
  <2>2. b \in Byte
    BY CodesAssumption DEF Byte
  <2> QED
    BY <2>1, <2>2
<1>3. data \in Seq(Byte) => CodeReversible
  BY ReversibleForEveryKey
<1> QED
  BY <1>1, <1>2, <1>3, PTL

=============================================================================
