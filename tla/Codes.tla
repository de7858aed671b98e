---------------------------------- MODULE Codes ----------------------------------
(***************************************************************************)
(* The conversions the calls rely on: the code an HTTP server's challenge  *)
(* is answered with (ma_ango.c; the MD5 hash it begins with is left out),  *)
(* and numbers as text (ma_sub.c).  The state is one string of bytes,      *)
(* grown byte by byte, that every conversion is tried on.                  *)
(*                                                                         *)
(* A byte is the set of its bits that are set; a character its ASCII code. *)
(***************************************************************************)
EXTENDS Integers, Sequences, FiniteSets, Folds

CONSTANTS
  Bytes,     \* the bytes tried
  MaxSize    \* how many of them

ASSUME CodesAssumption == Bytes \subseteq SUBSET (0..7) /\ MaxSize \in Nat

VARIABLE data

CodesInit == data = <<>>
Grow == Len(data) < MaxSize /\ \E b \in Bytes : data' = Append(data, b)

----------------------------------------------------------------------------
(* Bits.                                                                   *)

\* The number with these bits, and the other way round.
Number(bits)    == MapThenFoldSet(+, 0, LAMBDA b : 2^b, LAMBDA S : CHOOSE b \in S : TRUE, bits)
Bits(n, width)  == {b \in 0 .. width - 1 : (n \div 2^b) % 2 = 1}

\* bits >> n, cut to a width.
Cut(bits, n, width) == {b \in 0 .. width - 1 : b + n \in bits}

Xor(a, b) == (a \cup b) \ (a \cap b)

----------------------------------------------------------------------------
(* Base64.                                                                 *)

Pad == 61     \* '='

\* xchg, and base64RevTable with 0xff for what is not in the alphabet.
xchg(n) ==
  CASE n < 26 -> 65 + n [] n \in 26..51 -> 71 + n [] n \in 52..61 -> n - 4
    [] n = 62 -> 43 [] n = 63 -> 47

base64RevTable(c) ==
  CASE c \in 65..90 -> c - 65 [] c \in 97..122 -> c - 71 [] c \in 48..57 -> c + 4
    [] c = 43 -> 62 [] c = 47 -> 63 [] OTHER -> 255

\* Three bytes make four symbols; what is missing of the last three is padded.
Base64_encode(bytes) ==
  LET groups == (Len(bytes) + 2) \div 3
      Symbol(g, k) ==
        LET left == Len(bytes) - 3 * g
            n    == IF left < 3 THEN left ELSE 3
            code == UNION {{8 * (2 - j) + b : b \in bytes[3 * g + j + 1]} : j \in 0 .. n - 1}
        IN IF k <= n THEN xchg(Number(Cut(code, 6 * (3 - k), 6))) ELSE Pad
  IN [p \in 1 .. 4 * groups |-> Symbol((p - 1) \div 4, (p - 1) % 4)]

\* Mistake: a group that ends early gives a byte too many.
DecodeTooMuch(length, string) ==
  LET Char(p) == IF p <= Len(string) THEN string[p] ELSE 0
      Valid(p) == base64RevTable(Char(p)) # 255
      from[p \in 1 .. length + 4] ==
        IF p > length THEN <<>>
        ELSE LET i == CHOOSE n \in 0..4 : (\A j \in 0 .. n - 1 : Valid(p + j))
                                          /\ (n < 4 => ~Valid(p + n))
                 code == UNION {{6 * (3 - j) + b : b \in Bits(base64RevTable(Char(p + j)), 6)} :
                                j \in 0 .. i - 1}
             IN [k \in 1 .. (IF i = 4 THEN 3 ELSE i) |-> Cut(code, 8 * (3 - k), 8)]
                \o from[IF i = 4 THEN p + 4 ELSE p + i + 1]
  IN from[1]

\* Four symbols make three bytes; a character that is no symbol ends its group,
\* and i symbols make i - 1 bytes.
Base64_decode(length, string) ==
  LET Char(p) == IF p <= Len(string) THEN string[p] ELSE 0
      Valid(p) == base64RevTable(Char(p)) # 255
      from[p \in 1 .. length + 4] ==
        IF p > length THEN <<>>
        ELSE LET i == CHOOSE n \in 0..4 : (\A j \in 0 .. n - 1 : Valid(p + j))
                                          /\ (n < 4 => ~Valid(p + n))
                 code == UNION {{6 * (3 - j) + b : b \in Bits(base64RevTable(Char(p + j)), 6)} :
                                j \in 0 .. i - 1}
             IN [k \in 1 .. i - 1 |-> Cut(code, 8 * (3 - k), 8)]
                \o from[IF i = 4 THEN p + 4 ELSE p + i + 1]
  IN from[1]

----------------------------------------------------------------------------
(* The secret code.                                                        *)

\* Mistake: the second half takes the even bits again.
HalfMoveEven(key) ==
  LET half == Len(key) \div 2
  IN [i \in 1 .. Len(key) |->
        LET j == 2 * ((i - 1) % half)
        IN {4 + m : m \in {n \in 0..3 : 2 * n \in key[j + 1]}}
           \cup {m \in 0..3 : 2 * m \in key[j + 2]}]

\* The even bits of two bytes make one byte of the first half of the result,
\* the odd bits one of the second half.
gb_BitHalfMove(key) ==
  LET half == Len(key) \div 2
  IN [i \in 1 .. Len(key) |->
        LET j   == 2 * ((i - 1) % half)
            odd == IF i > half THEN 1 ELSE 0
        IN {4 + m : m \in {n \in 0..3 : 2 * n + odd \in key[j + 1]}}
           \cup {m \in 0..3 : 2 * m + odd \in key[j + 2]}]

\* Mask 0xb6 stays, and bits 3, 0 and 6 go to 6, 3 and 0.
gb_BitChangeAndRotation(bytes, key) ==
  LET Moved(b) == CASE b = 3 -> 6 [] b = 0 -> 3 [] b = 6 -> 0 [] OTHER -> b
  IN [i \in 1 .. Len(key) |-> {Moved(b) : b \in Xor(bytes[i], key[i])}]

gb_OutSecretCode(key, bytes) == gb_BitChangeAndRotation(bytes, gb_BitHalfMove(key))

----------------------------------------------------------------------------
(* Numbers.  A digit is its value.                                         *)

MINUS == -1
PLUS  == -2

\* Mistake: the digits are not put in order.
xtoaBackwards(num, base, neg) ==
  LET digits[n \in Nat] ==
        IF n < base THEN <<n>> ELSE <<n % base>> \o digits[n \div base]
  IN IF neg THEN <<MINUS>> \o digits[-num] ELSE digits[num]

\* num is written as an unsigned number of the width of an int.
xtoa(num, base, neg) ==
  LET digits[n \in Nat] ==
        IF n < base THEN <<n>> ELSE Append(digits[n \div base], n % base)
  IN IF neg THEN <<MINUS>> \o digits[-num] ELSE digits[num]

MAU_itoa(num, base, width) ==
  IF base = 10 /\ num < 0 THEN xtoa(num, 10, TRUE) ELSE xtoa(num % 2^width, base, FALSE)

\* A sign, and the digits up to the first character that is none.
MAU_atoi(text) ==
  LET first == IF text # <<>> /\ text[1] \in {MINUS, PLUS} THEN 2 ELSE 1
      total[i \in first - 1 .. Len(text)] ==
        IF i < first THEN 0 ELSE total[i - 1] * 10 + text[i]
      stops == {i \in first .. Len(text) : text[i] \notin 0..9} \cup {Len(text) + 1}
      value == total[(CHOOSE i \in stops : \A j \in stops : i <= j) - 1]
  IN IF first = 2 /\ text[1] = MINUS THEN -value ELSE value

----------------------------------------------------------------------------

\* What Base64_encode writes, Base64_decode reads back, for every length.
Base64RoundTrip ==
  LET text == Base64_encode(data) IN Base64_decode(Len(text), text) = data

\* Where gb_BitChangeAndRotation has taken a bit from.
BitBack(b) == CASE b = 6 -> 3 [] b = 3 -> 0 [] b = 0 -> 6 [] OTHER -> b

\* What the even and the odd bits of the key are put together from again.
BitHalfBack(moved) ==
  LET half == Len(moved) \div 2
  IN [i \in 1 .. Len(moved) |->
        LET j  == (i - 1) \div 2
            up == IF i % 2 = 1 THEN 4 ELSE 0
        IN {m \in 0..7 : up + m \div 2 \in moved[j + 1 + (IF m % 2 = 1 THEN half ELSE 0)]}]

\* gb_OutSecretCode is "reversible given the correct key" (ma_ango.c:128): no
\* bit of the key is lost in the shuffle, and its result gives the data back.
CodeReversible ==
  Len(data) % 2 = 0 =>
    LET shuffled == gb_BitHalfMove(data)
    IN /\ BitHalfBack(shuffled) = data
       /\ \A plain \in Bytes :
            LET secret == gb_OutSecretCode(data, [i \in DOMAIN data |-> plain])
            IN \A i \in DOMAIN data : Xor({BitBack(b) : b \in secret[i]}, shuffled[i]) = plain

\* A number written in base 10 is read back as it was, negative ones included,
\* and one of another base has digits of that base only.
Value == Number(data[1]) * 256 + Number(data[2]) - (IF 7 \in data[1] THEN 65536 ELSE 0)

NumberRoundTrip ==
  Len(data) = 2 =>
    /\ MAU_atoi(MAU_itoa(Value, 10, 16)) = Value
    /\ \A base \in {2, 16} :
         LET text == MAU_itoa(Value, base, 16)
         IN \A i \in DOMAIN text : text[i] \in 0 .. base - 1

=============================================================================
