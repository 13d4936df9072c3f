---------------------------- MODULE Hexadecimal ----------------------------
(***************************************************************************)
(* hexadecimal: the conversion of octets to text and back, in the styles   *)
(* of hex_style, and the encoder's word-at-a-time loop.  A text is a       *)
(* sequence of one-character strings; a machine word is a function from    *)
(* 0..7 to its octets, least significant first.                            *)
(***************************************************************************)
EXTENDS Integers, Sequences, FiniteSets, SequencesExt, Bitwise

Octets == 0..255

lower == <<"0", "1", "2", "3", "4", "5", "6", "7", "8", "9", "a", "b", "c", "d", "e", "f">>
upper == <<"0", "1", "2", "3", "4", "5", "6", "7", "8", "9", "A", "B", "C", "D", "E", "F">>

Alphabet(case) == IF case = "upper" THEN upper ELSE lower

Digits == {lower[i] : i \in 1..16} \cup {upper[i] : i \in 1..16}

\* hex_digit, and hex_value of a digit.
hex_digit(n, case) == Alphabet(case)[n + 1]
hex_value(c) == CHOOSE n \in 0..15 : c \in {lower[n + 1], upper[n + 1]}

\* A style: the separator between groups ("" for none), octets per group, a prefix or not.
Styles(separators, groups) ==
    [separator : separators, group : groups, prefix : BOOLEAN]

hex_encoded_size(n, s) ==
    2 * n + (IF s.separator # "" /\ n > 1 THEN (n - 1) \div s.group ELSE 0)
          + (IF s.prefix THEN 2 ELSE 0)

-----------------------------------------------------------------------------
(* Encoding                                                                 *)

\* hex_encode_to, octet by octet.
hex_encode_to(b, case) ==
    FlattenSeq([i \in 1..Len(b) |->
                   <<hex_digit(b[i] \div 16, case), hex_digit(b[i] % 16, case)>>])

\* The octets of group k, of at most s.group octets each.
Group(b, k, s) == SubSeq(b, (k - 1) * s.group + 1, Min({k * s.group, Len(b)}))
Groups(b, s)   == (Len(b) + s.group - 1) \div s.group

to_hex_chars(b, s, case) ==
    (IF s.prefix THEN <<"0", "x">> ELSE <<>>) \o
    (IF s.separator = "" THEN hex_encode_to(b, case)
     ELSE FlattenSeq([k \in 1..Groups(b, s) |->
              hex_encode_to(Group(b, k, s), case) \o
              (IF k = Groups(b, s) THEN <<>> ELSE <<s.separator>>)]))

-----------------------------------------------------------------------------
(* Decoding                                                                 *)

Nothing == <<>>                \* nullopt, or a failure
Just(b) == <<b>>

IsPrefix0x(t) == Len(t) >= 2 /\ t[1] = "0" /\ t[2] \in {"x", "X"}
Pair(h, l)    == 16 * hex_value(h) + hex_value(l)

\* Where the digits of octet i of a text in style s begin: after the prefix, the octets
\* before it and the separators from_hex_chars steps over.
OffsetOf(i, s) ==
    (IF s.prefix THEN 2 ELSE 0) + 2 * (i - 1) + 1
    + (IF s.separator # "" THEN (i - 1) \div s.group ELSE 0)

\* from_hex_chars into n octets: the prefix, a separator after each group but the last,
\* and nothing but digits in between.
from_hex_chars(t, n, s) ==
    IF /\ Len(t) >= hex_encoded_size(n, s)
       /\ s.prefix => IsPrefix0x(t)
       /\ \A i \in 1..n : {t[OffsetOf(i, s)], t[OffsetOf(i, s) + 1]} \subseteq Digits
       /\ s.separator # "" =>
             \A i \in 1..(n - 1) : i % s.group = 0 => t[OffsetOf(i, s) + 2] = s.separator
    THEN Just([i \in 1..n |-> Pair(t[OffsetOf(i, s)], t[OffsetOf(i, s) + 1])])
    ELSE Nothing

\* Mutant of Count: a whole last group is not counted.
Count_Short(n, s) ==
    IF s.separator = "" THEN n \div 2
    ELSE LET unit == 2 * s.group + 1
             rem  == n % unit
         IN  IF rem # 0 /\ rem % 2 = 0 THEN -1
             ELSE (n \div unit) * s.group + (IF rem # 0 THEN (rem - 1) \div 2 ELSE 0)

\* The number of octets a text of n characters behind the prefix can stand for; -1 when
\* decode gives up.
Count(n, s) ==
    IF s.separator = "" THEN n \div 2
    ELSE LET unit == 2 * s.group + 1
             rem  == (n + 1) % unit
         IN  IF rem # 0 /\ rem % 2 = 0 THEN -1
             ELSE ((n + 1) \div unit) * s.group + (IF rem # 0 THEN (rem - 1) \div 2 ELSE 0)

decode(t, s) ==
    LET n == Len(t) - IF s.prefix THEN 2 ELSE 0
    IN  IF n < 0 \/ Count(n, s) < 0 \/ hex_encoded_size(Count(n, s), s) # Len(t)
        THEN Nothing
        ELSE from_hex_chars(t, Count(n, s), s)

\* The text behind a prefix, if there is one.
Behind0x(t) == IF IsPrefix0x(t) THEN SubSeq(t, 3, Len(t)) ELSE t

\* One turn of from_hex_chars_relaxed from position r.at: the characters to ignore are
\* stepped over, and two digits must follow.
Octet1(t, r, ignored) ==
    LET ahead == {i \in r.at..Len(t) : t[i] \notin ignored}
        p     == IF ahead = {} THEN Len(t) + 1 ELSE Min(ahead)
    IN  IF p + 1 > Len(t) \/ ~({t[p], t[p + 1]} \subseteq Digits) THEN [r EXCEPT !.ok = FALSE]
        ELSE [ok |-> TRUE, octets |-> Append(r.octets, Pair(t[p], t[p + 1])), at |-> p + 2]

\* from_hex_chars_relaxed into n octets.
from_hex_chars_relaxed(t, n, ignored) ==
    FoldLeft(LAMBDA r, i : IF r.ok THEN Octet1(Behind0x(t), r, ignored) ELSE r,
             [ok |-> TRUE, octets |-> <<>>, at |-> 1],
             [i \in 1..n |-> i])

DigitsIn(t) == {i \in 1..Len(t) : t[i] \in Digits}

\* The digits are counted first, and everything else must be ignorable.
try_hex_decode_relaxed(t, ignored) ==
    LET u == Behind0x(t)
        d == Cardinality(DigitsIn(u))
        r == from_hex_chars_relaxed(u, d \div 2, ignored)
    IN  IF (\E i \in 1..Len(u) : u[i] \notin Digits \cup ignored) \/ d % 2 # 0 \/ ~r.ok
        THEN Nothing
        ELSE Just(r.octets)

-----------------------------------------------------------------------------
(* The encoder's loop over words of four octets: hex_spread on 64 bits      *)

Lanes == 0..7

Shl(w, n)     == [i \in Lanes |-> IF i < n THEN 0 ELSE w[i - n]]
Shr4(w)       == [i \in Lanes |-> w[i] \div 16 + 16 * (IF i = 7 THEN 0 ELSE w[i + 1] % 16)]
Mask(w, m)    == [i \in Lanes |-> w[i] & m[i]]
Merge(w, x)   == [i \in Lanes |-> w[i] | x[i]]
All(b)        == [i \in Lanes |-> b]

\* The sum of two words, with the carry out of each lane into the next.
Carry(w, x)   == LET c[i \in 0..8] ==
                        IF i = 0 THEN 0 ELSE (w[i - 1] + x[i - 1] + c[i - 1]) \div 256
                 IN  c
Plus(w, x)    == [i \in Lanes |-> (w[i] + x[i] + Carry(w, x)[i]) % 256]

\* The product by one octet: the lanes are 0 or 1 here.
Times(w, b)   == [i \in Lanes |-> w[i] * b]

\* Mutant of hex_alpha_bias: the letters follow the digits at once.
hex_alpha_bias_Off(case) == IF case = "upper" THEN 7 ELSE 38

hex_alpha_bias(case) == IF case = "upper" THEN 7 ELSE 39

hex_spread(o, alpha) ==
    LET x0 == [i \in Lanes |-> IF i < 4 THEN o[i + 1] ELSE 0]
        x1 == Merge(Shl(Mask(x0, [i \in Lanes |-> IF i \in {2, 3} THEN 255 ELSE 0]), 2),
                 Mask(x0, [i \in Lanes |-> IF i \in {0, 1} THEN 255 ELSE 0]))
        x2 == Merge(Shl(Mask(x1, [i \in Lanes |-> IF i \in {1, 5} THEN 255 ELSE 0]), 1),
                 Mask(x1, [i \in Lanes |-> IF i \in {0, 4} THEN 255 ELSE 0]))
        x  == Merge(Shl(Mask(x2, [i \in Lanes |-> IF i % 2 = 0 THEN 15 ELSE 0]), 1),
                 Shr4(Mask(x2, [i \in Lanes |-> IF i % 2 = 0 THEN 240 ELSE 0])))
        m  == Mask(Shr4(Plus(x, All(6))), All(1))
    IN  Plus(Plus(x, All(48)), Times(m, alpha))

\* The character code of a digit, as the alphabets spell it.
Code(n, case) == n + (IF n < 10 THEN 48 ELSE IF case = "upper" THEN 55 ELSE 87)

=============================================================================
