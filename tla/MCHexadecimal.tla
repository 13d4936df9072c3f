--------------------------- MODULE MCHexadecimal ---------------------------
(* Hexadecimal on all short texts over a few characters, and on short octet *)
(* sequences over a few octets, each built up one element at a time.        *)
EXTENDS Hexadecimal

CONSTANTS Characters,   \* of the texts
          MaxText,      \* bound: the length of a text
          Samples,      \* octets
          Separators, GroupSizes, Ignored

ASSUME HexConstants ==
    MaxText \in Nat /\ Samples \subseteq Octets /\ Separators \cap Digits = {}
    /\ Ignored \cap (Digits \cup {"x", "X"}) = {} /\ GroupSizes \subseteq Nat \ {0}

VARIABLES text, octets

TypeCharacter(c) ==
    /\ octets = <<>> /\ Len(text) < MaxText
    /\ text' = Append(text, c)
    /\ UNCHANGED octets

AddOctet(o) ==
    /\ text = <<>> /\ Len(octets) < 4
    /\ octets' = Append(octets, o)
    /\ UNCHANGED text

Init == text = <<>> /\ octets = <<>>

Next == (\E c \in Characters : TypeCharacter(c)) \/ (\E o \in Samples : AddOctet(o))

Spec == Init /\ [][Next]_<<text, octets>>

AllStyles == Styles(Separators, GroupSizes)

\* The same text but for the case of its digits and of the prefix.
Lowered(c) == IF c \in Digits THEN hex_digit(hex_value(c), "lower")
              ELSE IF c = "X" THEN "x" ELSE c
SameText(t, u) == [i \in 1..Len(t) |-> Lowered(t[i])] = [i \in 1..Len(u) |-> Lowered(u[i])]

\* hex_decode inverts hex_encode in every style: what decode infers from the length of the
\* text alone (hexadecimal.cxx 46-69) is the number of octets that were encoded, a text is
\* accepted only if it is, but for case, the encoding of what it is decoded to, and the
\* size the encoder reserves is the size it fills.
DecodeInvertsEncode ==
    \A s \in AllStyles :
        /\ decode(text, s) # Nothing =>
              SameText(to_hex_chars(decode(text, s)[1], s, "lower"), text)
        /\ \A case \in {"lower", "upper"} :
              LET t == to_hex_chars(octets, s, case)
              IN  decode(t, s) = Just(octets) /\ Len(t) = hex_encoded_size(Len(octets), s)

\* The relaxed decoder accepts a text exactly if its digits come in adjacent pairs and all
\* else, behind the prefix, is to be ignored; the two passes it makes over the text
\* (hexadecimal.cxx 107-124) agree on that and on which digits form an octet.
RelaxedReadsPairs ==
    LET u == Behind0x(text)
        D == SelectSeq([i \in 1..Len(u) |-> i], LAMBDA i : u[i] \in Digits)
        paired == /\ \A i \in 1..Len(u) : u[i] \in Digits \cup Ignored
                  /\ Len(D) % 2 = 0
                  /\ \A k \in 1..(Len(D) \div 2) : D[2 * k] = D[2 * k - 1] + 1
    IN  try_hex_decode_relaxed(text, Ignored) =
           IF paired THEN Just([k \in 1..(Len(D) \div 2) |-> Pair(u[D[2 * k - 1]], u[D[2 * k]])])
           ELSE Nothing

\* The encoder's arithmetic on whole words writes the characters the alphabets list, high
\* digit first: no carry leaves a lane, and the letters are where the table has them.
SpreadMatchesAlphabet ==
    Len(octets) = 4 => \A case \in {"lower", "upper"} :
        \A i \in 1..4 :
            LET w == hex_spread(octets, hex_alpha_bias(case))
            IN  /\ w[2 * i - 2] = Code(octets[i] \div 16, case)
                /\ w[2 * i - 1] = Code(octets[i] % 16, case)

\* The strict and the relaxed decoder of hexadecimal.cxx together.
DecodersRead == DecodeInvertsEncode /\ RelaxedReadsPairs

=============================================================================
