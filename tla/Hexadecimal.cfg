\* All texts of up to 8 of 4 characters, all sequences of up to 4 of 5 octets.
\* The behaviour ends when the bounds are reached.
SPECIFICATION Spec
CONSTANTS
    Characters = {"0", "B", "x", ":"}
    MaxText = 8
    Samples = {0, 9, 160, 175, 255}
    Separators = {"", ":"}
    GroupSizes = {1, 2, 3}
    Ignored = {":"}
CHECK_DEADLOCK FALSE
INVARIANTS
    DecodersRead
    SpreadMatchesAlphabet
