-------------------------------- MODULE Sse ---------------------------------
(***************************************************************************)
(* The text pipeline of a completion: IncrementalDetok turns token ids     *)
(* into text and StopMatcher looks for stop strings in it, holding back    *)
(* what could be the beginning of one.                                     *)
(*                                                                         *)
(* A text is a sequence of characters: "a" and "b" take one byte, "e"      *)
(* stands for a character of two, "fffd" for U+FFFD.  A token is the       *)
(* sequence of its characters, or of the two bytes "lead" and "cont" of an *)
(* "e" that the vocabulary splits.                                         *)
(***************************************************************************)
EXTENDS Integers, Sequences, FiniteSets, FiniteSetsExt

CONSTANT Lossy   \* the tokenizer replaces an incomplete character (or refuses it)

Chars == {"a", "b", "e", "fffd"}

Count(s, c) == Cardinality({i \in DOMAIN s : s[i] = c})

\* str::len
Bytes(s) == Len(s) + Count(s, "e") + 2 * Count(s, "fffd")

\* The end-of-sequence token.
Eos == <<"eos">>

\* Tokenizer::decode of the characters and bytes of some tokens, with
\* unwrap_or_default.
Decode(syms) ==
    LET First(i) == i < Len(syms) /\ syms[i] = "lead" /\ syms[i + 1] = "cont"
        Char(i) == IF First(i) THEN "e"
                   ELSE IF i > 1 /\ First(i - 1) THEN "none"
                   ELSE IF syms[i] \in {"lead", "cont"} THEN "fffd"
                   ELSE syms[i]
        text == SelectSeq([i \in 1..Len(syms) |-> Char(i)], LAMBDA c : c # "none")
    IN IF Lossy \/ Count(text, "fffd") = 0 THEN text ELSE << >>

\* floor_char_boundary: as many characters as end at or before byte i.
FloorCharBoundary(s, i) == Max({k \in 0..Len(s) : k = 0 \/ Bytes(SubSeq(s, 1, k)) <= i})

\* IncrementalDetok::push: the text it adds when the tokens now decode to
\* `full` and `emitted` bytes were surfaced before.
Suffix(full, emitted) == SubSeq(full, FloorCharBoundary(full, emitted) + 1, Len(full))

\* The characters that precede an occurrence of a stop string in s.
Found(stops, s) ==
    {k \in 0..Len(s) : \E w \in stops : k + Len(w) <= Len(s) /\ SubSeq(s, k + 1, k + Len(w)) = w}

MaxLen(stops) == Max({0} \cup {Bytes(w) : w \in stops})

\* The matcher without a hit: all but the last `hold` bytes are released.
Held(b, hold) ==
    LET cut == IF Bytes(b) > hold THEN FloorCharBoundary(b, Bytes(b) - hold) ELSE 0
    IN [emit |-> SubSeq(b, 1, cut), buffer |-> SubSeq(b, cut + 1, Len(b)), hit |-> FALSE]

Hit(b, k) == [emit |-> SubSeq(b, 1, k), buffer |-> << >>, hit |-> TRUE]

\* Mutant of Feed: one byte too few is held back.
FeedHoldingLess(stops, buffer, piece) ==
    LET b == buffer \o piece IN
    IF Found(stops, b) # {} THEN Hit(b, Min(Found(stops, b)))
    ELSE Held(b, Max({MaxLen(stops) - 2, 0}))

\* StopMatcher::feed.
Feed(stops, buffer, piece) ==
    LET b == buffer \o piece IN
    IF Found(stops, b) # {} THEN Hit(b, Min(Found(stops, b)))
    ELSE Held(b, Max({MaxLen(stops) - 1, 0}))
=============================================================================
