-------------------------------- MODULE Zcode --------------------------------
(***************************************************************************)
(* How the text of a Zcode and its bits become each other                  *)
(* (math_functions.cpp, coding_functions.cpp).                             *)
(*                                                                         *)
(* The bits, last first, are one number.  It is packed into 24-bit digits  *)
(* and divided by 36 until nothing is left, which gives the text; the text *)
(* is divided by 2 until nothing is left, which gives the bits.  Zeros in  *)
(* front get lost on the way.  Read from the first bit on, the number is   *)
(* the metadata, two bits of version and one bit for each zekyll.          *)
(*                                                                         *)
(* A letter of the text is its value, 0 .. 35, and 36 is any character     *)
(* that is not allowed.                                                    *)
(***************************************************************************)
EXTENDS Integers, SequencesExt

PackBits == 24
Radix == 36
Bit == {0, 1}

-----------------------------------------------------------------------------
(* codes, rcodes: the words of the metadata.  The words of six bits are the  *)
(* numbers from 0 on, those of seven bits the numbers from 100 on, so none   *)
(* is the beginning of another.                                              *)
Words6 ==
  << "m", "n", "k", "l", "q", "r", "o", "p", "e", "f", "c", "d", "i", "j",
     "g", "h", "2", "3", "0", "1", "6", "7", "4", "5", "u", "v", "s", "t",
     "y", "z", "w", "x", "unused2", "~", "site", "unused1", "-", "_", "/",
     "file", "ss", ".", "8", "9", "wordrev", "chksum", "rev", "repo", "a",
     "b" >>
Words7 ==
  << "C", "D", "unused3", "B", "W", "X", "U", "V", "A", " ", "Y", "Z", "O",
     "P", "M", "N", "S", "T", "Q", "R", "G", "H", "E", "F", "K", "L", "I",
     "J" >>

Keys == {"file", "rev", "repo", "wordrev", "chksum", "site", "unused1",
         "unused2", "unused3", "error"}

(* The words that are no characters.                                         *)
Controls == Keys \cup {"ss"}

InBits(n, width) == [k \in 1 .. width |-> (n \div 2 ^ (width - k)) % 2]

codes ==
  [word \in ToSet(Words6 \o Words7) |->
     LET place == SelectInSeq(Words6 \o Words7, LAMBDA w : w = word)
     IN  IF place <= Len(Words6) THEN InBits(place - 1, 6)
         ELSE InBits(place - Len(Words6) + 99, 7)]

(* The word at the start of the bits, "" if there is none.                   *)
FirstWord(bits) ==
  LET found == {word \in DOMAIN codes : IsPrefix(codes[word], bits)}
  IN  IF found = {} THEN "" ELSE CHOOSE word \in found : TRUE

-----------------------------------------------------------------------------
(* Base conversion.                                                         *)

(* div2, div_24_bit_pack_numbers_36: long division of a number whose digits  *)
(* have the given base.  Leading zeros stay.                                 *)
LongDivision(numbers, base, divisor) ==
  LET divided[k \in 0 .. Len(numbers)] ==
        IF k = 0 THEN [result |-> <<>>, subtracted |-> 0]
        ELSE LET before == divided[k - 1]
                 prepared == base * before.subtracted + numbers[k]
             IN  [result |-> Append(before.result, prepared \div divisor),
                  subtracted |-> prepared % divisor]
  IN  divided[Len(numbers)]

AllZero(numbers) == \A k \in DOMAIN numbers : numbers[k] = 0

(* The remainders of dividing again and again until nothing is left, the     *)
(* last one first.                                                           *)
Remainders(numbers, base, divisor) ==
  LET of[n \in Seq(Nat)] ==
        IF AllZero(n) THEN <<>>
        ELSE LET division == LongDivision(n, base, divisor)
             IN  Append(of[division.result], division.subtracted)
  IN  of[numbers]

InNumber(bits) ==
  LET value[k \in 0 .. Len(bits)] ==
        IF k = 0 THEN 0 ELSE 2 * value[k - 1] + bits[k]
  IN  value[Len(bits)]

(* Mutant of arr_01_to_24_bit_pack_numbers: packs are taken from the left.   *)
packs_from_left(bits) ==
  [k \in 1 .. (Len(bits) + PackBits - 1) \div PackBits |->
     InNumber(SubSeq(bits, PackBits * (k - 1) + 1,
                     IF PackBits * k < Len(bits) THEN PackBits * k
                     ELSE Len(bits)))]

(* Packs of 24 bits, from right to left; the leftmost may be shorter.        *)
arr_01_to_24_bit_pack_numbers(bits) ==
  LET packs == (Len(bits) + PackBits - 1) \div PackBits
      last(k) == Len(bits) - PackBits * (packs - k)
      first(k) == IF last(k) > PackBits THEN last(k) - PackBits + 1 ELSE 1
  IN  [k \in 1 .. packs |-> InNumber(SubSeq(bits, first(k), last(k)))]

encode_zcode_arr01(bits) ==
  Remainders(arr_01_to_24_bit_pack_numbers(bits), 2 ^ PackBits, Radix)

(* No bits if a letter is not allowed (error 103).                           *)
decode_zcode(letters) ==
  IF \E k \in DOMAIN letters : letters[k] >= Radix THEN <<>>
  ELSE Remainders(letters, Radix, 2)

-----------------------------------------------------------------------------
(* Metadata, read from the first bit on.                                    *)

(* QString::trimmed.  Of the blanks only the space has a code.               *)
Blanks == {" ", "\t"}

trimmed(data) ==
  LET solid == {k \in DOMAIN data : data[k] \notin Blanks}
  IN  IF solid = {} THEN <<>> ELSE SubSeq(data, Min(solid), Max(solid))

(* BitsForString: the codes of the characters that have one.                 *)
BitsForString(data) ==
  LET list == trimmed(data)
  IN  FlattenSeq([k \in DOMAIN list |->
                    IF list[k] \in DOMAIN codes THEN codes[list[k]] ELSE <<>>])

BitsWithPreamble(type, data) ==
  LET bits == BitsForString(data)
  IN  IF bits = <<>> THEN <<>> ELSE codes[type] \o bits

(* The bits end with a mark.  If another one is before it, both go: "Two     *)
(* consecutive SS bits occured".                                             *)
BitsRemoveIfStartStop(bits) ==
  LET marked == SubSeq(bits, 1, Len(bits) - Len(codes.ss))
  IN  IF IsSuffix(codes.ss, marked)
      THEN SubSeq(marked, 1, Len(marked) - Len(codes.ss))
      ELSE bits

NothingDecoded == [key \in Keys |-> <<>>]

(* rsites, by the digit of the site.                                         *)
rsites(digit) == CASE digit = "1" -> <<"gh">>
                   [] digit = "2" -> <<"bb">>
                   [] digit = "3" -> <<"gl">>
                   [] OTHER -> <<>>

(* The words up to the next mark and the bits after it.  Bits that start     *)
(* with no word end the reading (error 121).                                 *)
ReadWords(bits) ==
  LET read[rest \in Seq(Bit)] ==
        LET word == FirstWord(rest)
        IN  CASE word = "" -> [words |-> <<>>, rest |-> rest, complete |-> FALSE]
              [] word = "ss" -> [words |-> <<>>, complete |-> TRUE,
                                 rest |-> SubSeq(rest, Len(codes.ss) + 1, Len(rest))]
              [] OTHER ->
                   LET after == read[SubSeq(rest, Len(codes[word]) + 1, Len(rest))]
                   IN  [after EXCEPT !.words = <<word>> \o @]
  IN  read[bits]

(* A key says what the words after it are.                                   *)
DecodeWord(s, word) ==
  IF word \in Keys THEN [s EXCEPT !.key = word]
  ELSE [s EXCEPT !.decoded[s.key] =
          @ \o (IF s.key = "site" THEN rsites(word) ELSE <<word>>)]

(* Incomplete metadata takes no bits, but what was decoded so far is kept.   *)
Decoded(bits, read) ==
  [skip |-> IF read.complete THEN Len(bits) - Len(read.rest) ELSE 0,
   decoded |-> FoldLeft(DecodeWord, [key |-> "error", decoded |-> NothingDecoded],
                        read.words).decoded]

(* What the metadata says, and how many bits it takes.                       *)
process_meta_data(bits) ==
  IF ~ IsPrefix(codes.ss, bits) THEN [skip |-> 0, decoded |-> NothingDecoded]
  ELSE IF IsPrefix(codes.ss \o codes.ss, bits)
  THEN [skip |-> Len(codes.ss), decoded |-> NothingDecoded]
  ELSE Decoded(bits, ReadWords(SubSeq(bits, Len(codes.ss) + 1, Len(bits))))

=============================================================================
