------------------------------ MODULE Encodings ------------------------------
(***************************************************************************)
(* How a text gets into a String and out again: a source in UTF-8 or       *)
(* UTF-16 is decoded, the code points are encoded, and what came out is    *)
(* decoded once more.  That is the way of a map's name from the game       *)
(* (UTF-16) to the log (UTF-8), and of every text that is read from UTF-8. *)
(* Sources need not be well-formed.  Behind some there is a zero, which is *)
(* part of what may be read; a string_view, a pointer with a length, or    *)
(* the buffer of _decodeFromANSI has none, and what lies behind it may be  *)
(* anything.  Only a length tells the decoder where such a source ends.    *)
(*                                                                         *)
(* What is decoded may be a number, and String::parseInt read it.          *)
(***************************************************************************)
EXTENDS Integers, Sequences, FiniteSets, SequencesExt

CONSTANTS
    Bytes,      \* the bytes a source in UTF-8 is made of
    Units,      \* the units a source in UTF-16 is made of
    MaxBytes,   \* bound: the longest source in UTF-8
    MaxUnits,   \* bound: the longest source in UTF-16
    Numerals,   \* more sources in UTF-8: numbers and what looks like them
    LongRange,  \* how many values a uint64_t has, scaled
    IntRange,   \* and a shorter integer type, scaled
    None        \* std::nullopt

UnitsOf(to) == IF to = "utf8" THEN 0 .. 255 ELSE {u \in Nat : u <= 65535}

ASSUME EncodingAssumption ==
    /\ Bytes \subseteq UnitsOf("utf8") /\ Units \subseteq UnitsOf("utf16")
    /\ MaxBytes \in Nat /\ MaxUnits \in Nat
    /\ Numerals \subseteq Seq(UnitsOf("utf8"))
    /\ IntRange \in Nat \ {0} /\ IntRange % 2 = 0 /\ IntRange <= LongRange
    /\ LongRange \in Nat /\ LongRange % 2 = 0
    /\ None \notin Int

VARIABLES
    enc,        \* the encoding of units
    units,      \* the text that is being decoded
    pos,        \* where the decoder is in it
    read,       \* the last position it has read
    state,      \* state of the UTF-8 decoder
    codep,      \* and the bits it has so far
    text,       \* the code points decoded so far
    phase,      \* decoding the source, holding its code points, decoding again
    source,     \* history: the source, its encoding and its code points
    sourceEnc,
    sourceText,
    sized       \* it came with a length, and without a zero behind it

vars == <<enc, units, pos, read, state, codep, text, phase,
          source, sourceEnc, sourceText, sized>>
history == <<source, sourceEnc, sourceText, sized>>

Sources ==
    (((UNION {[1 .. n -> Bytes] : n \in 0 .. MaxBytes}) \cup Numerals) \X {"utf8"})
        \cup ((UNION {[1 .. n -> Units] : n \in 0 .. MaxUnits}) \X {"utf16"})

Init ==
    /\ \E s \in Sources : units = s[1] /\ enc = s[2]
    /\ source = units /\ sourceEnc = enc /\ sourceText = <<>>
    /\ sized \in BOOLEAN
    /\ pos = 1 /\ read = 0 /\ state = 0 /\ codep = 0
    /\ text = <<>>
    /\ phase = "decoding"

-----------------------------------------------------------------------------
(* The table of the UTF-8 decoder: classes of bytes and, for a state and a  *)
(* class, the next state.                                                   *)

ACCEPT == 0
REJECT == 1

Class(byte) ==
    CASE byte \in   0 .. 127 -> 0
      [] byte \in 128 .. 143 -> 1
      [] byte \in 144 .. 159 -> 9
      [] byte \in 160 .. 191 -> 7
      [] byte \in 194 .. 223 -> 2
      [] byte = 224          -> 10
      [] byte = 237          -> 4
      [] byte = 240          -> 11
      [] byte = 244          -> 5
      [] byte \in 241 .. 243 -> 6
      [] byte \in 225 .. 239 \ {237} -> 3
      [] OTHER               -> 8

NextState(st, class) ==
    CASE st = 0 /\ class \in {0, 2, 3, 4, 5, 6} -> <<0, 0, 2, 3, 5, 8, 7>>[class + 1]
      [] st = 0 /\ class \in {10, 11}           -> IF class = 10 THEN 4 ELSE 6
      [] st = 2 /\ class \in {1, 7, 9}          -> 0
      [] st = 3 /\ class \in {1, 7, 9}          -> 2
      [] st = 4 /\ class = 7                    -> 2
      [] st = 5 /\ class \in {1, 9}             -> 2
      [] st = 6 /\ class \in {7, 9}             -> 3
      [] st = 7 /\ class \in {1, 7, 9}          -> 3
      [] st = 8 /\ class = 1                    -> 3
      [] OTHER                                  -> REJECT

(* Bugs this table could have had: 0xE0, or 0xED, is like any other byte    *)
(* that begins three.                                                       *)
DecodeStepOverlong(st, byte) == NextState(st, IF byte = 224 THEN 3 ELSE Class(byte))

DecodeStepSurrogate(st, byte) == NextState(st, IF byte = 237 THEN 3 ELSE Class(byte))

DecodeStep(st, byte) == NextState(st, Class(byte))

(* The bits of the code point: (0xff >> type) & byte, then six a byte;      *)
(* with at most four bytes to a sequence they fit.                          *)
Accumulate(st, cp, byte) ==
    IF st # 0 THEN cp * 64 + (byte % 64)
    ELSE IF Class(byte) > 8 THEN 0 ELSE byte % 2^(8 - Class(byte))

(* The units before the first zero.                                         *)
Terminated(us) == SelectInSeq(us \o <<0>>, LAMBDA u : u = 0) - 1

(* The states after each byte when the bytes are only looked at: after a    *)
(* rejected one the state is REJECT for good.                               *)
StatesOf(bytes) ==
    LET after[i \in 0 .. Len(bytes)] ==
            IF i = 0 THEN ACCEPT ELSE DecodeStep(after[i - 1], bytes[i])
    IN after

(* Validate: no byte is rejected.                                           *)
Validate(bytes) == StatesOf(bytes)[Terminated(bytes)] # REJECT

(* UnicodeLength of UTF-8; -1 is the largest size_t.                        *)
Utf8Length(bytes) ==
    IF StatesOf(bytes)[Terminated(bytes)] # ACCEPT
    THEN Cardinality({i \in 1 .. Terminated(bytes) : StatesOf(bytes)[i] = ACCEPT})
    ELSE -1

-----------------------------------------------------------------------------
(* String::_decodeFrom calls Next as long as it is inside of the source and *)
(* Next returns a character; each action below is one unit or character.    *)

Decoding == phase \in {"decoding", "again"}

(* What is encoded by the program ends with a zero.                         *)
Unterminated == sized /\ phase \in {"decoding", "decoded"}

(* What may be read at i.                                                   *)
Readable(i) ==
    IF i <= Len(units) THEN {units[i]}
    ELSE {0} \cup (IF ~Unterminated THEN {} ELSE IF enc = "utf8" THEN Bytes ELSE Units)

Inside == pos <= Len(units)

TextEnds ==
    /\ phase' = IF phase = "decoding" THEN "decoded" ELSE "done"
    /\ sourceText' = IF phase = "decoding" THEN text ELSE sourceText
    /\ UNCHANGED <<enc, units, pos, state, codep, text, source, sourceEnc, sized>>

(* A bug this code could have had: a malformed sequence ends the text.      *)
RejectEndsText ==
    /\ read' = pos
    /\ TextEnds

(* U+FFFD stands for the rejected byte and those before it.                 *)
RejectSequence ==
    /\ read' = pos
    /\ pos' = pos + 1
    /\ text' = Append(text, 65533)
    /\ state' = ACCEPT /\ codep' = 0
    /\ UNCHANGED <<enc, units, phase, history>>

Utf8Byte ==
    /\ Decoding /\ enc = "utf8"
    /\ state # ACCEPT \/ Inside
    /\ \E byte \in Readable(pos) \ {0} :
         LET st == DecodeStep(state, byte)
             cp == Accumulate(state, codep, byte)
         IN IF st = REJECT THEN RejectSequence
            ELSE /\ read' = pos
                 /\ pos' = pos + 1
                 /\ state' = st
                 /\ IF st = ACCEPT THEN text' = Append(text, cp) /\ codep' = 0
                                   ELSE codep' = cp /\ UNCHANGED text
                 /\ UNCHANGED <<enc, units, phase, history>>

CharLength(unit) == IF unit \div 1024 = 54 THEN 2 ELSE 1

Overrun == -2  \* not a length: the terminator was stepped over

(* A bug this code could have had: str goes on by one unit, whatever it is. *)
Utf16LengthInUnits(us) == Terminated(us)

(* UnicodeLength of UTF-16, which has only the terminator to stop at.       *)
Utf16Length(us) ==
    LET from[i \in 1 .. Len(us) + 2] ==
            IF i = Len(us) + 2 THEN Overrun
            ELSE IF i = Len(us) + 1 \/ us[i] = 0 THEN 0
            ELSE LET rest == from[i + CharLength(us[i])]
                 IN IF rest = Overrun THEN Overrun ELSE rest + 1
    IN from[1]

(* A bug this code could have had: the offset of the supplementary planes   *)
(* is left out.                                                             *)
PairWithoutOffset(high, low) ==
    ((high - 55296) % 65536) * 1024 + ((low - 56320) % 65536)

Pair(high, low) ==
    ((high - 55296) % 65536) * 1024 + ((low - 56320) % 65536) + 65536

Utf16Char ==
    /\ Decoding /\ enc = "utf16"
    /\ Inside
    /\ units[pos] # 0
    /\ \/ /\ CharLength(units[pos]) = 1
          /\ text' = Append(text, units[pos])
       \/ /\ CharLength(units[pos]) = 2
          /\ \E low \in Readable(pos + 1) : text' = Append(text, Pair(units[pos], low))
    /\ read' = pos + CharLength(units[pos]) - 1
    /\ pos' = pos + CharLength(units[pos])
    /\ UNCHANGED <<enc, units, state, codep, phase, history>>

(* Next has met a zero, perhaps in the middle of a sequence, and returns 0. *)
MeetZero ==
    /\ Decoding
    /\ state # ACCEPT \/ Inside
    /\ 0 \in Readable(pos)
    /\ read' = pos
    /\ TextEnds

EndSource ==
    /\ Decoding
    /\ state = ACCEPT /\ ~Inside
    /\ UNCHANGED read
    /\ TextEnds

-----------------------------------------------------------------------------
(* Encode, character by character.                                          *)

Utf8Of(cp) ==
    IF cp <= 127 THEN <<cp>>
    ELSE IF cp <= 2047 THEN <<192 + cp \div 64, 128 + (cp % 64)>>
    ELSE IF cp <= 65535 THEN <<224 + cp \div 4096, 128 + ((cp \div 64) % 64), 128 + (cp % 64)>>
    ELSE <<240 + cp \div 262144, 128 + ((cp \div 4096) % 64), 128 + ((cp \div 64) % 64), 128 + (cp % 64)>>

Utf16Of(cp) ==
    IF cp > 65535 THEN <<55232 + cp \div 1024, 56320 + (cp % 1024)>> ELSE <<cp>>

CharIn(cp, to) == IF to = "utf8" THEN Utf8Of(cp) ELSE Utf16Of(cp)

Encoded(chars, to) == FlattenSeq([i \in DOMAIN chars |-> CharIn(chars[i], to)])

EncodeText(to) ==
    /\ phase = "decoded"
    /\ enc' = to
    /\ units' = Encoded(text, to)
    /\ pos' = 1 /\ read' = 0 /\ state' = ACCEPT /\ codep' = 0
    /\ text' = <<>>
    /\ phase' = "again"
    /\ UNCHANGED history

Next ==
    \/ Utf8Byte \/ Utf16Char \/ MeetZero \/ EndSource
    \/ \E to \in {"utf8", "utf16"} : EncodeText(to)

Spec == Init /\ [][Next]_vars

-----------------------------------------------------------------------------
(* Numbers: parseInt<T> of a T of so many values.                           *)

Minus == 45
Plus == 43
Digits == 48 .. 57

(* A bug this code could have had: only a minus is a sign.                  *)
FirstDigitAfterMinus(t) == IF t[1] = Minus THEN 2 ELSE 1

FirstDigit(t) == IF t[1] \in {Minus, Plus} THEN 2 ELSE 1

(* _parseBigInt, whose result wraps around as a uint64_t does.              *)
ParseBigInt(t) ==
    LET result[i \in 0 .. Len(t)] ==
            IF i < FirstDigit(t) THEN 0
            ELSE (10 * result[i - 1] + (t[i] - 48)) % LongRange
    IN IF t = <<>> \/ \E i \in FirstDigit(t) .. Len(t) : t[i] \notin Digits THEN None
       ELSE IF t[1] = Minus THEN (LongRange - result[Len(t)]) % LongRange
       ELSE result[Len(t)]

Fits(range, signed) ==
    IF signed THEN -(range \div 2) .. (range \div 2) - 1 ELSE 0 .. range - 1

(* bit_cast to the long type of the same sign, and the limits of T.         *)
ParseInt(t, range, signed) ==
    LET n == ParseBigInt(t)
        parsed == IF signed /\ n >= LongRange \div 2 THEN n - LongRange ELSE n
    IN IF n = None \/ parsed \notin Fits(range, signed) THEN None ELSE parsed

-----------------------------------------------------------------------------

IsScalar(cp) == cp <= 1114111 /\ cp \notin 55296 .. 57343

(* How many units the character that begins with this one has.              *)
CharSize(unit, from) ==
    IF from = "utf16" THEN CharLength(unit)
    ELSE CASE unit \in 194 .. 223 -> 2
           [] unit \in 224 .. 239 -> 3
           [] unit \in 240 .. 244 -> 4
           [] OTHER               -> 1

Continuation == 128 .. 191

(* A source is read to its end, or to a zero inside of it, however          *)
(* malformed it is: no bad sequence costs the text behind it.  Nothing      *)
(* behind a terminator is read, not even after a high surrogate at the end  *)
(* or after the beginning of a sequence.  Behind a source without one the   *)
(* decoder does read, but only to complete a character whose first unit,    *)
(* and nothing but continuations of it, ends the source.                    *)
ReadsToTheEnd ==
    /\ ~Unterminated => read <= Len(units) + 1
    /\ Unterminated /\ read > Len(units) =>
         \E i \in DOMAIN units :
            /\ read <= i + CharSize(units[i], enc) - 1
            /\ \A k \in i + 1 .. Len(units) : units[k] \in Continuation
    /\ phase = "decoded" => pos > Len(units) \/ units[pos] = 0

(* From UTF-8, however malformed, only Unicode scalar values are decoded:  *)
(* no surrogates and nothing beyond U+10FFFF (DecodeStep's table).         *)
ScalarsOnly ==
    enc = "utf8" => \A i \in DOMAIN text : IsScalar(text[i])

(* Whatever a String holds survives being written and read in either       *)
(* encoding, if it is text at all: a malformed source in UTF-16 may give   *)
(* code points that are not.                                               *)
RoundTrip ==
    phase = "done" /\ (\A i \in DOMAIN sourceText : IsScalar(sourceText[i]))
        => text = sourceText

(* What Validate accepts is decoded without loss: written as UTF-8 again   *)
(* it is the source, up to a zero or to an unfinished sequence at its end. *)
(* Validate needs the terminator.                                          *)
ValidIsLossless ==
    /\ phase = "again" /\ enc = "utf8" /\ sourceEnc = "utf8" /\ ~sized
    /\ Validate(source)
    => /\ IsPrefix(units, source)
       /\ \/ Len(source) <= Len(units) + 3
          \/ \E i \in Len(units) + 1 .. Len(units) + 4 : source[i] = 0

(* "Return string's length in Unicode chars": UnicodeLength of UTF-16       *)
(* counts the characters that a String would decode, and runs over the      *)
(* terminator exactly where Next pairs a high surrogate with it.  That of   *)
(* UTF-8 counts them only in a text that ends inside of a sequence; of      *)
(* every text that is all there it returns -1.  Neither can do without a    *)
(* terminator.                                                              *)
CountsChars ==
    phase = "decoded" /\ ~sized =>
        /\ sourceEnc = "utf16" =>
              Utf16Length(source) = IF read > Len(source) THEN Overrun ELSE Len(sourceText)
        /\ sourceEnc = "utf8" /\ Validate(source) =>
              Utf8Length(source) = IF state = ACCEPT THEN -1 ELSE Len(sourceText)

(* The number that a sign and digits denote, digit by digit at its place;   *)
(* none at all denote 0.                                                    *)
Denoted(t) ==
    LET from == IF t[1] \in {Minus, Plus} THEN 2 ELSE 1
        weight[k \in 0 .. Len(t)] == IF k = 0 THEN 1 ELSE 10 * weight[k - 1]
        sum[i \in 0 .. Len(t)] ==
            IF i < from THEN 0 ELSE sum[i - 1] + (t[i] - 48) * weight[Len(t) - i]
    IN (IF t[1] = Minus THEN -1 ELSE 1) * sum[Len(t)]

IsNumeral(t) ==
    t # <<>> /\ (t[1] \in {Minus, Plus} \cup Digits) /\ \A i \in 2 .. Len(t) : t[i] \in Digits

(* parseInt returns the number of a text if it fits into the type, and      *)
(* never one for a text with anything else in it.  One that does not fit is *)
(* refused unless it is also beyond 64 bits: then, and if it is negative or *)
(* beyond the sign for a T of 64 bits, a number that is equal modulo 2^64   *)
(* may be taken for it.                                                     *)
ParsesWhatFits ==
    phase = "decoded" =>
        \A range \in {IntRange, LongRange}, signed \in BOOLEAN :
            LET n == ParseInt(text, range, signed)
                WrapsBelow == IF signed THEN -(LongRange \div 2) ELSE range - LongRange
                WrapsFrom == IF signed THEN LongRange \div 2 ELSE LongRange
            IN IF ~IsNumeral(text) THEN n = None
               ELSE /\ Denoted(text) \in Fits(range, signed) => n = Denoted(text)
                    /\ n # None => n \in Fits(range, signed) /\ (n - Denoted(text)) % LongRange = 0
                    /\ n # None /\ n # Denoted(text) =>
                         Denoted(text) >= WrapsFrom \/ Denoted(text) < WrapsBelow

=============================================================================
