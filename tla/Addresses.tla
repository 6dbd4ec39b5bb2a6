------------------------------ MODULE Addresses ------------------------------
(***************************************************************************)
(* IP addresses and socket addresses as text: IP::Parse and ToString, and  *)
(* SocketAddress::Parse and ToSystem.  A text is read as it is, or is the  *)
(* printed form of an address.                                             *)
(*                                                                         *)
(* A text is a sequence of numbers and of the characters between them: a   *)
(* run of digits is the number its reader makes of it, decimal or hex.     *)
(* Bad is a character that belongs nowhere, a sign or a blank excepted.    *)
(***************************************************************************)
EXTENDS Integers, Sequences, FiniteSets, FiniteSetsExt

CONSTANTS
  Dot, Colon, LeftBracket, RightBracket, Bad,  \* the characters other than digits
  None,       \* std::nullopt, or nothing yet
  Texts,      \* the texts that are read
  Addrs,      \* the addresses that are printed
  LongRange   \* 2^32, scaled: what stoul throws at

Marks == {Dot, Colon, LeftBracket, RightBracket, Bad}
IsNumber(c) == c \notin Marks
Bytes == 0..255
Shorts == 0..65535
IPs == [version : {4}, addr : [1..4 -> Bytes]] \cup [version : {6}, addr : [1..16 -> Bytes]]

ASSUME AddressesAssumption ==
  /\ LongRange \in Nat /\ Shorts \subseteq 0 .. LongRange - 1
  /\ Marks \cap Int = {}
  /\ Dot # Colon /\ LeftBracket \notin {Dot, Colon} /\ {RightBracket, Bad} \cap {Dot, Colon, LeftBracket} = {}
  /\ None \notin IPs \cup Shorts \cup [ip : IPs, port : Shorts]
  /\ Addrs \subseteq IPs
  /\ Texts \subseteq Seq(Nat \cup Marks)
  /\ \A t \in Texts : \A i \in 1 .. Len(t) - 1 : t[i] \in Marks \/ t[i + 1] \in Marks

VARIABLES
  phase,   \* what is done next: "print", "parse", "socket", "system" or "done"
  text,
  given,   \* the address that was printed, if one was
  ip,      \* what IP::Parse made of the text
  socket,  \* what SocketAddress::Parse made of it
  system   \* what ToSystem made of that, byte by byte as it lies in memory

addressVars == <<phase, text, given, ip, socket, system>>

Word(n) == <<n \div 256, n % 256>>
WordOf(a, i) == 256 * a[2 * i - 1] + a[2 * i]
Indices(t, c) == {i \in DOMAIN t : t[i] = c}

AddressInit ==
  /\ \/ phase = "parse" /\ text \in Texts /\ given = None
     \/ phase = "print" /\ text = <<>> /\ given \in Addrs
  /\ ip = None /\ socket = None /\ system = None

-----------------------------------------------------------------------------
(* Parsing an address                                                      *)

\* A number wraps around as a uint8_t does.  Only a dot stores the number
\* before it: the last one is never stored.
ReadV4(s, c) ==
  IF c = Dot
    THEN [addr |-> <<s.addr[2], s.addr[3], s.addr[4], s.part>>, part |-> 0,
          dots |-> s.dots + 1, good |-> s.good /\ s.dots < 3]
    ELSE [addr |-> s.addr, part |-> IF IsNumber(c) THEN c % 256 ELSE 0,
          dots |-> s.dots, good |-> s.good /\ IsNumber(c)]

ParseV4(t) ==
  LET read[i \in 0 .. Len(t)] ==
        IF i = 0 THEN [addr |-> <<0, 0, 0, 0>>, part |-> 0, dots |-> 0, good |-> TRUE]
        ELSE ReadV4(read[i - 1], t[i])
      end == read[Len(t)]
  IN  IF end.good /\ end.dots = 3 THEN [version |-> 4, addr |-> end.addr] ELSE None

\* The loop over the text.  A second colon makes the first one a "::"; a word
\* of more than four digits, a second "::" and whatever follows sixteen bytes
\* is refused.
ReadV6(s, c) ==
  IF c = Colon /\ s.colon
    THEN [addr |-> s.addr, compress |-> Len(s.addr), colon |-> FALSE,
          good |-> s.good /\ s.compress = -1]
  ELSE IF c = Colon
    THEN [addr |-> s.addr, compress |-> s.compress, colon |-> TRUE,
          good |-> s.good /\ Len(s.addr) < 16]
  ELSE IF c \in Shorts
    THEN [addr |-> s.addr \o Word(c), compress |-> s.compress, colon |-> FALSE,
          good |-> s.good /\ Len(s.addr) < 16]
  ELSE [addr |-> s.addr, compress |-> s.compress, colon |-> FALSE, good |-> FALSE]

\* What follows the "::" is copied to the end byte by byte, in place and
\* upwards,
Copied(read, compress) ==
  LET tail == Len(read) - compress
      moved[j \in 0 .. tail] ==
        IF j = 0 THEN [k \in 1..16 |-> IF k <= Len(read) THEN read[k] ELSE 0]
        ELSE [moved[j - 1] EXCEPT ![16 - tail + j] = moved[j - 1][compress + j]]
  IN  moved[tail]

\* Mutant: what lies before the copy stays
DecompressUncleared(read, compress) == Copied(read, compress)

\* and what lies before the copy is cleared.
Decompress(read, compress) ==
  LET copied == Copied(read, compress)
  IN  [k \in 1..16 |-> IF compress < k /\ k <= 16 - (Len(read) - compress) THEN 0 ELSE copied[k]]

ParseV6(t) ==
  LET read[i \in 0 .. Len(t)] ==
        IF i = 0 THEN [addr |-> <<>>, compress |-> -1, colon |-> FALSE, good |-> TRUE]
        ELSE ReadV6(read[i - 1], t[i])
      end == read[Len(t)]
  IN  IF ~end.good THEN None
      ELSE IF end.compress # -1
        THEN [version |-> 6, addr |-> Decompress(end.addr, end.compress)]
      ELSE IF Len(end.addr) = 16 THEN [version |-> 6, addr |-> end.addr] ELSE None

\* IP::Parse
ParseIP(t) == IF Indices(t, Colon) # {} THEN ParseV6(t) ELSE ParseV4(t)

-----------------------------------------------------------------------------
(* Printing an address                                                     *)

PrintV4(a) == <<a[1], Dot, a[2], Dot, a[3], Dot, a[4]>>

\* The first of the longest runs of two zero words or more, or <<9, 0>>.
ZeroRun(a) ==
  LET Runs == {r \in (1..8) \X (2..8) :
                 r[1] + r[2] <= 9 /\ \A j \in r[1] .. r[1] + r[2] - 1 : WordOf(a, j) = 0}
      Longest == {r \in Runs : \A s \in Runs : s[2] <= r[2]}
  IN  IF Runs = {} THEN <<9, 0>> ELSE CHOOSE r \in Longest : \A s \in Longest : r[1] <= s[1]

\* Mutant: one word more is skipped
PrintWordSkipping(run, a, t, i) ==
  IF i = run[1] THEN t \o <<Colon, Colon>>
  ELSE IF run[1] < i /\ i <= run[1] + run[2] THEN t
  ELSE (IF t # <<>> /\ t[Len(t)] # Colon THEN t \o <<Colon>> ELSE t) \o <<WordOf(a, i)>>

PrintWord(run, a, t, i) ==
  IF i = run[1] THEN t \o <<Colon, Colon>>
  ELSE IF run[1] < i /\ i < run[1] + run[2] THEN t
  ELSE (IF t # <<>> /\ t[Len(t)] # Colon THEN t \o <<Colon>> ELSE t) \o <<WordOf(a, i)>>

PrintV6(a) ==
  LET printed[i \in 0..8] == IF i = 0 THEN <<>> ELSE PrintWord(ZeroRun(a), a, printed[i - 1], i)
  IN  printed[8]

\* IP::ToString
PrintIP ==
  /\ phase = "print"
  /\ text' = IF given.version = 4 THEN PrintV4(given.addr) ELSE PrintV6(given.addr)
  /\ phase' = "parse"
  /\ UNCHANGED <<given, ip, socket, system>>

Parse ==
  /\ phase = "parse"
  /\ ip' = ParseIP(text)
  /\ phase' = "socket"
  /\ UNCHANGED <<text, given, socket, system>>

-----------------------------------------------------------------------------
(* Socket addresses                                                        *)

\* std::stoul: the number at the beginning.  What it returns is cut to the 16
\* bits of the port before it is compared with 0xFFFF.
Port(t) ==
  IF t = <<>> \/ ~IsNumber(t[1]) \/ t[1] >= LongRange THEN None ELSE t[1] % 65536

Whole(address, port) ==
  IF address = None \/ port = None THEN None ELSE [ip |-> address, port |-> port]

\* The brackets are a part of the text that IPv6::Parse is given.
ParseBracketed(t) ==
  LET closed == Indices(t, RightBracket)
      ipEnd == IF closed = {} THEN 0 ELSE Max(closed)
  IN  IF ipEnd = Len(t) THEN Whole(ParseV6(t), 0)
      ELSE IF t[ipEnd + 1] # Colon THEN None
      ELSE Whole(ParseV6(SubSeq(t, 1, ipEnd)), Port(SubSeq(t, ipEnd + 2, Len(t))))

\* find_first_of(':') + 1
FirstColon(t) == IF Indices(t, Colon) = {} THEN 0 ELSE Min(Indices(t, Colon))

\* Mutant: the colon taken for a part of the port
ParsePlainFromColon(t) ==
  LET colon == FirstColon(t)
  IN  Whole(ParseV4(IF colon = 0 THEN t ELSE SubSeq(t, 1, colon - 1)),
            Port(SubSeq(t, IF colon = 0 THEN 1 ELSE colon, Len(t))))

\* Without a colon, that is 0: the port is read from the whole.
ParsePlain(t) ==
  LET colon == FirstColon(t)
  IN  Whole(ParseV4(IF colon = 0 THEN t ELSE SubSeq(t, 1, colon - 1)),
            Port(SubSeq(t, colon + 1, Len(t))))

\* addr[0] of a string_view, which of an empty one may be anything.
FirstOf(t) == IF t = <<>> THEN {LeftBracket, Bad} ELSE {t[1]}

ParseSocket ==
  /\ phase = "socket"
  /\ \E first \in FirstOf(text) :
       socket' = IF first = LeftBracket THEN ParseBracketed(text) ELSE ParsePlain(text)
  /\ phase' = IF socket' = None THEN "done" ELSE "system"
  /\ UNCHANGED <<text, given, ip, system>>

\* ToSystem: sin_family, the port and the address in network order.
ToSystem ==
  /\ phase = "system"
  /\ system' = [family |-> socket.ip.version, bytes |-> Word(socket.port) \o socket.ip.addr]
  /\ phase' = "done"
  /\ UNCHANGED <<text, given, ip, socket>>

AddressNext == PrintIP \/ Parse \/ ParseSocket \/ ToSystem

AddressSpec == AddressInit /\ [][AddressNext]_addressVars
-----------------------------------------------------------------------------
(* What a text means                                                       *)

MeaningV4(t) ==
  IF Len(t) = 7 /\ \A i \in 1..7 : IF i % 2 = 1 THEN t[i] \in Bytes ELSE t[i] = Dot
    THEN [version |-> 4, addr |-> [i \in 1..4 |-> t[2 * i - 1]]] ELSE None

\* Words with a colon between each two.
AreWords(t) ==
  t = <<>> \/ /\ Len(t) % 2 = 1
              /\ \A i \in 1 .. Len(t) : IF i % 2 = 1 THEN t[i] \in Shorts ELSE t[i] = Colon
WordsIn(t) == [i \in 1 .. (Len(t) + 1) \div 2 |-> t[2 * i - 1]]

Zeros(n) == [i \in 1..n |-> 0]
Address(words) ==
  [version |-> 6, addr |-> [k \in 1..16 |-> Word(words[(k + 1) \div 2])[2 - (k % 2)]]]

\* Where a "::" may be, and what is on either side of the first.
Doubles(t) == {i \in 1 .. Len(t) - 1 : t[i] = Colon /\ t[i + 1] = Colon}
Before(t) == SubSeq(t, 1, Min(Doubles(t)) - 1)
After(t) == SubSeq(t, Min(Doubles(t)) + 2, Len(t))
Gap(t) == 8 - Len(WordsIn(Before(t))) - Len(WordsIn(After(t)))

MeaningV6(t) ==
  IF Doubles(t) = {}
    THEN IF AreWords(t) /\ Len(t) = 15 THEN Address(WordsIn(t)) ELSE None
  ELSE IF AreWords(Before(t)) /\ AreWords(After(t)) /\ Gap(t) > 0
    THEN Address(WordsIn(Before(t)) \o Zeros(Gap(t)) \o WordsIn(After(t))) ELSE None

Meaning(t) == IF Indices(t, Colon) # {} THEN MeaningV6(t) ELSE MeaningV4(t)

\* What is printed denotes the address it was printed from, whatever run of
\* zeros is left out (IPv4::ToString and IPv6::ToString).
PrintsItsMeaning == given # None /\ phase # "print" => Meaning(text) = given

\* Every text that denotes an address is read, and what is read is that
\* address, but for two losses.  An IPv4 address has lost its last part, and
\* the others have moved down.  Of an IPv6 address what follows "::" repeats
\* its own beginning, if it is longer than the gap that "::" stands for: the
\* copy has run into itself.
\*
\* A text that denotes no address is refused, unless it is one but for empty
\* or too large IPv4 parts, or for colons, at most one "::" and no word too
\* many.
ReadsItsMeaning ==
  phase \in {"socket", "system", "done"} =>
    IF Meaning(text) # None
    THEN LET meant == Meaning(text)
             after == WordsIn(After(text))
             repeated == [i \in 1 .. Len(after) |-> after[((i - 1) % Gap(text)) + 1]]
         IN  ip = IF meant.version = 4
                    THEN [version |-> 4, addr |-> <<0, meant.addr[1], meant.addr[2], meant.addr[3]>>]
                  ELSE IF Doubles(text) = {} THEN meant
                  ELSE Address(WordsIn(Before(text)) \o Zeros(Gap(text)) \o repeated)
    ELSE ip # None =>
      IF ip.version = 4
      THEN /\ \A i \in DOMAIN text : IsNumber(text[i]) \/ text[i] = Dot
           /\ Cardinality(Indices(text, Dot)) = 3
      ELSE /\ \A i \in DOMAIN text : text[i] = Colon \/ text[i] \in Shorts
           /\ Cardinality(DOMAIN text \ Indices(text, Colon)) <= 8
           /\ \A i, j \in Doubles(text) : i - j \in -1..1

\* "Port will be set to 0 if not specified": a given port is taken as it is,
\* cut to sixteen bits; without one, the port is the first part of the
\* address.  An address in brackets is never read.
PortAsGiven ==
  /\ socket # None =>
       /\ text[1] # LeftBracket
       /\ socket.port = text[FirstColon(text) + 1] % 65536
  /\ phase \in {"system", "done"} =>
       \A colon \in Indices(text, Colon) :
         /\ colon + 1 = Len(text)
         /\ MeaningV4(SubSeq(text, 1, colon - 1)) # None
         /\ text[Len(text)] \in Shorts
         => socket # None
=============================================================================
