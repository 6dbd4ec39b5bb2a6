---------------------------- MODULE MCAddresses ----------------------------
(***************************************************************************)
(* Every pattern of up to five IPv4 parts with and without a port, and of  *)
(* up to nine IPv6 groups, each empty or a word of its own, so that words  *)
(* that change places are seen; some in brackets.  The printed addresses   *)
(* have zeros in every pattern.                                            *)
(***************************************************************************)
EXTENDS Addresses, SequencesExt

Parts == {<<>>, <<0>>, <<9>>, <<300>>}
V4Texts == {FlattenSeq([i \in 1..n |-> IF i = 1 THEN p[1] ELSE <<Dot>> \o p[i]]) :
              n \in 1..5, p \in [1..5 -> Parts]}
             \cup {<<1, Dot, 2, Dot, 3, Dot, 4>>, <<1, Dot, 2, Dot, 3, Dot, 4, Bad>>}

Group(word, i) == IF word THEN <<4660 + 257 * i>> ELSE <<>>
V6Texts ==
  UNION {{FlattenSeq([i \in 1..n |-> IF i = 1 THEN Group(p[1], 1) ELSE <<Colon>> \o Group(p[i], i)]) :
            p \in [1..n -> BOOLEAN]} : n \in 2..9}

Short == {t \in UNION {[1..n -> {Colon, 7, Dot, Bad, 65536}] : n \in 0..3} :
            \A i \in 1 .. Len(t) - 1 : t[i] \in Marks \/ t[i + 1] \in Marks}
Bracketed == {<<LeftBracket>> \o t : t \in {<<>>, <<Colon, Colon, 1>>, <<1, RightBracket>>,
               <<Colon, Colon, 1, RightBracket>>, <<Colon, Colon, 1, RightBracket, Colon, 80>>,
               <<Colon, Colon, 1, RightBracket, 80>>, <<Colon, Colon, RightBracket, Colon>>}}

Ports == {<<>>, <<0>>, <<80>>, <<65535>>, <<65616>>, <<2000000>>, <<80, Bad>>, <<Bad>>, <<80, Colon>>}
WithPort == {<<1, Dot, 2, Dot, 3, Dot, 4, Colon>> \o p : p \in Ports}
              \cup {<<70000, Dot, 2, Dot, 3, Dot, 4>>, <<2000000, Dot, 2, Dot, 3, Dot, 4>>}

MCTexts == V4Texts \cup V6Texts \cup Short \cup Bracketed \cup WithPort

MCAddrs ==
  {[version |-> 4, addr |-> a] : a \in [1..4 -> {0, 1, 255}]}
    \cup {Address(w) : w \in {[i \in 1..8 |-> IF i \in z THEN 0 ELSE 4660 + 257 * i] : z \in SUBSET (1..8)}}
=============================================================================
