------------------------ MODULE MinerIdentityProofs -------------------------
(***************************************************************************)
(* The two readings of a miner's identity, for texts of any length.        *)
(*                                                                         *)
(* Both cut a text at its first separator, so the first part of a text is  *)
(* one given token just when the text is that token, or has a separator    *)
(* right after it (CutAfterOne).  From that follows, token by token, what  *)
(* each of them accepts.  Trimming a text that begins with ink takes       *)
(* nothing from its front, and nothing before any ink (TrimKeepsInk).      *)
(***************************************************************************)
EXTENDS MinerIdentity, SequenceTheorems, WellFoundedInduction, TLAPS

Text == Seq(Token)

-----------------------------------------------------------------------------
(* Numbers and sequences.                                                  *)

\* Every nonempty set of numbers has a least one.
LEMMA LeastNumber ==
  ASSUME NEW S \in SUBSET Nat, S # {}
  PROVE  \E x \in S : \A y \in S : x <= y
<1>1. PICK R : R = OpToRel(<, Nat)
  OBVIOUS
<1>2. IsWellFoundedOn(R, Nat)
  BY <1>1, NatLessThanWellFounded
<1>3. PICK x \in S : \A y \in S : <<y, x>> \notin R
  BY <1>2, WFMin
<1>4. \A y \in S : ~(y < x)
  BY <1>1, <1>3 DEF OpToRel
<1> QED
  BY <1>3, <1>4

\* Every nonempty set of indices has a greatest one.
LEMMA GreatestIndex ==
  ASSUME NEW n \in Nat, NEW S \in SUBSET (1..n), S # {}
  PROVE  \E x \in S : \A y \in S : y <= x
<1> DEFINE D == {n - y : y \in S}
<1>1. D \in SUBSET Nat /\ D # {}
  <2>1. \A y \in S : n - y \in Nat
    <3>1. \A y \in S : y \in 1..n
      OBVIOUS
    <3> QED
      BY <3>1
  <2> QED
    BY <2>1
<1>2. PICK d \in D : \A y \in D : d <= y
  BY <1>1, LeastNumber
<1>3. PICK x \in S : d = n - x
  BY <1>2
<1>4. ASSUME NEW y \in S PROVE y <= x
  <2>1. n - x <= n - y
    BY <1>2, <1>3
  <2> QED
    BY <2>1
<1> QED
  BY <1>4

\* A text of one token.
LEMMA OneToken ==
  ASSUME NEW w \in Token
  PROVE  /\ <<w>> \in Text
         /\ \A t \in Text : t = <<w>> <=> Len(t) = 1 /\ t[1] = w
<1>1. <<w>> \in Text /\ Len(<<w>>) = 1 /\ <<w>>[1] = w
  BY DEF Text
<1>2. ASSUME NEW t \in Text, Len(t) = 1, t[1] = w PROVE t = <<w>>
  <2>1. PICK u \in Text : u = <<w>> /\ Len(u) = 1 /\ u[1] = w
    BY <1>1
  <2>2. \A i \in 1..Len(t) : t[i] = u[i]
    BY <1>2, <2>1
  <2> QED
    BY <1>2, <2>1, <2>2, SeqEqual DEF Text
<1> QED
  BY <1>1, <1>2

\* The empty text.
LEMMA NoToken ==
  /\ <<>> \in Text /\ Len(<<>>) = 0
  /\ \A t \in Text : t # <<>> => Len(t) \in Nat \ {0}
  BY EmptySeq DEF Text

\* A part of a text.
LEMMA Part ==
  ASSUME NEW t \in Text, NEW m \in Nat \ {0}, NEW n \in Nat, n <= Len(t)
  PROVE  /\ SubSeq(t, m, n) \in Text
         /\ Len(SubSeq(t, m, n)) = IF m <= n THEN n - m + 1 ELSE 0
         /\ \A i \in 1..n - m + 1 : SubSeq(t, m, n)[i] = t[m + i - 1]
<1>1. \A i \in m..n : t[i] \in Token
  BY DEF Text
<1> QED
  BY <1>1, SubSeqProperties DEF Text

-----------------------------------------------------------------------------
(* The first separator, and what is before and after it.                   *)

\* FirstOf is the first separator, if there is one.
LEMMA FirstOfIs ==
  ASSUME NEW t \in Text, NEW c, Has(t, c)
  PROVE  /\ FirstOf(t, c) \in 1..Len(t) /\ t[FirstOf(t, c)] = c
         /\ \A j \in 1..FirstOf(t, c) - 1 : t[j] # c
<1> DEFINE S == {i \in 1..Len(t) : t[i] = c}
<1>1. S \in SUBSET Nat /\ S # {}
  BY DEF Has
<1>2. PICK i \in S : \A j \in S : i <= j
  BY <1>1, LeastNumber
<1>3. \A j \in 1..i - 1 : t[j] # c
  <2> SUFFICES ASSUME NEW j \in 1..i - 1 PROVE t[j] # c
    OBVIOUS
  <2>1. Len(t) \in Nat
    BY LenProperties DEF Text
  <2>2. j \in 1..Len(t) /\ ~(i <= j)
    BY <1>2, <2>1
  <2> QED
    BY <1>2, <2>2
<1>4. \E k \in 1..Len(t) : t[k] = c /\ \A j \in 1..k - 1 : t[j] # c
  BY <1>2, <1>3
<1> QED
  BY <1>4 DEF FirstOf

\* One token before the first separator, and the rest behind it.
Cut(t, w, c) == Len(t) >= 2 /\ t[1] = w /\ t[2] = c

\* What is before the first separator is the token w just in two cases.
LEMMA CutAfterOne ==
  ASSUME NEW t \in Text, NEW w \in Token, NEW c \in Token, w # c
  PROVE  /\ Before(t, c) = <<w>> <=> t = <<w>> \/ Cut(t, w, c)
         /\ t = <<w>> => Behind(t, c) = <<>>
         /\ Cut(t, w, c) => Behind(t, c) = SubSeq(t, 3, Len(t))
<1>1. Len(t) \in Nat
  BY LenProperties DEF Text
<1>2. ASSUME t = <<w>>
      PROVE  ~Has(t, c) /\ Before(t, c) = <<w>> /\ Behind(t, c) = <<>>
  <2>1. Len(t) = 1 /\ t[1] = w
    BY <1>2, OneToken
  <2>2. ~Has(t, c)
    BY <2>1 DEF Has
  <2> QED
    BY <1>2, <2>2 DEF Before, Behind
<1>3. ASSUME Has(t, c), NEW k, k = FirstOf(t, c)
      PROVE  /\ k \in 1..Len(t) /\ t[k] = c /\ \A j \in 1..k - 1 : t[j] # c
             /\ Before(t, c) = SubSeq(t, 1, k - 1) /\ Behind(t, c) = SubSeq(t, k + 1, Len(t))
  BY <1>3, FirstOfIs DEF Before, Behind
<1>4. ASSUME Cut(t, w, c)
      PROVE  Before(t, c) = <<w>> /\ Behind(t, c) = SubSeq(t, 3, Len(t))
  <2>1. Has(t, c)
    BY <1>1, <1>4 DEF Cut, Has
  <2>2. PICK k : k = FirstOf(t, c)
    OBVIOUS
  <2>3. k = 2
    <3>1. k \in 1..Len(t) /\ t[k] = c /\ \A j \in 1..k - 1 : t[j] # c
      BY <1>3, <2>1, <2>2
    <3>2. k # 1
      BY <1>4, <3>1 DEF Cut
    <3>3. ~(2 \in 1..k - 1)
      BY <1>4, <3>1 DEF Cut
    <3> QED
      BY <1>1, <3>1, <3>2, <3>3
  <2>4. Before(t, c) = SubSeq(t, 1, 1) /\ Behind(t, c) = SubSeq(t, 3, Len(t))
    <3>1. Before(t, c) = SubSeq(t, 1, k - 1) /\ Behind(t, c) = SubSeq(t, k + 1, Len(t))
      BY <1>3, <2>1, <2>2
    <3>2. k - 1 = 1 /\ k + 1 = 3
      BY <2>3
    <3> QED
      BY <3>1, <3>2
  <2>5. SubSeq(t, 1, 1) \in Text /\ Len(SubSeq(t, 1, 1)) = 1 /\ SubSeq(t, 1, 1)[1] = w
    <3>1. 1 \in Nat \ {0} /\ 1 \in Nat /\ 1 <= Len(t)
      BY <1>1, <1>4 DEF Cut
    <3>2. /\ SubSeq(t, 1, 1) \in Text /\ Len(SubSeq(t, 1, 1)) = 1
          /\ \A i \in 1..1 - 1 + 1 : SubSeq(t, 1, 1)[i] = t[1 + i - 1]
      BY <3>1, Part
    <3>3. SubSeq(t, 1, 1)[1] = t[1]
      BY <3>2
    <3> QED
      BY <1>4, <3>2, <3>3 DEF Cut
  <2> QED
    BY <2>4, <2>5, OneToken
<1>5. ASSUME Before(t, c) = <<w>> PROVE t = <<w>> \/ Cut(t, w, c)
  <2>1. CASE ~Has(t, c)
    BY <1>5, <2>1 DEF Before
  <2>2. CASE Has(t, c)
    <3>1. PICK k : k = FirstOf(t, c)
      OBVIOUS
    <3>2. k \in 1..Len(t) /\ t[k] = c /\ Before(t, c) = SubSeq(t, 1, k - 1)
      BY <1>3, <2>2, <3>1
    <3>3. /\ Len(SubSeq(t, 1, k - 1)) = IF 1 <= k - 1 THEN (k - 1) - 1 + 1 ELSE 0
          /\ \A i \in 1..(k - 1) - 1 + 1 : SubSeq(t, 1, k - 1)[i] = t[1 + i - 1]
      <4>1. 1 \in Nat \ {0} /\ k - 1 \in Nat /\ k - 1 <= Len(t)
        BY <1>1, <3>2
      <4> QED
        BY <4>1, Part
    <3>4. SubSeq(t, 1, k - 1) \in Text /\ Len(SubSeq(t, 1, k - 1)) = 1 /\ SubSeq(t, 1, k - 1)[1] = w
      <4>1. PICK u : u = SubSeq(t, 1, k - 1)
        OBVIOUS
      <4>2. u = <<w>> /\ u \in Text
        <5>1. u = <<w>>
          BY <1>5, <3>2, <4>1
        <5>2. <<w>> \in Text
          BY OneToken
        <5> QED
          BY <5>1, <5>2
      <4>3. Len(u) = 1 /\ u[1] = w
        BY <4>2, OneToken
      <4> QED
        BY <4>1, <4>2, <4>3
    <3>5. k = 2
      BY <3>2, <3>3, <3>4
    <3>6. t[1] = w
      BY <3>3, <3>4, <3>5
    <3> QED
      BY <3>2, <3>5, <3>6 DEF Cut
  <2> QED
    BY <2>1, <2>2
<1> QED
  BY <1>2, <1>4, <1>5

-----------------------------------------------------------------------------
(* The forms of the documentation, token by token.                         *)

\* A prefix is compared token by token.
LEMMA StartsWithTokens ==
  ASSUME NEW t \in Text, NEW p \in Text
  PROVE  StartsWith(t, p) <=> Len(p) <= Len(t) /\ \A i \in 1..Len(p) : t[i] = p[i]
<1>1. Len(t) \in Nat /\ Len(p) \in Nat
  BY LenProperties DEF Text
<1> SUFFICES ASSUME Len(p) <= Len(t)
             PROVE  SubSeq(t, 1, Len(p)) = p <=> \A i \in 1..Len(p) : t[i] = p[i]
  BY DEF StartsWith
<1>2. PICK u : u = SubSeq(t, 1, Len(p))
  OBVIOUS
<1>3. /\ u \in Text /\ Len(u) = IF 1 <= Len(p) THEN Len(p) - 1 + 1 ELSE 0
      /\ \A i \in 1..Len(p) - 1 + 1 : u[i] = t[1 + i - 1]
  <2>1. 1 \in Nat \ {0}
    OBVIOUS
  <2> QED
    BY <1>1, <1>2, <2>1, Part
<1>4. Len(u) = Len(p) /\ \A i \in 1..Len(p) : u[i] = t[i]
  <2>1. Len(u) = Len(p)
    BY <1>1, <1>3
  <2>2. ASSUME NEW i \in 1..Len(p) PROVE u[i] = t[i]
    <3>1. i \in 1..Len(p) - 1 + 1 /\ 1 + i - 1 = i
      BY <1>1
    <3> QED
      BY <1>3, <3>1
  <2> QED
    BY <2>1, <2>2
<1>5. u = p <=> \A i \in 1..Len(p) : u[i] = p[i]
  BY <1>3, <1>4, SeqEqual DEF Text
<1> QED
  BY <1>2, <1>4, <1>5

\* What is left of a text without its beginning.
LEMMA Rest ==
  ASSUME NEW t \in Text, NEW m \in Nat \ {0}, NEW k \in Nat, m = k + 1, k <= Len(t)
  PROVE  /\ SubSeq(t, m, Len(t)) \in Text /\ Len(SubSeq(t, m, Len(t))) = Len(t) - k
         /\ \A i \in 1..Len(t) - k : SubSeq(t, m, Len(t))[i] = t[k + i]
<1>1. Len(t) \in Nat
  BY LenProperties DEF Text
<1>2. /\ SubSeq(t, m, Len(t)) \in Text
      /\ Len(SubSeq(t, m, Len(t))) = IF m <= Len(t) THEN Len(t) - m + 1 ELSE 0
      /\ \A i \in 1..Len(t) - m + 1 : SubSeq(t, m, Len(t))[i] = t[m + i - 1]
  BY <1>1, Part
<1>3. Len(SubSeq(t, m, Len(t))) = Len(t) - k
  BY <1>1, <1>2
<1>4. ASSUME NEW i \in 1..Len(t) - k PROVE SubSeq(t, m, Len(t))[i] = t[k + i]
  <2>1. i \in 1..Len(t) - m + 1 /\ m + i - 1 = k + i
    BY <1>1
  <2> QED
    BY <1>2, <2>1
<1> QED
  BY <1>2, <1>3, <1>4

\* A text that begins with Prefix, and one of the third form.
SoloBegin(t) == Len(t) >= 4 /\ t[1] = "sri" /\ t[2] = "/" /\ t[3] = "solo" /\ t[4] = "/"
SoloShape(t) ==
  SoloBegin(t) /\ Len(t) >= 5 /\ t[5] = "address" /\ (Len(t) = 5 \/ t[6] = "/")

\* The beginning of the third form, and with more tokens behind it.
LEMMA PrefixTokens ==
  /\ Prefix \in Text /\ Len(Prefix) = 4
  /\ Prefix[1] = "sri" /\ Prefix[2] = "/" /\ Prefix[3] = "solo" /\ Prefix[4] = "/"
  BY DEF Prefix, Text, Token

LEMMA PrefixAnd ==
  ASSUME NEW more \in Text
  PROVE  /\ Prefix \o more \in Text /\ Len(Prefix \o more) = 4 + Len(more)
         /\ \A i \in 1..4 : (Prefix \o more)[i] = Prefix[i]
         /\ \A i \in 1..Len(more) : (Prefix \o more)[4 + i] = more[i]
<1>1. Len(more) \in Nat
  BY LenProperties DEF Text
<1>2. PICK p : p = Prefix
  OBVIOUS
<1>3. p \in Text /\ Len(p) = 4
  BY <1>2, PrefixTokens
<1>4. /\ p \o more \in Text /\ Len(p \o more) = Len(p) + Len(more)
      /\ \A i \in 1..Len(p) + Len(more) :
           (p \o more)[i] = IF i <= Len(p) THEN p[i] ELSE more[i - Len(p)]
  BY <1>3, ConcatProperties DEF Text
<1>5. \A i \in 1..4 : (p \o more)[i] = p[i]
  BY <1>1, <1>3, <1>4
<1>6. ASSUME NEW i \in 1..Len(more) PROVE (p \o more)[4 + i] = more[i]
  <2>1. 4 + i \in 1..Len(p) + Len(more) /\ ~(4 + i <= Len(p)) /\ (4 + i) - Len(p) = i
    BY <1>1, <1>3
  <2> QED
    BY <1>4, <2>1
<1> QED
  BY <1>2, <1>3, <1>4, <1>5, <1>6

\* The documented forms as conditions on single tokens.
LEMMA Forms ==
  ASSUME NEW t \in Text
  PROVE  /\ StartsWith(t, Prefix) <=> SoloBegin(t)
         /\ StartsWith(t, <<"address", ".">>) <=> Cut(t, "address", ".")
         /\ StartsWith(t, <<"sri", "/">>) <=> Cut(t, "sri", "/")
         /\ StartsWith(t, Prefix \o <<"address", "/">>) \/ t = Prefix \o <<"address">>
              <=> SoloShape(t)
<1>1. Len(t) \in Nat
  BY LenProperties DEF Text
<1>2. StartsWith(t, Prefix) <=> SoloBegin(t)
  <2>1. \A i \in 1..4 : i = 1 \/ i = 2 \/ i = 3 \/ i = 4
    OBVIOUS
  <2>2. StartsWith(t, Prefix) <=> 4 <= Len(t) /\ \A i \in 1..4 : t[i] = Prefix[i]
    BY PrefixTokens, StartsWithTokens
  <2>3. (\A i \in 1..4 : t[i] = Prefix[i]) <=>
          t[1] = "sri" /\ t[2] = "/" /\ t[3] = "solo" /\ t[4] = "/"
    BY <2>1, PrefixTokens
  <2> QED
    BY <1>1, <2>2, <2>3 DEF SoloBegin
<1>3. ASSUME NEW a \in Token, NEW c \in Token
      PROVE  StartsWith(t, <<a, c>>) <=> Cut(t, a, c)
  <2>1. PICK p : p = <<a, c>>
    OBVIOUS
  <2>2. p \in Text /\ Len(p) = 2 /\ p[1] = a /\ p[2] = c
    BY <2>1 DEF Text
  <2>3. StartsWith(t, p) <=> 2 <= Len(t) /\ \A i \in 1..2 : t[i] = p[i]
    BY <2>2, StartsWithTokens
  <2>4. (\A i \in 1..2 : t[i] = p[i]) <=> t[1] = a /\ t[2] = c
    <3>1. \A i \in 1..2 : i = 1 \/ i = 2
      OBVIOUS
    <3> QED
      BY <2>2, <3>1
  <2> QED
    BY <1>1, <2>1, <2>3, <2>4 DEF Cut
<1>4. "address" \in Token /\ "." \in Token /\ "/" \in Token /\ "sri" \in Token
  BY DEF Token
<1>5. t = Prefix \o <<"address">> <=> SoloBegin(t) /\ Len(t) = 5 /\ t[5] = "address"
  <2>1. PICK more : more = <<"address">>
    OBVIOUS
  <2>2. more \in Text /\ Len(more) = 1 /\ more[1] = "address"
    BY <1>4, <2>1, OneToken
  <2>3. PICK p : p = Prefix \o more
    OBVIOUS
  <2>4. /\ p \in Text /\ Len(p) = 5 /\ p[5] = "address"
        /\ p[1] = "sri" /\ p[2] = "/" /\ p[3] = "solo" /\ p[4] = "/"
    <3>1. /\ p \in Text /\ Len(p) = 4 + 1
          /\ \A i \in 1..4 : p[i] = Prefix[i]
          /\ \A i \in 1..1 : p[4 + i] = more[i]
      BY <2>2, <2>3, PrefixAnd
    <3>2. p[4 + 1] = more[1]
      BY <3>1
    <3> QED
      BY <2>2, <3>1, <3>2, PrefixTokens
  <2>5. ASSUME SoloBegin(t), Len(t) = 5, t[5] = "address" PROVE t = p
    <3>1. \A i \in 1..5 : i = 1 \/ i = 2 \/ i = 3 \/ i = 4 \/ i = 5
      OBVIOUS
    <3>2. \A i \in 1..5 : t[i] = p[i]
      BY <2>4, <2>5, <3>1 DEF SoloBegin
    <3> QED
      BY <2>4, <2>5, <3>2, SeqEqual DEF Text
  <2>6. t = p <=> SoloBegin(t) /\ Len(t) = 5 /\ t[5] = "address"
    BY <2>4, <2>5 DEF SoloBegin
  <2>7. p = Prefix \o <<"address">>
    BY <2>1, <2>3
  <2> QED
    BY <2>6, <2>7
<1>6. StartsWith(t, Prefix \o <<"address", "/">>)
        <=> SoloBegin(t) /\ Len(t) >= 6 /\ t[5] = "address" /\ t[6] = "/"
  <2>1. PICK more : more = <<"address", "/">>
    OBVIOUS
  <2>2. more \in Text /\ Len(more) = 2 /\ more[1] = "address" /\ more[2] = "/"
    BY <1>4, <2>1 DEF Text
  <2>3. PICK p : p = Prefix \o more
    OBVIOUS
  <2>4. /\ p \in Text /\ Len(p) = 6 /\ p[5] = "address" /\ p[6] = "/"
        /\ p[1] = "sri" /\ p[2] = "/" /\ p[3] = "solo" /\ p[4] = "/"
    <3>1. /\ p \in Text /\ Len(p) = 4 + 2
          /\ \A i \in 1..4 : p[i] = Prefix[i]
          /\ \A i \in 1..2 : p[4 + i] = more[i]
      BY <2>2, <2>3, PrefixAnd
    <3>2. p[4 + 1] = more[1] /\ p[4 + 2] = more[2]
      BY <3>1
    <3> QED
      BY <2>2, <3>1, <3>2, PrefixTokens
  <2>5. StartsWith(t, p) <=> 6 <= Len(t) /\ \A i \in 1..6 : t[i] = p[i]
    BY <2>4, StartsWithTokens
  <2>6. \A i \in 1..6 : i = 1 \/ i = 2 \/ i = 3 \/ i = 4 \/ i = 5 \/ i = 6
    OBVIOUS
  <2>7. (\A i \in 1..6 : t[i] = p[i]) <=>
          /\ t[1] = "sri" /\ t[2] = "/" /\ t[3] = "solo" /\ t[4] = "/"
          /\ t[5] = "address" /\ t[6] = "/"
    BY <2>4, <2>6
  <2>8. StartsWith(t, p) <=> SoloBegin(t) /\ Len(t) >= 6 /\ t[5] = "address" /\ t[6] = "/"
    BY <1>1, <2>5, <2>7 DEF SoloBegin
  <2>9. p = Prefix \o <<"address", "/">>
    BY <2>1, <2>3
  <2> QED
    BY <2>8, <2>9
<1>7. StartsWith(t, Prefix \o <<"address", "/">>) \/ t = Prefix \o <<"address">> <=> SoloShape(t)
  <2>1. Len(t) >= 6 => Len(t) >= 5
    BY <1>1
  <2>2. Len(t) = 5 => Len(t) >= 5
    BY <1>1
  <2>3. Len(t) >= 5 => Len(t) = 5 \/ Len(t) >= 6
    <3>1. PICK n \in Nat : n = Len(t)
      BY <1>1
    <3>2. n >= 5 => n = 5 \/ n >= 6
      OBVIOUS
    <3> QED
      BY <3>1, <3>2
  <2> QED
    BY <1>5, <1>6, <2>1, <2>2, <2>3 DEF SoloShape
<1>8. /\ StartsWith(t, <<"address", ".">>) <=> Cut(t, "address", ".")
      /\ StartsWith(t, <<"sri", "/">>) <=> Cut(t, "sri", "/")
  BY <1>3, <1>4
<1> QED
  BY <1>2, <1>7, <1>8

-----------------------------------------------------------------------------
(* The pool.                                                               *)

\* The pool reads the third form, with or without a label.
LEMMA SoloForm ==
  ASSUME NEW t \in Text
  PROVE  SoloScript(t) = IF SoloShape(t) THEN "address" ELSE Nobody
<1>1. Len(t) \in Nat
  BY LenProperties DEF Text
<1>2. /\ "address" \in Token /\ "/" \in Token /\ "sri" \in Token /\ "solo" \in Token
      /\ Nobody # "address"
  BY MinerIdentityAssumption DEF Token
<1>3. ASSUME NEW u \in Text, u = <<>>, NEW w \in Token, w # "/" PROVE Before(u, "/") # <<w>>
  <2>1. Len(u) = 0
    BY <1>3, NoToken
  <2>2. u # <<w>> /\ ~Cut(u, w, "/")
    BY <2>1, OneToken DEF Cut
  <2> QED
    BY <1>2, <1>3, <2>2, CutAfterOne
<1>4. PICK u : u = Behind(t, "/")
  OBVIOUS
<1>5. PICK v : v = Behind(u, "/")
  OBVIOUS
<1>6. SoloScript(t) = IF Before(t, "/") = <<"sri">> /\ Before(u, "/") = <<"solo">>
                         /\ Before(v, "/") = <<"address">>
                      THEN "address" ELSE Nobody
  BY <1>4, <1>5 DEF SoloScript, PayoutScript
<1>7. ASSUME Cut(t, "sri", "/") PROVE
        /\ u \in Text /\ Len(u) = Len(t) - 2
        /\ \A i \in 1..Len(t) - 2 : u[i] = t[2 + i]
        /\ Before(t, "/") = <<"sri">>
  <2>1. u = SubSeq(t, 3, Len(t)) /\ Before(t, "/") = <<"sri">>
    BY <1>2, <1>4, <1>7, CutAfterOne
  <2>2. 3 \in Nat \ {0} /\ 2 \in Nat /\ 3 = 2 + 1 /\ 2 <= Len(t)
    BY <1>1, <1>7 DEF Cut
  <2> QED
    BY <2>1, <2>2, Rest
<1>8. ASSUME Cut(t, "sri", "/"), Cut(u, "solo", "/") PROVE
        /\ SoloBegin(t) /\ Before(u, "/") = <<"solo">>
        /\ v \in Text /\ Len(v) = Len(t) - 4
        /\ \A i \in 1..Len(t) - 4 : v[i] = t[4 + i]
  <2>1. v = SubSeq(u, 3, Len(u)) /\ Before(u, "/") = <<"solo">>
    BY <1>2, <1>5, <1>7, <1>8, CutAfterOne
  <2>2. 3 \in Nat \ {0} /\ 2 \in Nat /\ 3 = 2 + 1 /\ 2 <= Len(u)
    BY <1>1, <1>7, <1>8 DEF Cut
  <2>3. /\ v \in Text /\ Len(v) = Len(u) - 2
        /\ \A i \in 1..Len(u) - 2 : v[i] = u[2 + i]
    BY <1>7, <1>8, <2>1, <2>2, Rest
  <2>4. Len(v) = Len(t) - 4 /\ Len(t) - 4 = Len(u) - 2 /\ Len(t) >= 4
    BY <1>1, <1>7, <1>8, <2>2, <2>3
  <2>5. ASSUME NEW i \in 1..Len(t) - 4 PROVE v[i] = t[4 + i]
    <3>1. i \in 1..Len(u) - 2 /\ 2 + i \in 1..Len(t) - 2 /\ 2 + (2 + i) = 4 + i
      BY <1>1, <2>4
    <3>2. v[i] = u[2 + i] /\ u[2 + i] = t[2 + (2 + i)]
      BY <1>7, <1>8, <2>3, <3>1
    <3> QED
      BY <3>1, <3>2
  <2>6. SoloBegin(t)
    <3>1. 1 \in 1..Len(t) - 2 /\ 2 \in 1..Len(t) - 2
      BY <2>4
    <3>2. u[1] = t[2 + 1] /\ u[2] = t[2 + 2]
      BY <1>7, <1>8, <3>1
    <3>3. t[3] = "solo" /\ t[4] = "/"
      BY <1>8, <3>2 DEF Cut
    <3> QED
      BY <1>8, <2>4, <3>3 DEF SoloBegin, Cut
  <2> QED
    BY <2>1, <2>3, <2>4, <2>5, <2>6
<1>9. Before(t, "/") = <<"sri">> /\ Before(u, "/") = <<"solo">> /\ Before(v, "/") = <<"address">>
         => Cut(t, "sri", "/") /\ Cut(u, "solo", "/")
  <2> SUFFICES ASSUME Before(t, "/") = <<"sri">>, Before(u, "/") = <<"solo">>,
                      Before(v, "/") = <<"address">>
               PROVE  Cut(t, "sri", "/") /\ Cut(u, "solo", "/")
    OBVIOUS
  <2>1. <<>> \in Text
    BY NoToken
  <2>2. Cut(t, "sri", "/")
    <3> SUFFICES ASSUME t = <<"sri">> PROVE FALSE
      BY <1>2, CutAfterOne
    <3>1. u = <<>>
      BY <1>2, <1>4, CutAfterOne
    <3> QED
      BY <1>2, <1>3, <2>1, <3>1
  <2>3. Cut(u, "solo", "/")
    <3>1. u \in Text
      BY <1>7, <2>2
    <3> SUFFICES ASSUME u = <<"solo">> PROVE FALSE
      BY <1>2, <3>1, CutAfterOne
    <3>2. v = <<>>
      BY <1>2, <1>5, <3>1, CutAfterOne
    <3> QED
      BY <1>2, <1>3, <2>1, <3>2
  <2> QED
    BY <2>2, <2>3
<1>10. SoloShape(t) => Cut(t, "sri", "/") /\ Cut(u, "solo", "/")
  <2> SUFFICES ASSUME SoloBegin(t) PROVE Cut(t, "sri", "/") /\ Cut(u, "solo", "/")
    BY DEF SoloShape
  <2>1. Cut(t, "sri", "/") /\ Len(t) >= 4
    BY <1>1 DEF SoloBegin, Cut
  <2>2. 1 \in 1..Len(t) - 2 /\ 2 \in 1..Len(t) - 2 /\ Len(t) - 2 >= 2
    BY <1>1, <2>1
  <2>3. u[1] = t[2 + 1] /\ u[2] = t[2 + 2] /\ Len(u) >= 2
    BY <1>7, <2>1, <2>2
  <2>4. u[1] = "solo" /\ u[2] = "/"
    BY <2>3 DEF SoloBegin
  <2> QED
    BY <2>1, <2>3, <2>4 DEF Cut
<1>11. ASSUME Cut(t, "sri", "/"), Cut(u, "solo", "/")
       PROVE  Before(v, "/") = <<"address">> <=> SoloShape(t)
  <2>1. SoloBegin(t) /\ v \in Text /\ Len(v) = Len(t) - 4 /\ \A i \in 1..Len(t) - 4 : v[i] = t[4 + i]
    BY <1>8, <1>11
  <2>2. Before(v, "/") = <<"address">> <=> v = <<"address">> \/ Cut(v, "address", "/")
    BY <1>2, <2>1, CutAfterOne
  <2>3. v = <<"address">> <=> Len(v) = 1 /\ v[1] = "address"
    BY <1>2, <2>1, OneToken
  <2>4. Len(v) >= 1 => v[1] = t[5]
    <3> SUFFICES ASSUME Len(v) >= 1 PROVE v[1] = t[5]
      OBVIOUS
    <3>1. 1 \in 1..Len(t) - 4 /\ 4 + 1 = 5
      BY <1>1, <2>1
    <3> QED
      BY <2>1, <3>1
  <2>5. Len(v) >= 2 => v[2] = t[6]
    <3> SUFFICES ASSUME Len(v) >= 2 PROVE v[2] = t[6]
      OBVIOUS
    <3>1. 2 \in 1..Len(t) - 4 /\ 4 + 2 = 6
      BY <1>1, <2>1
    <3> QED
      BY <2>1, <3>1
  <2>6. /\ Len(v) = 1 <=> Len(t) = 5
        /\ Len(v) >= 2 <=> Len(t) >= 5 /\ Len(t) # 5
        /\ Len(v) = 1 \/ Len(v) >= 2 => Len(v) >= 1
        /\ Len(t) = 5 => Len(t) >= 5
    BY <1>1, <2>1
  <2> QED
    BY <2>1, <2>2, <2>3, <2>4, <2>5, <2>6 DEF Cut, SoloShape
<1> QED
  BY <1>6, <1>7, <1>8, <1>9, <1>10, <1>11

\* What the pool makes of a text: an address alone, an address and a full
\* stop, or the third form.
LEMMA PoolReads ==
  ASSUME NEW t \in Text
  PROVE  TryFromUserIdentity(t) =
           IF t = <<"address">> \/ Cut(t, "address", ".") \/ SoloShape(t) THEN "address" ELSE Nobody
<1>1. "address" \in Token /\ "." \in Token /\ "address" # "." /\ Nobody # "address"
  BY MinerIdentityAssumption DEF Token
<1>2. Before(t, ".") = <<"address">> <=> t = <<"address">> \/ Cut(t, "address", ".")
  BY <1>1, CutAfterOne
<1> QED
  BY <1>1, <1>2, SoloForm DEF TryFromUserIdentity, PayoutScript

\* The same in the words of the documentation.
LEMMA PaysDocumented ==
  ASSUME NEW t \in Text
  PROVE  TryFromUserIdentity(t) = IF Documented(t) \/ t = Prefix \o <<"address">>
                                  THEN "address" ELSE Nobody
<1>1. Documented(t) \/ t = Prefix \o <<"address">>
        <=> t = <<"address">> \/ Cut(t, "address", ".") \/ SoloShape(t)
  BY Forms DEF Documented
<1> QED
  BY <1>1, PoolReads

-----------------------------------------------------------------------------
(* The application.                                                        *)

Ink(c) == c # " "

\* Ink is what trimming does not take away; all of a form but its label is.
LEMMA IsInked ==
  /\ \A t : Inked(t) = {i \in 1..Len(t) : Ink(t[i])}
  /\ Ink("address") /\ Ink("sri") /\ Ink(".") /\ Ink("/")
  BY Zenon DEF Inked, Ink

\* A text that begins with ink loses nothing in front, and no ink behind.
LEMMA TrimKeepsInk ==
  ASSUME NEW t \in Text, NEW m \in Nat, m = Len(t), NEW k \in 1..m, Ink(t[1]), Ink(t[k])
  PROVE  \E n \in k..m : Trim(t) = SubSeq(t, 1, n)
<1>1. k \in 1..m /\ 1 \in 1..m
  OBVIOUS
<1>2. Inked(t) \in SUBSET (1..m) /\ 1 \in Inked(t) /\ k \in Inked(t)
  BY <1>1, IsInked
<1>3. FirstInked(t) = 1
  <2>1. \A j \in Inked(t) : 1 <= j
    BY <1>2
  <2>2. \A i \in Inked(t) : (\A j \in Inked(t) : i <= j) => i = 1
    <3> SUFFICES ASSUME NEW i \in Inked(t), i <= 1 PROVE i = 1
      BY <1>2
    <3>1. i \in 1..m
      BY <1>2
    <3> QED
      BY <3>1
  <2> QED
    BY <1>2, <2>1, <2>2 DEF FirstInked
<1>4. LastInked(t) \in Inked(t) /\ \A j \in Inked(t) : j <= LastInked(t)
  <2>1. \E i \in Inked(t) : \A j \in Inked(t) : j <= i
    BY <1>2, GreatestIndex
  <2> QED
    BY <2>1 DEF LastInked
<1>5. LastInked(t) \in k..Len(t)
  <2>1. PICK n : n = LastInked(t)
    OBVIOUS
  <2>2. n \in 1..m /\ k <= n
    BY <1>2, <1>4, <2>1
  <2>3. n \in k..m
    BY <1>1, <2>2
  <2> QED
    BY <2>1, <2>3
<1> QED
  BY <1>2, <1>3, <1>5 DEF Trim

\* So a text that begins with k tokens of which the first and the last are
\* ink begins with them when it has been trimmed.
LEMMA TrimKeepsForm ==
  ASSUME NEW t \in Text, NEW m \in Nat, m = Len(t), NEW k \in 1..m, Ink(t[1]), Ink(t[k])
  PROVE  /\ Trim(t) \in Text /\ Trim(t) # <<>>
         /\ Len(Trim(t)) \in k..m
         /\ \A i \in 1..Len(Trim(t)) : Trim(t)[i] = t[i]
<1>1. k \in 1..m /\ Len(t) \in Nat
  OBVIOUS
<1>2. PICK n \in k..m : Trim(t) = SubSeq(t, 1, n)
  BY TrimKeepsInk
<1>3. n \in Nat /\ 1 \in Nat \ {0} /\ n <= m /\ 1 <= n
  BY <1>1, <1>2
<1>4. PICK u : u = Trim(t)
  OBVIOUS
<1>5. /\ u \in Text /\ Len(u) = IF 1 <= n THEN n - 1 + 1 ELSE 0
      /\ \A i \in 1..n - 1 + 1 : u[i] = t[1 + i - 1]
  BY <1>1, <1>2, <1>3, <1>4, Part
<1>6. Len(u) = n
  BY <1>3, <1>5
<1>7. ASSUME NEW i \in 1..n PROVE u[i] = t[i]
  <2>1. i \in 1..n - 1 + 1 /\ 1 + i - 1 = i
    BY <1>3
  <2> QED
    BY <1>5, <2>1
<1>8. u # <<>>
  BY <1>3, <1>6, NoToken
<1> QED
  BY <1>1, <1>2, <1>4, <1>5, <1>6, <1>7, <1>8

\* An address is one for the application too.
LEMMA AddressIsValid == ValidatePayoutAddress(<<"address">>) = "address"
<1>1. PICK a : a = <<"address">>
  OBVIOUS
<1>2. "address" \in Token
  BY DEF Token
<1>3. a \in Text /\ Len(a) = 1 /\ a[1] = "address"
  <2>1. a \in Text
    BY <1>1, <1>2, OneToken
  <2> QED
    BY <1>1, <1>2, <2>1, OneToken
<1>4. PICK b : b = Trim(a)
  OBVIOUS
<1>5. b \in Text /\ Len(b) \in 1..1 /\ \A i \in 1..Len(b) : b[i] = a[i]
  <2>1. 1 \in 1..Len(a) /\ Ink(a[1])
    BY <1>3, IsInked
  <2> QED
    BY <1>3, <1>4, <2>1, TrimKeepsForm
<1>6. Len(b) = 1 /\ b[1] = "address"
  BY <1>3, <1>5
<1>7. b = <<"address">>
  BY <1>2, <1>5, <1>6, OneToken
<1> QED
  BY <1>1, <1>4, <1>7 DEF ValidatePayoutAddress, PayoutScript

\* What is listed of a text that has been trimmed: the address of each form.
LEMMA FormsAreListed ==
  ASSUME NEW t \in Text,
         t = <<"address">> \/ Cut(t, "address", ".") \/ SoloShape(t)
  PROVE  ParseTrimmed(t).address = "address"
<1>1. Len(t) \in Nat
  BY LenProperties DEF Text
<1>2. /\ "address" \in Token /\ "." \in Token /\ "/" \in Token /\ "sri" \in Token
      /\ "address" # "." /\ "address" # "/"
  BY DEF Token
<1>3. ASSUME NEW a, NEW l, a = <<"address">> PROVE Identity(a, l).address = "address"
  BY <1>3, AddressIsValid DEF Identity
<1>4. CASE SoloShape(t)
  <2>1. StartsWith(t, Prefix)
    BY <1>4, Forms DEF SoloShape
  <2>2. PICK u : u = StripPrefix(t)
    OBVIOUS
  <2>3. u \in Text /\ Len(u) = Len(t) - 4 /\ \A i \in 1..Len(t) - 4 : u[i] = t[4 + i]
    <3>1. 5 \in Nat \ {0} /\ 4 \in Nat /\ 5 = 4 + 1 /\ 4 <= Len(t)
      BY <1>1, <1>4 DEF SoloShape
    <3>2. u = SubSeq(t, 5, Len(t))
      BY <2>2 DEF StripPrefix
    <3> QED
      BY <3>1, <3>2, Rest
  <2>4. Len(u) >= 1 /\ u[1] = "address"
    <3>1. 1 \in 1..Len(t) - 4 /\ 4 + 1 = 5
      BY <1>1, <1>4 DEF SoloShape
    <3>2. u[1] = t[5]
      BY <2>3, <3>1
    <3> QED
      BY <1>1, <1>4, <2>3, <3>1, <3>2 DEF SoloShape
  <2>5. u = <<"address">> \/ Cut(u, "address", "/")
    <3>1. CASE Len(t) = 5
      <4>1. Len(u) = 1
        BY <2>3, <3>1
      <4> QED
        BY <1>2, <2>3, <2>4, <4>1, OneToken
    <3>2. CASE Len(t) # 5
      <4>1. Len(t) - 4 >= 2 /\ 2 \in 1..Len(t) - 4 /\ 4 + 2 = 6
        <5>1. PICK m \in Nat : m = Len(t)
          BY <1>1
        <5>2. m >= 5 /\ m # 5
          BY <1>4, <3>2, <5>1 DEF SoloShape
        <5>3. m - 4 >= 2 /\ 2 \in 1..m - 4 /\ 4 + 2 = 6
          BY <5>2
        <5> QED
          BY <5>1, <5>3
      <4>2. u[2] = t[6]
        BY <2>3, <4>1
      <4> QED
        BY <1>4, <2>3, <2>4, <3>2, <4>1, <4>2 DEF Cut, SoloShape
    <3> QED
      BY <3>1, <3>2
  <2>6. Before(u, "/") = <<"address">>
    BY <1>2, <2>3, <2>5, CutAfterOne
  <2> QED
    BY <1>3, <2>1, <2>2, <2>6 DEF ParseTrimmed
<1>5. CASE t = <<"address">> \/ Cut(t, "address", ".")
  <2>1. t[1] = "address" /\ Len(t) >= 1
    <3>1. CASE t = <<"address">>
      BY <1>2, <3>1, OneToken
    <3>2. CASE Cut(t, "address", ".")
      BY <1>1, <3>2 DEF Cut
    <3> QED
      BY <1>5, <3>1, <3>2
  <2>2. ~StartsWith(t, Prefix) /\ ~StartsWith(t, <<"sri", "/">>)
    BY <2>1, Forms DEF SoloBegin, Cut
  <2>3. Before(t, ".") = <<"address">>
    BY <1>2, <1>5, CutAfterOne
  <2> QED
    BY <1>3, <2>2, <2>3 DEF ParseTrimmed
<1> QED
  BY <1>4, <1>5

\* A text in one of the forms has it after trimming too.
LEMMA TrimKeepsForms ==
  ASSUME NEW t \in Text,
         t = <<"address">> \/ Cut(t, "address", ".") \/ SoloShape(t)
  PROVE  \E u \in Text : /\ u = Trim(t) /\ u # <<>>
                         /\ u = <<"address">> \/ Cut(u, "address", ".") \/ SoloShape(u)
<1>1. Len(t) \in Nat /\ "address" \in Token
  BY LenProperties DEF Text, Token
<1>2. PICK u : u = Trim(t)
  OBVIOUS
<1>3. ASSUME NEW k \in 1..Len(t), Ink(t[1]), Ink(t[k])
      PROVE  /\ u \in Text /\ u # <<>> /\ Len(u) \in k..Len(t)
             /\ \A i \in 1..Len(u) : u[i] = t[i]
  BY <1>1, <1>2, <1>3, TrimKeepsForm
<1>4. CASE t = <<"address">>
  <2>1. Len(t) = 1 /\ t[1] = "address"
    BY <1>1, <1>4, OneToken
  <2>2. u \in Text /\ u # <<>> /\ Len(u) \in 1..1 /\ \A i \in 1..Len(u) : u[i] = t[i]
    <3>1. 1 \in 1..Len(t) /\ Ink(t[1])
      BY <2>1, IsInked
    <3> QED
      BY <1>3, <2>1, <3>1
  <2>3. Len(u) = 1 /\ u[1] = "address"
    BY <2>1, <2>2
  <2>4. u = <<"address">>
    BY <1>1, <2>2, <2>3, OneToken
  <2> QED
    BY <1>2, <2>2, <2>4
<1>5. CASE Cut(t, "address", ".")
  <2>1. 2 \in 1..Len(t) /\ t[1] = "address" /\ t[2] = "."
    BY <1>1, <1>5 DEF Cut
  <2>2. u \in Text /\ u # <<>> /\ Len(u) \in 2..Len(t) /\ \A i \in 1..Len(u) : u[i] = t[i]
    BY <1>3, <2>1, IsInked
  <2>3. Len(u) >= 2 /\ 1 \in 1..Len(u) /\ 2 \in 1..Len(u)
    BY <1>1, <2>2
  <2>4. Cut(u, "address", ".")
    BY <2>1, <2>2, <2>3 DEF Cut
  <2> QED
    BY <1>2, <2>2, <2>4
<1>6. CASE SoloShape(t)
  <2>1. /\ 5 \in 1..Len(t) /\ t[1] = "sri" /\ t[2] = "/" /\ t[3] = "solo" /\ t[4] = "/"
        /\ t[5] = "address"
    BY <1>1, <1>6 DEF SoloShape, SoloBegin
  <2>2. u \in Text /\ u # <<>> /\ Len(u) \in 5..Len(t) /\ \A i \in 1..Len(u) : u[i] = t[i]
    BY <1>3, <2>1, IsInked
  <2>3. \A i \in 1..5 : i \in 1..Len(u)
    BY <1>1, <2>2
  <2>4. /\ u[1] = "sri" /\ u[2] = "/" /\ u[3] = "solo" /\ u[4] = "/" /\ u[5] = "address"
    <3>1. u[1] = t[1] /\ u[2] = t[2] /\ u[3] = t[3] /\ u[4] = t[4] /\ u[5] = t[5]
      BY <2>2, <2>3
    <3> QED
      BY <2>1, <3>1
  <2>5. Len(u) # 5 => u[6] = "/"
    <3> SUFFICES ASSUME Len(u) # 5 PROVE u[6] = "/"
      OBVIOUS
    <3>1. 6 \in 1..Len(u) /\ Len(t) # 5
      <4>1. PICK m \in Nat : m = Len(t)
        BY <1>1
      <4>2. PICK n \in 5..m : n = Len(u)
        BY <2>2, <4>1
      <4>3. n # 5
        BY <4>2
      <4>4. 6 \in 1..n /\ m # 5
        BY <4>2, <4>3
      <4> QED
        BY <4>1, <4>2, <4>4
    <3>2. u[6] = t[6]
      BY <2>2, <3>1
    <3> QED
      BY <1>6, <3>1, <3>2 DEF SoloShape
  <2>6. Len(u) >= 4 /\ Len(u) >= 5
    BY <1>1, <2>2
  <2>7. SoloShape(u)
    BY <2>4, <2>5, <2>6 DEF SoloShape, SoloBegin
  <2> QED
    BY <1>2, <2>2, <2>7
<1> QED
  BY <1>4, <1>5, <1>6

\* So the application lists what the pool accepts.
LEMMA ListsAccepted ==
  ASSUME NEW t \in Text, TryFromUserIdentity(t) # Nobody
  PROVE  ParseMinerIdentity(t).address = TryFromUserIdentity(t)
<1>1. t = <<"address">> \/ Cut(t, "address", ".") \/ SoloShape(t)
  BY PoolReads
<1>2. TryFromUserIdentity(t) = "address"
  BY <1>1, PoolReads
<1>3. PICK u \in Text : /\ u = Trim(t) /\ u # <<>>
                        /\ u = <<"address">> \/ Cut(u, "address", ".") \/ SoloShape(u)
  BY <1>1, TrimKeepsForms
<1>4. ParseTrimmed(u).address = "address"
  BY <1>3, FormsAreListed
<1> QED
  BY <1>2, <1>3, <1>4 DEF ParseMinerIdentity

-----------------------------------------------------------------------------
(* Every text that can be typed.                                           *)

\* The inductive invariant.
TextTyped == text \in Text

\* What is typed is a text.
LEMMA TextIsTyped == TextSpec => []TextTyped
<1>1. Untyped => TextTyped
  <2>1. Prefix \in Text
    BY PrefixTokens
  <2>2. <<>> \in Text
    BY NoToken
  <2>3. <<"sri", "/", "donate", "/", "word", "/">> \in Text
    BY DEF Text, Token
  <2> QED
    BY <2>1, <2>2, <2>3 DEF Untyped, TextTyped
<1>2. TextTyped /\ [Type]_textVars => TextTyped'
  <2> SUFFICES ASSUME text \in Text, [Type]_textVars PROVE text' \in Text
    BY DEF TextTyped
  <2>1. CASE Type
    <3>1. PICK token \in Token : text' = Append(text, token)
      BY <2>1 DEF Type
    <3> QED
      BY <3>1, AppendProperties DEF Text
  <2>2. CASE UNCHANGED textVars
    BY <2>2 DEF textVars
  <2> QED
    BY <2>1, <2>2
<1> QED
  BY <1>1, <1>2, PTL DEF TextSpec

\* Of every text, however long and whatever its tokens: the documented forms
\* pay the address that they name, and no other text but the third form
\* without a label is accepted.
THEOREM NamedAddressIsPaid == TextSpec => []PaysWhomItNames
<1>1. TextTyped => PaysWhomItNames
  BY PaysDocumented DEF PaysWhomItNames, TextTyped
<1> QED
  BY <1>1, TextIsTyped, PTL

\* Of every text that the pool accepts, the application makes a row under the
\* address that the pool pays.
THEOREM AcceptedMinersAreListed == TextSpec => []AcceptedIsListed
<1>1. TextTyped => AcceptedIsListed
  BY ListsAccepted DEF AcceptedIsListed, TextTyped
<1> QED
  BY <1>1, TextIsTyped, PTL
=============================================================================
