----------------------------- MODULE JsonProofs -----------------------------
(***************************************************************************)
(* Json: a reader of a report gets back what was put into it, for values   *)
(* of every length, any number of them and any characters.                 *)
(*                                                                         *)
(* The induction is that of the program: reading one character more is one *)
(* step of the reader (ReadAppend), so the invariant says where the reader *)
(* is after what has been written, and, within a value, after what has     *)
(* been escaped.  That the two recursive definitions of Json exist needs   *)
(* an induction over numbers, which NatSetInduction states about sets.     *)
(***************************************************************************)
EXTENDS Json, SequenceTheorems, WellFoundedInduction, TLAPS

\* The characters of a report, and those a reader can make of it.
Written == Chars \cup {"{", "}", ",", ":", "\"", "N", "\\", "/", "f", "n", "r", "t"}
ReadChars == Written \cup {"FF", "LF", "CR", "HT"}
Tokens == [isString : BOOLEAN, text : Seq(ReadChars)]
Readers ==
  [at : {"outside", "string", "escape", "wrong"}, text : Seq(ReadChars), tokens : Seq(Tokens)]

TypeInv ==
  /\ p_mpszParam \in [1 .. Params -> Texts \cup {NULL}]
  /\ i \in 1 .. Params + 1
  /\ pc \in {"param", "escape", "made"} /\ (pc = "escape" => i <= Params)
  /\ strAttrValue \in Seq(Written)
  /\ st \in 0 .. Len(strAttrValue)
  /\ p_strOut \in Seq(Written)

Outside(reader, tokens) ==
  reader \in Readers /\ reader.at = "outside" /\ reader.tokens = tokens
Within(reader, value, tokens) ==
  reader \in Readers /\ reader.at = "string" /\ reader.text = value /\ reader.tokens = tokens

\* What has been read when a value begins.
Named(n) ==
  TokensUpTo(n - 1) \o Comma(n) \o <<Token(TRUE, <<"N">>), Token(FALSE, <<":">>)>>

\* k characters of the value are escaped, up to st, and the others are as they were.
Escaped(k) ==
  /\ Len(strAttrValue) - st = Len(Value(i)) - k
  /\ \A j \in 1 .. Len(Value(i)) - k : strAttrValue[st + j] = Value(i)[k + j]
  /\ Within(Read(p_strOut \o SubSeq(strAttrValue, 1, st)), SubSeq(Value(i), 1, k), Named(i))

ReadInv ==
  Replaceable =>
    /\ pc = "param" => Outside(Read(p_strOut), TokensUpTo(i - 1))
    /\ pc = "escape" => \E k \in 0 .. Len(Value(i)) : Escaped(k)
    /\ pc = "made" =>
         Outside(Read(p_strOut), Append(TokensUpTo(Params), Token(FALSE, <<"}">>)))

IInv == TypeInv /\ ReadInv

-----------------------------------------------------------------------------
\* Induction over numbers, as a fact about sets of numbers.

Less == {p \in Nat \X Nat : p[1] < p[2]}

LEMMA LessIsWellFounded == IsWellFoundedOn(Less, Nat)
BY NatLessThanWellFounded DEF Less, OpToRel

LEMMA NatSetInduction ==
  ASSUME NEW S, 0 \in S, \A n \in Nat : n \in S => n + 1 \in S
  PROVE  Nat \subseteq S
<1> DEFINE T == Nat \ S
<1> SUFFICES ASSUME T # {} PROVE FALSE
  OBVIOUS
<1>1. T \subseteq Nat
  OBVIOUS
<1>2. PICK x \in T : \A y \in T : <<y, x>> \notin Less
  <2> HIDE DEF T
  <2> QED BY <1>1, LessIsWellFounded, WFMin
<1>3. x \in Nat /\ x # 0
  OBVIOUS
<1>4. x - 1 \in Nat /\ x - 1 < x
  BY <1>3
<1>5. x - 1 \in T
  BY <1>3, <1>4
<1>6. <<x - 1, x>> \in Less
  BY <1>3, <1>4 DEF Less
<1> QED BY <1>2, <1>5, <1>6

-----------------------------------------------------------------------------
\* Sequences.

LEMMA ShortSeqs ==
  ASSUME NEW S, NEW a \in S, NEW b \in S, NEW c \in S, NEW d \in S, NEW e \in S
  PROVE  /\ <<a>> \in Seq(S) /\ <<a, b>> \in Seq(S) /\ <<a, b, c>> \in Seq(S)
         /\ <<a, b, c, d, e>> \in Seq(S)
OBVIOUS

LEMMA ConcatAppend ==
  ASSUME NEW S, NEW s \in Seq(S), NEW t \in Seq(S), NEW c \in S
  PROVE  s \o Append(t, c) = Append(s \o t, c)
<1>1. <<c>> \in Seq(S) /\ s \o t \in Seq(S)
  BY ShortSeqs, ConcatProperties
<1>2. Append(t, c) = t \o <<c>> /\ Append(s \o t, c) = (s \o t) \o <<c>>
  BY <1>1, AppendIsConcat
<1> QED BY <1>1, <1>2, ConcatAssociative

LEMMA AppendTwoThree ==
  ASSUME NEW S, NEW s \in Seq(S), NEW a \in S, NEW b \in S, NEW c \in S
  PROVE  s \o <<a, b, c>> = Append(s \o <<a, b>>, c)
<1>1. <<a, b, c>> = Append(<<a, b>>, c)
  OBVIOUS
<1>2. <<a, b>> \in Seq(S)
  BY ShortSeqs
<1> QED BY <1>1, <1>2, ConcatAppend

LEMMA AppendTwo ==
  ASSUME NEW S, NEW s \in Seq(S), NEW a \in S, NEW b \in S
  PROVE  s \o <<a, b>> = Append(Append(s, a), b)
<1>1. <<a, b>> = Append(<<a>>, b) /\ <<a>> \in Seq(S)
  OBVIOUS
<1>2. Append(s, a) = s \o <<a>>
  BY AppendIsConcat
<1> QED BY <1>1, <1>2, ConcatAppend

LEMMA AppendFive ==
  ASSUME NEW s \in Seq(Written), NEW a \in Written, NEW b \in Written,
         NEW c \in Written, NEW d \in Written, NEW e \in Written
  PROVE  s \o <<a, b, c, d, e>> = Append(Append(Append(Append(Append(s, a), b), c), d), e)
<1>1. /\ <<a, b, c, d, e>> = Append(<<a, b, c, d>>, e) /\ <<a, b, c, d>> \in Seq(Written)
      /\ <<a, b, c, d>> = Append(<<a, b, c>>, d) /\ <<a, b, c>> \in Seq(Written)
  OBVIOUS
<1>2. s \o <<a, b, c>> = Append(Append(Append(s, a), b), c)
  BY AppendTwo, AppendTwoThree
<1>3. s \o <<a, b, c, d>> = Append(s \o <<a, b, c>>, d)
  BY <1>1, ConcatAppend
<1>4. s \o <<a, b, c, d, e>> = Append(s \o <<a, b, c, d>>, e)
  BY <1>1, ConcatAppend
<1> QED BY <1>2, <1>3, <1>4

-----------------------------------------------------------------------------
\* The reader: its recursive definition has a meaning, and reading one character more
\* is one step.

\* reader gives where the reader is after each of the first m characters.
IsReader(reader, text, m) ==
  reader = [n \in 0 .. m |-> IF n = 0 THEN Reader ELSE ReadChar(reader[n - 1], text[n])]

LEMMA ReaderExists ==
  ASSUME NEW text, NEW m \in Nat
  PROVE  \E reader : IsReader(reader, text, m)
<1> DEFINE S == {n \in Nat : \E reader : IsReader(reader, text, n)}
<1>1. 0 \in S
  <2> DEFINE reader == [n \in 0 .. 0 |-> Reader]
  <2>1. IsReader(reader, text, 0)
    BY DEF IsReader
  <2> HIDE DEF reader
  <2> QED BY <2>1
<1>2. ASSUME NEW n \in Nat, n \in S PROVE n + 1 \in S
  <2>1. PICK reader : IsReader(reader, text, n)
    BY <1>2
  <2> DEFINE more ==
        [k \in 0 .. n + 1 |-> IF k <= n THEN reader[k] ELSE ReadChar(reader[n], text[n + 1])]
  <2>2. ASSUME NEW k \in 0 .. n + 1
        PROVE  more[k] = IF k = 0 THEN Reader ELSE ReadChar(more[k - 1], text[k])
    <3>1. CASE k <= n
      <4>1. reader[k] = IF k = 0 THEN Reader ELSE ReadChar(reader[k - 1], text[k])
        BY <2>1, <3>1 DEF IsReader
      <4> QED BY <3>1, <4>1
    <3>2. CASE k = n + 1
      BY <3>2
    <3> QED BY <3>1, <3>2
  <2>3. IsReader(more, text, n + 1)
    <3>1. more = [k \in 0 .. n + 1 |-> more[k]]
      OBVIOUS
    <3> HIDE DEF more
    <3> QED BY <2>2, <3>1 DEF IsReader
  <2> HIDE DEF more
  <2> QED BY <2>3
<1> HIDE DEF S
<1>3. Nat \subseteq S
  BY <1>1, <1>2, NatSetInduction
<1> QED BY <1>3 DEF S

LEMMA ReadersAgree ==
  ASSUME NEW text, NEW other, NEW m \in Nat,
         \A n \in 1 .. m : text[n] = other[n],
         NEW reader, IsReader(reader, text, m),
         NEW longer, IsReader(longer, other, m + 1)
  PROVE  reader[m] = longer[m]
<1> DEFINE S == {n \in Nat : n <= m => reader[n] = longer[n]}
<1>1. 0 \in S
  BY DEF IsReader
<1>2. ASSUME NEW n \in Nat, n \in S PROVE n + 1 \in S
  <2> SUFFICES ASSUME n + 1 <= m PROVE reader[n + 1] = longer[n + 1]
    OBVIOUS
  <2>1. reader[n + 1] = ReadChar(reader[n], text[n + 1])
    BY DEF IsReader
  <2>2. longer[n + 1] = ReadChar(longer[n], other[n + 1])
    BY DEF IsReader
  <2>3. reader[n] = longer[n] /\ text[n + 1] = other[n + 1]
    BY <1>2
  <2> QED BY <2>1, <2>2, <2>3
<1> HIDE DEF S
<1>3. Nat \subseteq S
  BY <1>1, <1>2, NatSetInduction
<1> QED BY <1>3 DEF S

LEMMA ReadIsReaders ==
  ASSUME NEW text, Len(text) \in Nat
  PROVE  \E reader : IsReader(reader, text, Len(text)) /\ Read(text) = reader[Len(text)]
<1> DEFINE reader == CHOOSE r : IsReader(r, text, Len(text))
<1>1. IsReader(reader, text, Len(text))
  BY ReaderExists
<1>2. Read(text) = reader[Len(text)]
  BY DEF Read, IsReader
<1> HIDE DEF reader
<1> QED BY <1>1, <1>2

LEMMA ReadEmpty == Read(<<>>) = Reader
<1>1. Len(<<>>) = 0
  OBVIOUS
<1>2. PICK reader : IsReader(reader, <<>>, 0) /\ Read(<<>>) = reader[0]
  BY <1>1, ReadIsReaders
<1> QED BY <1>2 DEF IsReader

LEMMA ReadOneMore ==
  ASSUME NEW text, NEW more, NEW m \in Nat, Len(text) = m, Len(more) = m + 1,
         \A n \in 1 .. m : text[n] = more[n]
  PROVE  Read(more) = ReadChar(Read(text), more[m + 1])
<1>1. m + 1 \in Nat /\ m + 1 \in 0 .. m + 1
  OBVIOUS
<1>2. PICK reader : IsReader(reader, text, m) /\ Read(text) = reader[m]
  BY ReadIsReaders
<1>3. PICK longer : IsReader(longer, more, m + 1) /\ Read(more) = longer[m + 1]
  BY <1>1, ReadIsReaders
<1>4. longer[m + 1] = ReadChar(longer[m], more[m + 1])
  BY <1>3 DEF IsReader
<1>5. reader[m] = longer[m]
  BY <1>1, <1>2, <1>3, ReadersAgree
<1> QED BY <1>2, <1>3, <1>4, <1>5

LEMMA ReadAppend ==
  ASSUME NEW S, NEW text \in Seq(S), NEW c \in S
  PROVE  Read(Append(text, c)) = ReadChar(Read(text), c)
<1> DEFINE more == Append(text, c)
<1>1. /\ Len(text) \in Nat /\ Len(more) = Len(text) + 1
      /\ more[Len(text) + 1] = c
      /\ \A n \in 1 .. Len(text) : text[n] = more[n]
  BY AppendProperties, LenProperties
<1> HIDE DEF more
<1>2. Read(more) = ReadChar(Read(text), more[Len(text) + 1])
  BY <1>1, ReadOneMore
<1> QED BY <1>1, <1>2 DEF more

LEMMA ReadTwoMore ==
  ASSUME NEW text \in Seq(Written), NEW c \in Written, NEW d \in Written
  PROVE  Read(text \o <<c, d>>) = ReadChar(ReadChar(Read(text), c), d)
<1>1. text \o <<c, d>> = Append(Append(text, c), d)
  BY AppendTwo
<1>2. Append(text, c) \in Seq(Written)
  BY AppendProperties
<1>3. Read(Append(Append(text, c), d)) = ReadChar(Read(Append(text, c)), d)
  BY <1>2, ReadAppend
<1>4. Read(Append(text, c)) = ReadChar(Read(text), c)
  BY ReadAppend
<1> QED BY <1>1, <1>3, <1>4

-----------------------------------------------------------------------------
\* The tokens of the parameters, one parameter after the other.

Joined(s, t) == s \o t
IsFlat(flat, seqs, n) ==
  flat = [m \in 1 .. n |-> IF m = 1 THEN seqs[m] ELSE Joined(flat[m - 1], seqs[m])]

LEMMA FlatExists ==
  ASSUME NEW seqs, NEW n \in Nat
  PROVE  \E flat : IsFlat(flat, seqs, n)
<1> DEFINE S == {m \in Nat : \E flat : IsFlat(flat, seqs, m)}
<1>1. 0 \in S
  <2> DEFINE flat == [m \in 1 .. 0 |-> seqs[m]]
  <2>1. IsFlat(flat, seqs, 0)
    BY DEF IsFlat
  <2> HIDE DEF flat
  <2> QED BY <2>1
<1>2. ASSUME NEW m \in Nat, m \in S PROVE m + 1 \in S
  <2>1. PICK flat : IsFlat(flat, seqs, m)
    BY <1>2
  <2> DEFINE more ==
        [k \in 1 .. m + 1 |-> IF k <= m THEN flat[k]
                              ELSE IF k = 1 THEN seqs[1] ELSE Joined(flat[m], seqs[m + 1])]
  <2>2. ASSUME NEW k \in 1 .. m + 1
        PROVE  more[k] = IF k = 1 THEN seqs[k] ELSE Joined(more[k - 1], seqs[k])
    <3>1. CASE k <= m
      <4>1. flat[k] = IF k = 1 THEN seqs[k] ELSE Joined(flat[k - 1], seqs[k])
        BY <2>1, <3>1 DEF IsFlat
      <4> QED BY <3>1, <4>1
    <3>2. CASE k = m + 1
      BY <3>2
    <3> QED BY <3>1, <3>2
  <2>3. IsFlat(more, seqs, m + 1)
    <3>1. more = [k \in 1 .. m + 1 |-> more[k]]
      OBVIOUS
    <3> HIDE DEF more
    <3> QED BY <2>2, <3>1 DEF IsFlat
  <2> HIDE DEF more
  <2> QED BY <2>3
<1> HIDE DEF S
<1>3. Nat \subseteq S
  BY <1>1, <1>2, NatSetInduction
<1> QED BY <1>3 DEF S

LEMMA FlatsAgree ==
  ASSUME NEW seqs, NEW other, NEW m \in Nat \ {0},
         \A n \in 1 .. m : seqs[n] = other[n],
         NEW flat, IsFlat(flat, seqs, m),
         NEW longer, IsFlat(longer, other, m + 1)
  PROVE  flat[m] = longer[m]
<1> DEFINE S == {n \in Nat : 1 <= n /\ n <= m => flat[n] = longer[n]}
<1>1. 0 \in S
  OBVIOUS
<1>2. ASSUME NEW n \in Nat, n \in S PROVE n + 1 \in S
  <2> SUFFICES ASSUME n + 1 <= m PROVE flat[n + 1] = longer[n + 1]
    OBVIOUS
  <2>1. flat[n + 1] = IF n = 0 THEN seqs[n + 1] ELSE Joined(flat[n], seqs[n + 1])
    BY DEF IsFlat
  <2>2. longer[n + 1] = IF n = 0 THEN other[n + 1] ELSE Joined(longer[n], other[n + 1])
    BY DEF IsFlat
  <2>3. (n # 0 => flat[n] = longer[n]) /\ seqs[n + 1] = other[n + 1]
    BY <1>2
  <2> QED BY <2>1, <2>2, <2>3
<1> HIDE DEF S
<1>3. Nat \subseteq S
  BY <1>1, <1>2, NatSetInduction
<1> QED BY <1>3 DEF S

LEMMA FlattenIsFlat ==
  ASSUME NEW seqs, Len(seqs) \in Nat \ {0}
  PROVE  \E flat : IsFlat(flat, seqs, Len(seqs)) /\ FlattenSeq(seqs) = flat[Len(seqs)]
<1> DEFINE flat == CHOOSE f : IsFlat(f, seqs, Len(seqs))
<1>1. IsFlat(flat, seqs, Len(seqs))
  BY FlatExists
<1>2. FlattenSeq(seqs) = flat[Len(seqs)]
  BY DEF FlattenSeq, IsFlat, Joined
<1> HIDE DEF flat
<1> QED BY <1>1, <1>2

\* One parameter more is its tokens more.
LEMMA FlattenOneMore ==
  ASSUME NEW seqs, NEW more, NEW n \in Nat \ {0}, Len(seqs) = n, Len(more) = n + 1,
         \A m \in 1 .. n : seqs[m] = more[m]
  PROVE  FlattenSeq(more) = Joined(FlattenSeq(seqs), more[n + 1])
<1>1. n \in Nat /\ n + 1 \in Nat \ {0} /\ n <= n + 1 /\ n + 1 \in 1 .. n + 1
  OBVIOUS
<1>2. PICK flat : IsFlat(flat, seqs, n) /\ FlattenSeq(seqs) = flat[n]
  BY FlattenIsFlat
<1>3. PICK longer : IsFlat(longer, more, n + 1) /\ FlattenSeq(more) = longer[n + 1]
  BY <1>1, FlattenIsFlat
<1>4. longer[n + 1] = Joined(longer[n], more[n + 1])
  BY <1>3 DEF IsFlat
<1>5. flat[n] = longer[n]
  BY <1>1, <1>2, <1>3, FlatsAgree
<1> QED BY <1>2, <1>3, <1>4, <1>5

FlatTokens(n) == FlattenSeq([m \in 1 .. n |-> TokensOf(m)])

LEMMA FlatTokensNext ==
  /\ FlatTokens(0) = <<>>
  /\ FlatTokens(1) = TokensOf(1)
  /\ \A n \in Nat \ {0} : FlatTokens(n + 1) = Joined(FlatTokens(n), TokensOf(n + 1))
<1>1. FlatTokens(0) = <<>>
  <2>1. [m \in 1 .. 0 |-> TokensOf(m)] = <<>>
    OBVIOUS
  <2>2. FlattenSeq(<<>>) = <<>>
    BY Zenon DEF FlattenSeq
  <2> QED BY <2>1, <2>2 DEF FlatTokens
<1>2. FlatTokens(1) = TokensOf(1)
  <2> DEFINE seqs == [m \in 1 .. 1 |-> TokensOf(m)]
  <2>1. Len(seqs) = 1 /\ Len(seqs) \in Nat \ {0} /\ seqs[1] = TokensOf(1)
    OBVIOUS
  <2>2. FlatTokens(1) = FlattenSeq(seqs)
    BY DEF FlatTokens
  <2> HIDE DEF seqs
  <2>3. PICK flat : IsFlat(flat, seqs, 1) /\ FlattenSeq(seqs) = flat[1]
    BY <2>1, FlattenIsFlat
  <2>4. flat[1] = seqs[1]
    BY <2>3 DEF IsFlat
  <2> QED BY <2>1, <2>2, <2>3, <2>4
<1>3. ASSUME NEW n \in Nat \ {0}
      PROVE  FlatTokens(n + 1) = Joined(FlatTokens(n), TokensOf(n + 1))
  <2> DEFINE seqs == [m \in 1 .. n |-> TokensOf(m)]
             more == [m \in 1 .. n + 1 |-> TokensOf(m)]
  <2>1. /\ Len(seqs) = n /\ Len(more) = n + 1
        /\ more[n + 1] = TokensOf(n + 1)
        /\ \A m \in 1 .. n : seqs[m] = more[m]
    OBVIOUS
  <2>2. FlatTokens(n) = FlattenSeq(seqs) /\ FlatTokens(n + 1) = FlattenSeq(more)
    BY DEF FlatTokens
  <2> HIDE DEF seqs, more
  <2>3. FlattenSeq(more) = Joined(FlattenSeq(seqs), more[n + 1])
    BY <2>1, FlattenOneMore
  <2> QED BY <2>1, <2>2, <2>3
<1> QED BY <1>1, <1>2, <1>3

LEMMA ValueType ==
  ASSUME TypeInv, NEW n \in 1 .. Params
  PROVE  Value(n) \in Seq(Chars) /\ Value(n) \in Seq(Written)
<1>1. Value(n) \in Seq(Chars)
  BY JsonAssumption DEF TypeInv, Value, Texts
<1>2. Chars \subseteq Written
  BY DEF Written
<1> QED BY <1>1, <1>2, SeqMonotonic

LEMMA TokensOfType ==
  ASSUME TypeInv, NEW n \in 1 .. Params
  PROVE  TokensOf(n) \in Seq(Tokens)
<1>1. Value(n) \in Seq(ReadChars)
  BY ValueType, SeqMonotonic DEF ReadChars
<1>2. /\ Token(TRUE, <<"N">>) \in Tokens /\ Token(FALSE, <<":">>) \in Tokens
      /\ Token(FALSE, <<",">>) \in Tokens /\ Token(TRUE, Value(n)) \in Tokens
  <2>1. /\ <<"N">> \in Seq(ReadChars) /\ <<":">> \in Seq(ReadChars)
        /\ <<",">> \in Seq(ReadChars)
    BY DEF ReadChars, Written
  <2> QED BY <1>1, <2>1 DEF Token, Tokens
<1>3. Comma(n) \in Seq(Tokens)
  BY <1>2, ShortSeqs, EmptySeq, Zenon DEF Comma
<1>4. <<Token(TRUE, <<"N">>), Token(FALSE, <<":">>), Token(TRUE, Value(n))>> \in Seq(Tokens)
  BY <1>2, ShortSeqs, Zenon
<1> QED BY <1>3, <1>4, ConcatProperties DEF TokensOf

LEMMA FlatTokensType ==
  ASSUME TypeInv
  PROVE  \A n \in 0 .. Params : FlatTokens(n) \in Seq(Tokens)
<1> DEFINE S == {n \in Nat : n <= Params => FlatTokens(n) \in Seq(Tokens)}
<1>1. 0 \in S
  BY FlatTokensNext, EmptySeq
<1>2. ASSUME NEW n \in Nat, n \in S PROVE n + 1 \in S
  <2> SUFFICES ASSUME n + 1 <= Params PROVE FlatTokens(n + 1) \in Seq(Tokens)
    OBVIOUS
  <2>1. TokensOf(n + 1) \in Seq(Tokens)
    BY JsonAssumption, TokensOfType
  <2>2. CASE n = 0
    BY <2>1, <2>2, FlatTokensNext
  <2>3. CASE n # 0
    <3>1. FlatTokens(n) \in Seq(Tokens)
      BY <1>2, JsonAssumption
    <3>2. FlatTokens(n + 1) = Joined(FlatTokens(n), TokensOf(n + 1))
      BY <2>3, FlatTokensNext
    <3> QED BY <2>1, <3>1, <3>2, ConcatProperties DEF Joined
  <2> QED BY <2>2, <2>3
<1> HIDE DEF S
<1>3. Nat \subseteq S
  BY <1>1, <1>2, NatSetInduction
<1> QED BY <1>3, JsonAssumption DEF S

\* What has been read when the value of a parameter has been read.
LEMMA NamedThenValue ==
  ASSUME TypeInv, NEW n \in 1 .. Params
  PROVE  /\ Named(n) \in Seq(Tokens)
         /\ TokensUpTo(n - 1) \in Seq(Tokens)
         /\ TokensUpTo(n) = Append(Named(n), Token(TRUE, Value(n)))
<1> DEFINE brace == Token(FALSE, <<"{">>)
           name == Token(TRUE, <<"N">>)
           colon == Token(FALSE, <<":">>)
           value == Token(TRUE, Value(n))
<1>1. brace \in Tokens /\ name \in Tokens /\ colon \in Tokens /\ value \in Tokens
  <2>1. Value(n) \in Seq(ReadChars)
    BY ValueType, SeqMonotonic DEF ReadChars
  <2>2. /\ <<"N">> \in Seq(ReadChars) /\ <<":">> \in Seq(ReadChars)
        /\ <<"{">> \in Seq(ReadChars)
    BY DEF ReadChars, Written
  <2> QED BY <2>1, <2>2 DEF Token, Tokens
<1>2. Comma(n) \in Seq(Tokens)
  <2>1. <<",">> \in Seq(ReadChars)
    BY DEF ReadChars, Written
  <2>2. Token(FALSE, <<",">>) \in Tokens
    BY <2>1 DEF Token, Tokens
  <2> QED BY <2>2, ShortSeqs, EmptySeq, Zenon DEF Comma
<1>3. FlatTokens(n - 1) \in Seq(Tokens)
  BY FlatTokensType, JsonAssumption
<1>4. TokensUpTo(n - 1) = <<brace>> \o FlatTokens(n - 1)
  BY DEF TokensUpTo, FlatTokens
<1>5. TokensUpTo(n) = <<brace>> \o FlatTokens(n)
  BY DEF TokensUpTo, FlatTokens
<1>6. TokensOf(n) = Comma(n) \o <<name, colon, value>>
  BY DEF TokensOf
<1>7. Named(n) = (TokensUpTo(n - 1) \o Comma(n)) \o <<name, colon>>
  BY DEF Named
<1> HIDE DEF brace, name, colon, value
<1>8. FlatTokens(n) = FlatTokens(n - 1) \o TokensOf(n)
  <2>1. CASE n = 1
    <3>1. FlatTokens(n - 1) = <<>> /\ FlatTokens(n) = TokensOf(n)
      <4>1. n - 1 = 0
        BY <2>1
      <4> QED BY <2>1, <4>1, FlatTokensNext, Zenon
    <3>2. <<>> \o TokensOf(n) = TokensOf(n)
      BY TokensOfType, ConcatEmptySeq
    <3> QED BY <3>1, <3>2, Zenon
  <2>2. CASE n # 1
    <3>1. n - 1 \in Nat \ {0} /\ (n - 1) + 1 = n
      BY <2>2, JsonAssumption
    <3> QED BY <3>1, FlatTokensNext DEF Joined
  <2> QED BY <2>1, <2>2
<1>9. /\ <<brace>> \in Seq(Tokens) /\ <<name, colon>> \in Seq(Tokens)
      /\ <<name, colon, value>> \in Seq(Tokens)
  BY <1>1, ShortSeqs
<1>10. TokensUpTo(n - 1) \in Seq(Tokens)
  BY <1>3, <1>4, <1>9, ConcatProperties
<1>11. TokensUpTo(n) = TokensUpTo(n - 1) \o TokensOf(n)
  <2>1. (<<brace>> \o FlatTokens(n - 1)) \o TokensOf(n)
          = <<brace>> \o (FlatTokens(n - 1) \o TokensOf(n))
    BY <1>3, <1>9, TokensOfType, ConcatAssociative
  <2> QED BY <1>4, <1>5, <1>8, <2>1, Zenon
<1>12. TokensUpTo(n) = (TokensUpTo(n - 1) \o Comma(n)) \o <<name, colon, value>>
  BY <1>2, <1>6, <1>9, <1>10, <1>11, ConcatAssociative
<1>13. TokensUpTo(n - 1) \o Comma(n) \in Seq(Tokens)
  BY <1>2, <1>10, ConcatProperties
<1>14. Named(n) \in Seq(Tokens)
  BY <1>7, <1>9, <1>13, ConcatProperties
<1>15. TokensUpTo(n) = Append(Named(n), value)
  BY <1>1, <1>7, <1>12, <1>13, AppendTwoThree
<1> QED BY <1>10, <1>14, <1>15 DEF value

-----------------------------------------------------------------------------
\* What the reader makes of a character, and of several.

LEMMA TokenType ==
  ASSUME NEW isString \in BOOLEAN, NEW text \in Seq(ReadChars)
  PROVE  Token(isString, text) \in Tokens
BY DEF Token, Tokens

LEMMA OpensString ==
  ASSUME NEW r, NEW tokens, Outside(r, tokens)
  PROVE  Within(ReadChar(r, "\""), <<>>, tokens)
<1>1. ReadChar(r, "\"") = [r EXCEPT !.at = "string", !.text = <<>>]
  BY DEF ReadChar, Outside
<1> QED BY <1>1, EmptySeq DEF Outside, Within, Readers

LEMMA ReadsPlainToken ==
  ASSUME NEW r, NEW tokens, Outside(r, tokens), NEW c \in ReadChars, c # "\""
  PROVE  Outside(ReadChar(r, c), Append(tokens, Token(FALSE, <<c>>)))
<1>1. Token(FALSE, <<c>>) \in Tokens
  BY TokenType, ShortSeqs
<1>2. Append(tokens, Token(FALSE, <<c>>)) \in Seq(Tokens)
  BY <1>1, AppendProperties DEF Outside, Readers
<1>3. ReadChar(r, c) = [r EXCEPT !.tokens = Append(@, Token(FALSE, <<c>>))]
  BY DEF ReadChar, Outside
<1> QED BY <1>2, <1>3 DEF Outside, Readers

LEMMA ClosesString ==
  ASSUME NEW r, NEW text, NEW tokens, Within(r, text, tokens)
  PROVE  Outside(ReadChar(r, "\""), Append(tokens, Token(TRUE, text)))
<1>1. Token(TRUE, text) \in Tokens
  BY TokenType DEF Within, Readers
<1>2. Append(tokens, Token(TRUE, text)) \in Seq(Tokens)
  BY <1>1, AppendProperties DEF Within, Readers
<1>3. ReadChar(r, "\"") = [r EXCEPT !.at = "outside", !.tokens = Append(@, Token(TRUE, r.text))]
  BY DEF ReadChar, Within
<1> QED BY <1>2, <1>3 DEF Outside, Within, Readers

LEMMA ReadsPlainChar ==
  ASSUME NEW r, NEW text, NEW tokens, Within(r, text, tokens),
         NEW c \in ReadChars, c \notin {"\"", "\\"} \cup Controls
  PROVE  Within(ReadChar(r, c), Append(text, c), tokens)
<1>1. Append(text, c) \in Seq(ReadChars)
  BY AppendProperties DEF Within, Readers
<1>2. ReadChar(r, c) = [r EXCEPT !.text = Append(@, c)]
  BY DEF ReadChar, Within
<1> QED BY <1>1, <1>2 DEF Within, Readers

LEMMA ReadsEscape ==
  ASSUME NEW r, NEW text, NEW tokens, Within(r, text, tokens),
         NEW c \in {"\"", "\\", "/", "f", "n", "r", "t"}
  PROVE  Within(ReadChar(ReadChar(r, "\\"), c), Append(text, Meaning(c)), tokens)
<1>1. Append(text, Meaning(c)) \in Seq(ReadChars)
  <2>1. Meaning(c) \in ReadChars
    BY DEF Meaning, ReadChars, Written
  <2> QED BY <2>1, AppendProperties DEF Within, Readers
<1>2. ReadChar(r, "\\") = [r EXCEPT !.at = "escape"]
  BY DEF ReadChar, Within
<1>3. ReadChar([r EXCEPT !.at = "escape"], c)
        = [[r EXCEPT !.at = "escape"] EXCEPT !.at = "string", !.text = Append(@, Meaning(c))]
  BY DEF ReadChar, Within, Readers
<1> QED BY <1>1, <1>2, <1>3 DEF Within, Readers

\* Whatever a character is replaced by, the reader gets the character back.
LEMMA ReadsReplacement ==
  ASSUME NEW s \in Seq(Written), NEW text, NEW tokens, Within(Read(s), text, tokens),
         NEW c \in Chars, c # "BS"
  PROVE  /\ By(c) \in Seq(Written)
         /\ Len(By(c)) \in {1, 2}
         /\ Within(Read(s \o By(c)), Append(text, c), tokens)
<1>1. CASE c \in DOMAIN msoRepl
  <2>1. PICK e \in {"\"", "\\", "/", "f", "n", "r", "t"} :
          By(c) = <<"\\", e>> /\ Meaning(e) = c
    BY <1>1 DEF By, msoRepl, Meaning
  <2>2. "\\" \in Written /\ e \in Written
    BY DEF Written
  <2>3. Read(s \o <<"\\", e>>) = ReadChar(ReadChar(Read(s), "\\"), e)
    BY <2>2, ReadTwoMore
  <2> QED BY <2>1, <2>2, <2>3, ReadsEscape, ShortSeqs
<1>2. CASE c \notin DOMAIN msoRepl
  <2>1. By(c) = <<c>>
    BY <1>2 DEF By
  <2>2. c \in Written /\ c \in ReadChars
    BY DEF Written, ReadChars
  <2>3. Read(s \o <<c>>) = ReadChar(Read(s), c)
    BY <2>2, AppendIsConcat, ReadAppend
  <2>4. c \notin {"\"", "\\"} \cup Controls
    BY <1>2 DEF msoRepl, Controls
  <2> QED BY <2>1, <2>2, <2>3, <2>4, ReadsPlainChar, ShortSeqs
<1> QED BY <1>1, <1>2

-----------------------------------------------------------------------------
\* The steps of the program.

LEMMA ParamsStay ==
  ASSUME p_mpszParam' = p_mpszParam
  PROVE  /\ \A n : Value(n)' = Value(n)
         /\ \A n : TokensUpTo(n)' = TokensUpTo(n)
         /\ \A n : Named(n)' = Named(n)
         /\ Replaceable' = Replaceable
<1>1. ASSUME NEW n PROVE Value(n)' = Value(n)
  BY DEF Value
<1>2. ASSUME NEW n PROVE TokensUpTo(n)' = TokensUpTo(n)
  BY DEF TokensUpTo, TokensOf, Comma, Token, Value
<1>3. ASSUME NEW n PROVE Named(n)' = Named(n)
  BY DEF Named, TokensUpTo, TokensOf, Comma, Token, Value
<1>4. Replaceable' = Replaceable
  BY DEF Replaceable, HasReplacement, Value
<1> QED BY <1>1, <1>2, <1>3, <1>4

LEMMA ByType ==
  ASSUME NEW c \in Written
  PROVE  By(c) \in Seq(Written) /\ Len(By(c)) \in {1, 2}
<1>1. CASE c \in DOMAIN msoRepl
  <2>1. PICK e \in {"\"", "\\", "/", "f", "n", "r", "t"} : By(c) = <<"\\", e>>
    BY <1>1 DEF By, msoRepl
  <2>2. "\\" \in Written /\ e \in Written
    BY DEF Written
  <2> QED BY <2>1, <2>2, ShortSeqs
<1>2. CASE c \notin DOMAIN msoRepl
  BY <1>2 DEF By
<1> QED BY <1>1, <1>2

\* Replacing one character, inside the value.
LEMMA Replaced ==
  ASSUME NEW s \in Seq(Written), NEW n \in 0 .. Len(s) - 1, NEW by \in Seq(Written)
  PROVE  LET new == SubSeq(s, 1, n) \o by \o SubSeq(s, n + 2, Len(s))
         IN  /\ new \in Seq(Written)
             /\ Len(new) = Len(s) - 1 + Len(by)
             /\ SubSeq(new, 1, n + Len(by)) = SubSeq(s, 1, n) \o by
             /\ \A j \in 1 .. Len(s) - n - 1 : new[n + Len(by) + j] = s[n + 1 + j]
<1> DEFINE front == SubSeq(s, 1, n)
           back == SubSeq(s, n + 2, Len(s))
           half == front \o by
           new == half \o back
<1>1. Len(s) \in Nat /\ Len(by) \in Nat /\ n \in Nat
  OBVIOUS
<1>2. /\ front \in Seq(Written) /\ Len(front) = n
      /\ \A j \in 1 .. n : front[j] = s[j]
  BY <1>1, SubSeqProperties, ElementOfSeq
<1>3. /\ back \in Seq(Written) /\ Len(back) = Len(s) - n - 1
      /\ \A j \in 1 .. Len(s) - n - 1 : back[j] = s[n + 1 + j]
  BY <1>1, SubSeqProperties, ElementOfSeq
<1> HIDE DEF front, back
<1>4. half \in Seq(Written) /\ Len(half) = n + Len(by)
  BY <1>2, ConcatProperties
<1> HIDE DEF half
<1>5. /\ new \in Seq(Written) /\ Len(new) = n + Len(by) + (Len(s) - n - 1)
      /\ \A j \in 1 .. n + Len(by) : new[j] = half[j]
      /\ \A j \in 1 .. Len(s) - n - 1 : new[n + Len(by) + j] = back[j]
  <2>1. /\ new \in Seq(Written) /\ Len(new) = Len(half) + Len(back)
        /\ \A j \in 1 .. Len(half) + Len(back) :
             new[j] = IF j <= Len(half) THEN half[j] ELSE back[j - Len(half)]
    <3>1. half \in Seq(Written) /\ back \in Seq(Written)
      BY <1>3, <1>4
    <3> QED BY ONLY <3>1, ConcatProperties
  <2> HIDE DEF new
  <2>2. ASSUME NEW j \in 1 .. n + Len(by) PROVE new[j] = half[j]
    <3>1. j <= Len(half) /\ j \in 1 .. Len(half) + Len(back)
      BY <1>1, <1>3, <1>4
    <3> QED BY <2>1, <3>1
  <2>3. ASSUME NEW j \in 1 .. Len(s) - n - 1 PROVE new[n + Len(by) + j] = back[j]
    <3>1. n + Len(by) + j \in 1 .. Len(half) + Len(back) /\ ~ (n + Len(by) + j <= Len(half))
      BY <1>1, <1>3, <1>4
    <3>2. n + Len(by) + j - Len(half) = j
      BY <1>1, <1>4
    <3> QED BY <2>1, <3>1, <3>2
  <2> QED BY <1>1, <1>3, <1>4, <2>1, <2>2, <2>3
<1> HIDE DEF new
<1>6. SubSeq(new, 1, n + Len(by)) = half
  <2> DEFINE m == n + Len(by)
  <2>1. m \in Nat /\ m <= Len(new)
    BY <1>1, <1>5
  <2>2. /\ SubSeq(new, 1, m) \in Seq(Written) /\ Len(SubSeq(new, 1, m)) = m
        /\ \A j \in 1 .. m : SubSeq(new, 1, m)[j] = new[j]
    BY <1>5, <2>1, SubSeqProperties, ElementOfSeq
  <2> QED BY <1>4, <1>5, <2>1, <2>2, SeqEqual
<1>7. new \in Seq(Written) /\ Len(new) = Len(s) - 1 + Len(by)
  BY <1>1, <1>5
<1>8. \A j \in 1 .. Len(s) - n - 1 : new[n + Len(by) + j] = s[n + 1 + j]
  BY <1>1, <1>3, <1>5
<1> QED BY <1>6, <1>7, <1>8 DEF new, half, front, back

LEMMA TypeInit == Init => TypeInv
<1> SUFFICES ASSUME Init PROVE TypeInv
  OBVIOUS
<1>1. p_strOut \in Seq(Written)
  <2>1. "{" \in Written
    BY DEF Written
  <2> QED BY <2>1, ShortSeqs DEF Init
<1>0. strAttrValue = <<>> /\ st = 0 /\ i = 1 /\ pc = "param"
  BY DEF Init
<1>2. strAttrValue \in Seq(Written) /\ st \in 0 .. Len(strAttrValue)
  BY <1>0, EmptySeq
<1>3. i \in 1 .. Params + 1 /\ pc = "param"
  BY <1>0, JsonAssumption
<1>4. p_mpszParam \in [1 .. Params -> Texts \cup {NULL}]
  BY DEF Init
<1> QED BY <1>1, <1>2, <1>3, <1>4 DEF TypeInv

LEMMA TypeStep == TypeInv /\ [Next]_vars => TypeInv'
<1> SUFFICES ASSUME TypeInv, [Next]_vars PROVE TypeInv'
  OBVIOUS
<1>1. CASE BeginParam
  <2>1. i \in 1 .. Params
    <3>1. i \in 1 .. Params + 1 /\ i <= Params
      BY <1>1 DEF BeginParam, TypeInv
    <3> QED BY <3>1, JsonAssumption
  <2>2. strAttrValue' \in Seq(Written)
    BY <1>1, <2>1, ValueType DEF BeginParam, Value
  <2>3. p_strOut' \in Seq(Written)
    <3> DEFINE comma == IF i = 1 THEN <<>> ELSE <<",">>
               name == <<"\"", "N", "\"", ":", "\"">>
    <3>1. comma \in Seq(Written) /\ name \in Seq(Written)
      <4>1. "\"" \in Written /\ "N" \in Written /\ ":" \in Written /\ "," \in Written
        BY DEF Written
      <4> QED BY <4>1, ShortSeqs, EmptySeq
    <3>2. p_strOut' = p_strOut \o comma \o name
      BY <1>1 DEF BeginParam
    <3> QED BY <3>1, <3>2, ConcatProperties DEF TypeInv
  <2>4. pc' = "escape" /\ i' = i /\ st' = 0 /\ p_mpszParam' = p_mpszParam
    BY <1>1 DEF BeginParam
  <2>5. st' \in 0 .. Len(strAttrValue')
    BY <2>2, <2>4
  <2>6. i' \in 1 .. Params + 1 /\ i' <= Params
    BY <2>1, <2>4, JsonAssumption
  <2>7. p_mpszParam' \in [1 .. Params -> Texts \cup {NULL}]
    BY <2>4 DEF TypeInv
  <2> QED BY <2>2, <2>3, <2>4, <2>5, <2>6, <2>7 DEF TypeInv
<1>2. CASE Escape
  <2> DEFINE by == By(strAttrValue[st + 1])
  <2>1. strAttrValue \in Seq(Written) /\ st \in 0 .. Len(strAttrValue) - 1
    BY <1>2 DEF Escape, TypeInv
  <2>2. by \in Seq(Written) /\ Len(by) \in {1, 2}
    BY <2>1, ByType, ElementOfSeq
  <2>3. strAttrValue' = SubSeq(strAttrValue, 1, st) \o by
                          \o SubSeq(strAttrValue, st + 2, Len(strAttrValue))
    BY <1>2 DEF Escape
  <2>6. st' = st + Len(by)
    BY <1>2 DEF Escape, PastIt
  <2> HIDE DEF by
  <2>4. /\ strAttrValue' \in Seq(Written)
        /\ Len(strAttrValue') = Len(strAttrValue) - 1 + Len(by)
    BY <2>1, <2>2, <2>3, Replaced
  <2>5. st' \in 0 .. Len(strAttrValue')
    <3>1. Len(strAttrValue) \in Nat /\ Len(by) \in Nat
      BY <2>1, <2>2
    <3>2. /\ st \in Nat /\ st <= Len(strAttrValue) - 1 /\ st' = st + Len(by)
          /\ Len(strAttrValue') = Len(strAttrValue) - 1 + Len(by)
      BY <2>1, <2>4, <2>6
    <3> QED BY <3>1, <3>2
  <2> QED BY <1>2, <2>4, <2>5 DEF Escape, TypeInv
<1>3. CASE EndParam
  <2>1. <<"\"">> \in Seq(Written)
    BY DEF Written
  <2>2. p_strOut' \in Seq(Written)
    BY <1>3, <2>1, ConcatProperties DEF EndParam, TypeInv
  <2>3. i' \in 1 .. Params + 1
    <3>1. i <= Params /\ i \in 1 .. Params + 1 /\ i' = i + 1
      BY <1>3 DEF EndParam, TypeInv
    <3> QED BY <3>1, JsonAssumption
  <2> QED BY <1>3, <2>2, <2>3 DEF EndParam, TypeInv
<1>4. CASE Close
  <2>1. "}" \in Written
    BY DEF Written
  <2>2. p_strOut' \in Seq(Written)
    BY <1>4, <2>1, AppendProperties DEF Close, TypeInv
  <2> QED BY <1>4, <2>2 DEF Close, TypeInv
<1>5. CASE UNCHANGED vars
  BY <1>5 DEF vars, TypeInv
<1> QED BY <1>1, <1>2, <1>3, <1>4, <1>5 DEF Next

\* Reading the end of a value and what is written between values.
LEMMA ReadsName ==
  ASSUME TypeInv, NEW n \in 1 .. Params, NEW s \in Seq(Written),
         Outside(Read(s), TokensUpTo(n - 1))
  PROVE  LET t == s \o (IF n = 1 THEN <<>> ELSE <<",">>) \o <<"\"", "N", "\"", ":", "\"">>
         IN  t \in Seq(Written) /\ Within(Read(t), <<>>, Named(n))
<1> DEFINE comma == IF n = 1 THEN <<>> ELSE <<",">>
           t0 == s \o comma
           t1 == Append(t0, "\"")
           t2 == Append(t1, "N")
           t3 == Append(t2, "\"")
           t4 == Append(t3, ":")
           t5 == Append(t4, "\"")
           k0 == TokensUpTo(n - 1) \o Comma(n)
           name == Token(TRUE, <<"N">>)
           colon == Token(FALSE, <<":">>)
<1>1. /\ "\"" \in Written /\ "N" \in Written /\ ":" \in Written /\ "," \in Written
      /\ "N" \in ReadChars /\ ":" \in ReadChars /\ "," \in ReadChars
  BY DEF Written, ReadChars
<1>2. t0 \in Seq(Written) /\ Outside(Read(t0), k0)
  <2>1. CASE n = 1
    <3>1. t0 = s
      BY <2>1, ConcatEmptySeq
    <3>2. Comma(n) = <<>>
      BY <2>1 DEF Comma
    <3>3. k0 = TokensUpTo(n - 1)
      BY <3>2, NamedThenValue, ConcatEmptySeq
    <3> QED BY <3>1, <3>3
  <2>2. CASE n # 1
    <3>1. t0 = Append(s, ",")
      BY <1>1, <2>2, AppendIsConcat
    <3>2. Comma(n) = <<Token(FALSE, <<",">>)>>
      BY <2>2 DEF Comma
    <3>3. Token(FALSE, <<",">>) \in Tokens
      BY <1>1, TokenType, ShortSeqs
    <3>4. k0 = Append(TokensUpTo(n - 1), Token(FALSE, <<",">>))
      BY <3>2, <3>3, NamedThenValue, AppendIsConcat
    <3>5. Read(t0) = ReadChar(Read(s), ",")
      BY <1>1, <3>1, ReadAppend
    <3>6. Outside(ReadChar(Read(s), ","), Append(TokensUpTo(n - 1), Token(FALSE, <<",">>)))
      BY <1>1, ReadsPlainToken
    <3>7. t0 \in Seq(Written)
      <4>1. comma = <<",">> /\ <<",">> \in Seq(Written)
        BY <1>1, <2>2, ShortSeqs
      <4> QED BY <4>1, ConcatProperties
    <3> QED BY <3>4, <3>5, <3>6, <3>7
  <2> QED BY <2>1, <2>2
<1> HIDE DEF t0, k0
<1>3. t1 \in Seq(Written) /\ Within(Read(t1), <<>>, k0)
  BY <1>1, <1>2, ReadAppend, AppendProperties, OpensString
<1> HIDE DEF t1
<1>4. t2 \in Seq(Written) /\ Within(Read(t2), <<"N">>, k0)
  <2>1. Append(<<>>, "N") = <<"N">>
    OBVIOUS
  <2>2. "N" \notin {"\"", "\\"} \cup Controls
    BY DEF Controls
  <2>3. Read(t2) = ReadChar(Read(t1), "N") /\ t2 \in Seq(Written)
    BY <1>1, <1>3, ReadAppend, AppendProperties
  <2>4. Within(ReadChar(Read(t1), "N"), Append(<<>>, "N"), k0)
    BY <1>1, <1>3, <2>2, ReadsPlainChar
  <2> QED BY <2>1, <2>3, <2>4
<1> HIDE DEF t2
<1>5. t3 \in Seq(Written) /\ Outside(Read(t3), Append(k0, name))
  <2>1. Read(t3) = ReadChar(Read(t2), "\"") /\ t3 \in Seq(Written)
    BY <1>1, <1>4, ReadAppend, AppendProperties
  <2>2. Outside(ReadChar(Read(t2), "\""), Append(k0, Token(TRUE, <<"N">>)))
    BY <1>4, ClosesString
  <2> QED BY <2>1, <2>2
<1> HIDE DEF t3
<1>6. t4 \in Seq(Written) /\ Outside(Read(t4), Append(Append(k0, name), colon))
  <2>1. Read(t4) = ReadChar(Read(t3), ":") /\ t4 \in Seq(Written)
    BY <1>1, <1>5, ReadAppend, AppendProperties
  <2>2. Outside(ReadChar(Read(t3), ":"), Append(Append(k0, name), Token(FALSE, <<":">>)))
    BY <1>1, <1>5, ReadsPlainToken
  <2> QED BY <2>1, <2>2
<1> HIDE DEF t4
<1>7. t5 \in Seq(Written) /\ Within(Read(t5), <<>>, Append(Append(k0, name), colon))
  BY <1>1, <1>6, ReadAppend, AppendProperties, OpensString
<1>8. Append(Append(k0, name), colon) = Named(n)
  <2>1. k0 \in Seq(Tokens)
    BY <1>2 DEF Outside, Readers
  <2>2. name \in Tokens /\ colon \in Tokens
    BY <1>1, TokenType, ShortSeqs
  <2> HIDE DEF name, colon
  <2>3. k0 \o <<name, colon>> = Append(Append(k0, name), colon)
    BY <2>1, <2>2, AppendTwo
  <2> QED BY <2>3 DEF Named, k0, name, colon
<1>9. t5 = t0 \o <<"\"", "N", "\"", ":", "\"">>
  <2>1. t5 = Append(Append(Append(Append(Append(t0, "\""), "N"), "\""), ":"), "\"")
    BY DEF t1, t2, t3, t4
  <2> HIDE DEF t5
  <2>2. \A q, m, c \in Written :
          t0 \o <<q, m, q, c, q>> = Append(Append(Append(Append(Append(t0, q), m), q), c), q)
    BY <1>2, AppendFive
  <2> QED BY <1>1, <2>1, <2>2
<1> QED BY <1>7, <1>8, <1>9 DEF t0

\* The reader within a value, one character further.
LEMMA ReadsFurther ==
  ASSUME NEW v \in Seq(Chars), NEW k \in 0 .. Len(v) - 1, NEW tokens, NEW s \in Seq(Written),
         Within(Read(s), SubSeq(v, 1, k), tokens), v[k + 1] # "BS"
  PROVE  Within(Read(s \o By(v[k + 1])), SubSeq(v, 1, k + 1), tokens)
<1>1. v[k + 1] \in Chars
  BY ElementOfSeq
<1>2. SubSeq(v, 1, k + 1) = Append(SubSeq(v, 1, k), v[k + 1])
  OBVIOUS
<1> QED BY <1>1, <1>2, ReadsReplacement

-----------------------------------------------------------------------------
\* The invariant.

LEMMA ReadInit == Init => ReadInv
<1> SUFFICES ASSUME Init PROVE ReadInv
  OBVIOUS
<1>1. p_strOut = <<"{">> /\ i = 1 /\ pc = "param"
  BY DEF Init
<1>2. "{" \in Written /\ "{" \in ReadChars /\ <<>> \in Seq(Written)
  BY EmptySeq DEF Written, ReadChars
<1>3. Read(p_strOut) = ReadChar(Reader, "{")
  <2>1. <<"{">> = Append(<<>>, "{")
    OBVIOUS
  <2>2. Read(Append(<<>>, "{")) = ReadChar(Read(<<>>), "{")
    BY <1>2, ReadAppend
  <2> QED BY <1>1, <2>1, <2>2, ReadEmpty
<1>4. Outside(Reader, <<>>)
  BY DEF Outside, Reader, Readers
<1>5. Outside(ReadChar(Reader, "{"), Append(<<>>, Token(FALSE, <<"{">>)))
  BY <1>2, <1>4, ReadsPlainToken
<1>6. TokensUpTo(i - 1) = Append(<<>>, Token(FALSE, <<"{">>))
  <2> DEFINE brace == Token(FALSE, <<"{">>)
  <2>1. brace \in Tokens
    BY <1>2, TokenType, ShortSeqs
  <2>2. TokensUpTo(0) = <<brace>> \o <<>>
    BY FlatTokensNext DEF TokensUpTo, FlatTokens
  <2> HIDE DEF brace
  <2>3. <<brace>> \o <<>> = <<brace>> /\ Append(<<>>, brace) = <<brace>>
    BY <2>1, ShortSeqs, ConcatEmptySeq
  <2>4. i - 1 = 0
    <3>1. i = 1
      BY DEF Init
    <3> QED BY <3>1
  <2> QED BY <2>2, <2>3, <2>4 DEF brace
<1> QED BY <1>1, <1>3, <1>5, <1>6 DEF ReadInv

LEMMA ReadStep == TypeInv /\ ReadInv /\ [Next]_vars => ReadInv'
<1> SUFFICES ASSUME TypeInv, ReadInv, [Next]_vars, Replaceable' PROVE ReadInv'
  BY DEF ReadInv
<1>0. p_mpszParam' = p_mpszParam
  BY DEF Next, BeginParam, Escape, EndParam, Close, vars
<1>r. /\ Replaceable
      /\ \A n : Value(n)' = Value(n) /\ TokensUpTo(n)' = TokensUpTo(n) /\ Named(n)' = Named(n)
  BY <1>0, ParamsStay
<1>1. CASE BeginParam
  <2>1. pc = "param" /\ pc' = "escape" /\ i' = i /\ st' = 0 /\ strAttrValue' = Value(i)
    BY <1>1 DEF BeginParam, Value
  <2>2. i \in 1 .. Params
    <3>1. i \in 1 .. Params + 1 /\ i <= Params
      BY <1>1 DEF BeginParam, TypeInv
    <3> QED BY <3>1, JsonAssumption
  <2>3. Outside(Read(p_strOut), TokensUpTo(i - 1)) /\ p_strOut \in Seq(Written)
    BY <1>r, <2>1 DEF ReadInv, TypeInv
  <2>4. p_strOut' = p_strOut \o (IF i = 1 THEN <<>> ELSE <<",">>) \o <<"\"", "N", "\"", ":", "\"">>
    BY <1>1 DEF BeginParam
  <2>5. p_strOut' \in Seq(Written) /\ Within(Read(p_strOut'), <<>>, Named(i))
    BY <2>2, <2>3, <2>4, ReadsName
  <2> DEFINE v == Value(i)
  <2>6. v \in Seq(Written) /\ Len(v) \in Nat
    BY <2>2, ValueType, LenProperties
  <2> HIDE DEF v
  <2>7. SubSeq(v, 1, 0) = <<>> /\ p_strOut' \o <<>> = p_strOut'
    BY <2>5, SubSeqEmpty, ConcatEmptySeq
  <2>8. Escaped(0)'
    <3>1. strAttrValue' = v /\ st' = 0 /\ Value(i)' = v /\ Named(i)' = Named(i)
      BY <1>r, <2>1 DEF v
    <3>2. /\ Len(v) - 0 = Len(v) - 0
          /\ \A j \in 1 .. Len(v) - 0 : v[0 + j] = v[0 + j]
      OBVIOUS
    <3>3. Within(Read(p_strOut' \o SubSeq(v, 1, 0)), SubSeq(v, 1, 0), Named(i))
      BY <2>5, <2>7
    <3> QED BY <3>1, <3>2, <3>3 DEF Escaped
  <2>9. 0 \in 0 .. Len(Value(i)')
    BY <1>r, <2>1, <2>6 DEF v
  <2> QED BY <2>1, <2>8, <2>9 DEF ReadInv
<1>2. CASE Escape
  <2> DEFINE v == Value(i)
             c == strAttrValue[st + 1]
             done == SubSeq(strAttrValue, 1, st)
             by == By(c)
  <2>1. pc = "escape" /\ pc' = "escape" /\ i' = i /\ p_strOut' = p_strOut
    BY <1>2 DEF Escape
  <2>2. PICK k \in 0 .. Len(v) : Escaped(k)
    BY <1>r, <2>1 DEF ReadInv
  <2>3. i \in 1 .. Params /\ v \in Seq(Chars) /\ Len(v) \in Nat
    <3>1. i \in 1 .. Params
      BY <2>1, JsonAssumption DEF TypeInv
    <3> QED BY <3>1, ValueType, LenProperties
  <2>4. strAttrValue \in Seq(Written) /\ st \in 0 .. Len(strAttrValue) - 1
    BY <1>2 DEF Escape, TypeInv
  <2>5. Len(strAttrValue) \in Nat /\ Len(strAttrValue) - st = Len(v) - k
    BY <2>2, <2>4, LenProperties DEF Escaped
  <2>6. k \in 0 .. Len(v) - 1
    BY <2>3, <2>4, <2>5
  <2>7. c = v[k + 1]
    <3>1. 1 \in 1 .. Len(v) - k
      BY <2>3, <2>6
    <3> QED BY <2>2, <3>1 DEF Escaped
  <2>8. c # "BS" /\ c \in Written
    <3>1. k + 1 \in DOMAIN v
      BY <2>3, <2>6, LenProperties
    <3>2. v[k + 1] # "BS"
      BY <1>r, <2>3, <3>1 DEF Replaceable, HasReplacement
    <3>3. c \in Written
      BY <2>4, ElementOfSeq
    <3> QED BY <2>7, <3>2, <3>3
  <2>9. by \in Seq(Written) /\ Len(by) \in {1, 2}
    BY <2>8, ByType
  <2>10. done \in Seq(Written)
    BY <2>4, SubSeqProperties, ElementOfSeq
  <2>11. p_strOut \o done \in Seq(Written) /\ p_strOut \in Seq(Written)
    BY <2>10, ConcatProperties DEF TypeInv
  <2>12. Within(Read((p_strOut \o done) \o by), SubSeq(v, 1, k + 1), Named(i))
    <3>1. Within(Read(p_strOut \o done), SubSeq(v, 1, k), Named(i))
      BY <2>2 DEF Escaped
    <3>2. v[k + 1] # "BS" /\ by = By(v[k + 1])
      BY <2>7, <2>8
    <3> HIDE DEF v, done, by
    <3>3. Within(Read((p_strOut \o done) \o By(v[k + 1])), SubSeq(v, 1, k + 1), Named(i))
      BY <2>3, <2>6, <2>11, <3>1, <3>2, ReadsFurther
    <3> QED BY <3>2, <3>3
  <2>13. strAttrValue' = done \o by \o SubSeq(strAttrValue, st + 2, Len(strAttrValue))
    BY <1>2 DEF Escape
  <2>14. st' = st + Len(by)
    BY <1>2 DEF Escape, PastIt
  <2>15. /\ Len(strAttrValue') = Len(strAttrValue) - 1 + Len(by)
         /\ SubSeq(strAttrValue', 1, st + Len(by)) = done \o by
         /\ \A j \in 1 .. Len(strAttrValue) - st - 1 :
              strAttrValue'[st + Len(by) + j] = strAttrValue[st + 1 + j]
    <3> HIDE DEF by
    <3> QED BY <2>4, <2>9, <2>13, Replaced
  <2>16. (p_strOut \o done) \o by = p_strOut \o (done \o by)
    <3> HIDE DEF done, by
    <3> QED BY <2>9, <2>10, <2>11, ConcatAssociative
  <2>17. \A j \in 1 .. Len(v) - k : strAttrValue[st + j] = v[k + j]
    BY <2>2 DEF Escaped
  <2> HIDE DEF v, c, done, by
  <2>18. Len(strAttrValue') - st' = Len(v) - (k + 1)
    <3>1. Len(strAttrValue') = Len(strAttrValue) - 1 + Len(by)
      BY <2>15
    <3>2. st \in Nat /\ Len(by) \in Nat
      BY <2>4, <2>9
    <3> QED BY <2>3, <2>5, <2>6, <2>14, <3>1, <3>2
  <2>19. ASSUME NEW j \in 1 .. Len(v) - (k + 1)
         PROVE  strAttrValue'[st' + j] = v[k + 1 + j]
    <3>1. j \in 1 .. Len(strAttrValue) - st - 1 /\ j + 1 \in 1 .. Len(v) - k
      BY <2>3, <2>5, <2>6
    <3>2. strAttrValue'[st + Len(by) + j] = strAttrValue[st + 1 + j]
      BY <2>15, <3>1
    <3>3. strAttrValue[st + (j + 1)] = v[k + (j + 1)]
      BY <2>17, <3>1
    <3>4. st + (j + 1) = st + 1 + j /\ k + (j + 1) = k + 1 + j
      BY <2>4, <2>6
    <3> QED BY <2>14, <3>2, <3>3, <3>4
  <2>20. Within(Read(p_strOut' \o SubSeq(strAttrValue', 1, st')), SubSeq(v, 1, k + 1), Named(i))
    BY <2>1, <2>12, <2>14, <2>15, <2>16
  <2>21. v' = v /\ Value(i)' = v /\ Named(i)' = Named(i)
    BY <1>r, <2>1 DEF v
  <2>22. Escaped(k + 1)'
    BY <2>18, <2>19, <2>20, <2>21 DEF Escaped
  <2>23. k + 1 \in 0 .. Len(Value(i)')
    BY <2>3, <2>6, <2>21
  <2> QED BY <2>1, <2>22, <2>23 DEF ReadInv
<1>3. CASE EndParam
  <2> DEFINE v == Value(i)
  <2>1. pc = "escape" /\ pc' = "param" /\ i' = i + 1
    BY <1>3 DEF EndParam
  <2>2. PICK k \in 0 .. Len(v) : Escaped(k)
    BY <1>r, <2>1 DEF ReadInv
  <2>3. i \in 1 .. Params /\ v \in Seq(Chars) /\ Len(v) \in Nat
    <3>1. i \in 1 .. Params
      BY <2>1, JsonAssumption DEF TypeInv
    <3> QED BY <3>1, ValueType, LenProperties
  <2>4. strAttrValue \in Seq(Written) /\ st = Len(strAttrValue) /\ p_strOut \in Seq(Written)
    <3>1. /\ strAttrValue \in Seq(Written) /\ p_strOut \in Seq(Written)
          /\ st \in 0 .. Len(strAttrValue)
      BY DEF TypeInv
    <3>2. st >= Len(strAttrValue)
      BY <1>3 DEF EndParam
    <3>3. Len(strAttrValue) \in Nat
      BY <3>1, LenProperties
    <3> QED BY <3>1, <3>2, <3>3
  <2>5. k = Len(v)
    BY <2>2, <2>3, <2>4 DEF Escaped
  <2>6. SubSeq(strAttrValue, 1, st) = strAttrValue /\ SubSeq(v, 1, k) = v
    BY <2>3, <2>4, <2>5, SubSeqFull
  <2>7. Within(Read(p_strOut \o strAttrValue), v, Named(i))
    BY <2>2, <2>6 DEF Escaped
  <2> HIDE DEF v
  <2>8. p_strOut \o strAttrValue \in Seq(Written) /\ "\"" \in Written
    BY <2>4, ConcatProperties DEF Written
  <2>9. p_strOut' = Append(p_strOut \o strAttrValue, "\"")
    <3>1. p_strOut' = (p_strOut \o strAttrValue) \o <<"\"">>
      BY <1>3 DEF EndParam
    <3> QED BY <2>8, <3>1, AppendIsConcat
  <2>10. Read(p_strOut') = ReadChar(Read(p_strOut \o strAttrValue), "\"")
    BY <2>8, <2>9, ReadAppend
  <2>11. Outside(Read(p_strOut'), Append(Named(i), Token(TRUE, v)))
    BY <2>7, <2>10, ClosesString
  <2>12. Append(Named(i), Token(TRUE, v)) = TokensUpTo(i)
    BY <2>3, NamedThenValue DEF v
  <2>13. TokensUpTo(i - 1)' = TokensUpTo(i)
    <3>1. i' - 1 = i
      BY <2>1, <2>3
    <3> QED BY <1>r, <3>1
  <2> QED BY <2>1, <2>11, <2>12, <2>13 DEF ReadInv
<1>4. CASE Close
  <2>1. pc = "param" /\ pc' = "made" /\ i' = i /\ p_strOut' = Append(p_strOut, "}")
    BY <1>4 DEF Close
  <2>2. i - 1 = Params
    <3>1. i > Params /\ i \in 1 .. Params + 1
      BY <1>4 DEF Close, TypeInv
    <3> QED BY <3>1, JsonAssumption
  <2>3. Outside(Read(p_strOut), TokensUpTo(Params)) /\ p_strOut \in Seq(Written)
    BY <1>r, <2>1, <2>2 DEF ReadInv, TypeInv
  <2>4. "}" \in Written /\ "}" \in ReadChars
    BY DEF Written, ReadChars
  <2>5. Read(p_strOut') = ReadChar(Read(p_strOut), "}")
    BY <2>1, <2>3, <2>4, ReadAppend
  <2>6. Outside(Read(p_strOut'), Append(TokensUpTo(Params), Token(FALSE, <<"}">>)))
    BY <2>3, <2>4, <2>5, ReadsPlainToken
  <2>7. TokensUpTo(Params)' = TokensUpTo(Params) /\ Token(FALSE, <<"}">>)' = Token(FALSE, <<"}">>)
    BY <1>r
  <2> QED BY <2>1, <2>6, <2>7 DEF ReadInv
<1>5. CASE UNCHANGED vars
  <2>1. /\ pc' = pc /\ i' = i /\ st' = st /\ strAttrValue' = strAttrValue
        /\ p_strOut' = p_strOut
    BY <1>5 DEF vars
  <2> QED BY <1>r, <2>1 DEF ReadInv, Escaped
<1> QED BY <1>1, <1>2, <1>3, <1>4, <1>5 DEF Next

LEMMA Invariance == Spec => []IInv
<1>1. Init => IInv
  BY TypeInit, ReadInit DEF IInv
<1>2. IInv /\ [Next]_vars => IInv'
  BY TypeStep, ReadStep DEF IInv
<1> QED BY <1>1, <1>2, PTL DEF Spec

-----------------------------------------------------------------------------
\* A reader of JSON gets every value of every report back, whatever characters it has and
\* however long it is (sms112_make_json, sms112_escape_spec_sym).
THEOREM ReportReadsBack == Spec => []ReadsBack
<1>1. IInv => ReadsBack
  BY DEF IInv, ReadInv, ReadsBack, Outside
<1> QED BY <1>1, Invariance, PTL
=============================================================================
