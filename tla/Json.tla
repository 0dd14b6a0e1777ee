------------------------------- MODULE Json -------------------------------
(***************************************************************************)
(* The body of a report: sms112_make_json builds an object of named        *)
(* parameters and sms112_escape_spec_sym replaces special characters in    *)
(* each value, in place, while it walks over it.  The report is compared   *)
(* with what a reader of JSON (RFC 8259) makes of it.                      *)
(*                                                                         *)
(* A text is a sequence of characters; control characters have names, and  *)
(* a parameter's name is the character "N".  As sms112_send_report calls   *)
(* it, there are as many descriptions as parameters, all with quotes.      *)
(***************************************************************************)
EXTENDS Naturals, Sequences, SequencesExt

CONSTANTS
  Chars,   \* the characters that occur in values
  Params,  \* how many parameters there are
  MaxLen   \* bound: the length of a value

\* The control characters; "BS" stands for those the program has no replacement for.
Controls == {"FF", "LF", "CR", "HT", "BS"}

ASSUME JsonAssumption == Params \in Nat /\ MaxLen \in Nat

NULL == <<"NULL">>   \* no text of the system
Texts == UNION {[1 .. n -> Chars] : n \in 0 .. MaxLen}

VARIABLES
  p_mpszParam,   \* the values, some of them NULL
  i,             \* the parameter at work
  pc,
  strAttrValue,  \* its value, escaped up to st
  st,
  p_strOut

vars == <<p_mpszParam, i, pc, strAttrValue, st, p_strOut>>

-----------------------------------------------------------------------------
\* The small pieces.

\* msoRepl
ReplNoBackslash ==
  [c \in {"\"", "/", "FF", "LF", "CR", "HT"} |->
     <<"\\", CASE c = "FF" -> "f" [] c = "LF" -> "n" [] c = "CR" -> "r" [] c = "HT" -> "t"
               [] OTHER -> c>>]
msoRepl ==
  [c \in {"\"", "/", "\\", "FF", "LF", "CR", "HT"} |->
     <<"\\", CASE c = "FF" -> "f" [] c = "LF" -> "n" [] c = "CR" -> "r" [] c = "HT" -> "t"
               [] OTHER -> c>>]

\* What the character at st is replaced by.
By(c) == IF c \in DOMAIN msoRepl THEN msoRepl[c] ELSE <<c>>

\* How far st moves on, the loop's ++st included.
PastIt(by) == Len(by)

-----------------------------------------------------------------------------
\* sms112_make_json

\* The name, and the value as it is; NULL counts as empty.
BeginParam ==
  /\ pc = "param" /\ i <= Params
  /\ p_strOut' = p_strOut \o (IF i = 1 THEN <<>> ELSE <<",">>) \o <<"\"", "N", "\"", ":", "\"">>
  /\ strAttrValue' = IF p_mpszParam[i] = NULL THEN <<>> ELSE p_mpszParam[i]
  /\ st' = 0
  /\ pc' = "escape"
  /\ UNCHANGED <<p_mpszParam, i>>

\* One turn of the loop of sms112_escape_spec_sym.
Escape ==
  /\ pc = "escape" /\ st < Len(strAttrValue)
  /\ LET by == By(strAttrValue[st + 1])
     IN  /\ strAttrValue' = SubSeq(strAttrValue, 1, st) \o by
                              \o SubSeq(strAttrValue, st + 2, Len(strAttrValue))
         /\ st' = st + PastIt(by)
  /\ UNCHANGED <<p_mpszParam, i, pc, p_strOut>>

EndParam ==
  /\ pc = "escape" /\ st >= Len(strAttrValue)
  /\ p_strOut' = p_strOut \o strAttrValue \o <<"\"">>
  /\ i' = i + 1
  /\ pc' = "param"
  /\ UNCHANGED <<p_mpszParam, strAttrValue, st>>

Close ==
  /\ pc = "param" /\ i > Params
  /\ p_strOut' = Append(p_strOut, "}")
  /\ pc' = "made"
  /\ UNCHANGED <<p_mpszParam, i, strAttrValue, st>>

Init ==
  /\ p_mpszParam \in [1 .. Params -> Texts \cup {NULL}]
  /\ i = 1 /\ pc = "param"
  /\ strAttrValue = <<>> /\ st = 0
  /\ p_strOut = <<"{">>

Next == BeginParam \/ Escape \/ EndParam \/ Close

Spec == Init /\ [][Next]_vars

-----------------------------------------------------------------------------
\* A reader of JSON: it makes tokens of the characters, one after the other.

Token(isString, text) == [isString |-> isString, text |-> text]

Meaning(c) ==
  CASE c = "f" -> "FF" [] c = "n" -> "LF" [] c = "r" -> "CR" [] c = "t" -> "HT"
    [] OTHER -> c

ReadChar(reader, c) ==
  CASE reader.at = "outside" /\ c = "\"" -> [reader EXCEPT !.at = "string", !.text = <<>>]
    [] reader.at = "outside" /\ c # "\"" ->
         [reader EXCEPT !.tokens = Append(@, Token(FALSE, <<c>>))]
    [] reader.at = "string" /\ c = "\"" ->
         [reader EXCEPT !.at = "outside", !.tokens = Append(@, Token(TRUE, reader.text))]
    [] reader.at = "string" /\ c = "\\" -> [reader EXCEPT !.at = "escape"]
    [] reader.at = "string" /\ c \notin {"\"", "\\"} \cup Controls ->
         [reader EXCEPT !.text = Append(@, c)]
    [] reader.at = "escape" /\ c \in {"\"", "\\", "/", "f", "n", "r", "t"} ->
         [reader EXCEPT !.at = "string", !.text = Append(@, Meaning(c))]
    [] OTHER -> [reader EXCEPT !.at = "wrong"]

Reader == [at |-> "outside", text |-> <<>>, tokens |-> <<>>]

\* The reader after the last character of the text.
Read(text) ==
  LET reader[n \in 0 .. Len(text)] ==
        IF n = 0 THEN Reader ELSE ReadChar(reader[n - 1], text[n])
  IN  reader[Len(text)]

\* What it should make of the parameters.
Value(n) == IF p_mpszParam[n] = NULL THEN <<>> ELSE p_mpszParam[n]
Comma(n) == IF n = 1 THEN <<>> ELSE <<Token(FALSE, <<",">>)>>
TokensOf(n) ==
  Comma(n) \o <<Token(TRUE, <<"N">>), Token(FALSE, <<":">>), Token(TRUE, Value(n))>>
TokensUpTo(n) ==
  <<Token(FALSE, <<"{">>)>> \o FlattenSeq([m \in 1 .. n |-> TokensOf(m)])

HasReplacement(text) == \A n \in DOMAIN text : text[n] # "BS"
Replaceable == \A n \in 1 .. Params : HasReplacement(Value(n))

-----------------------------------------------------------------------------
\* Properties.

\* A reader of JSON gets every value of the report back as it was given, unless a value
\* has a control character that has no replacement (sms112_make_json).
ReadsBack ==
  pc = "made" /\ Replaceable =>
    /\ Read(p_strOut).at = "outside"
    /\ Read(p_strOut).tokens = Append(TokensUpTo(Params), Token(FALSE, <<"}">>))
=============================================================================
