------------------------------ MODULE Literals ------------------------------
(***************************************************************************)
(* One string or integer literal on its way through CommonLexer and        *)
(* CodeGenVisitor.  The lexer reads the rest of the file after the opening *)
(* quote token by token, in the grammar's string mode; what the grammar    *)
(* has no token for is dropped inside ANTLR, which reports it but does not *)
(* tell CommonLexer.  CodeGenVisitor then replaces the escapes in a copy   *)
(* of the token's text.                                                    *)
(*                                                                         *)
(* Characters are known by what the grammar tells apart: "n" stands for    *)
(* the letters that may follow a backslash, "plain" for all others.        *)
(***************************************************************************)
EXTENDS Integers, Sequences, FiniteSetsExt

CONSTANTS
  MaxSource,       \* bound on the characters after the opening quote
  MaxDigits,       \* bound on the digits of an integer literal
  Oct, Dec, Hex,   \* the bases of std::stoi: 8, 10 and 16
  MaxInt           \* the largest int

ASSUME LiteralsAssumption ==
  /\ MaxSource \in Nat /\ MaxDigits \in Nat /\ MaxInt \in Nat
  /\ Oct \in Nat /\ Dec \in Nat /\ Hex \in Nat
  /\ 1 < Oct /\ Oct < Dec /\ Dec < Hex

Char == {"quote", "backslash", "n", "plain", "cr", "lf"}
Escapable == {"quote", "backslash", "n"}

Texts == UNION {[1..n -> Char] : n \in 0..MaxSource}
Digits(base) == UNION {[1..n -> 0..(base - 1)] : n \in 1..MaxDigits}

VARIABLES
  literal,   \* what is written: a string's characters or an integer's digits
  at,        \* the lexer's position in a string
  token,     \* the text of the token
  failed,    \* lexerFailed
  text, idx, \* the locals of visitStringLit, positions from 1
  value,     \* the constant of visitIntLit
  state

vars == <<literal, at, token, failed, text, idx, value, state>>

source == literal.chars
Peek(s, i) == IF i \in DOMAIN s THEN s[i] ELSE "end"
here == Peek(source, at)
after == Peek(source, at + 1)

Init ==
  /\ literal \in [kind : {"string"}, chars : Texts]
                 \cup [kind : {"decimal"}, digits : Digits(Dec)]
                 \cup [kind : {"hex"}, digits : Digits(Hex)]
  /\ at = 1 /\ token = <<>> /\ failed = FALSE
  /\ text = <<>> /\ idx = 1 /\ value = 0
  /\ state = "lexing"

-----------------------------------------------------------------------------
(* CommonLexer::checkStringLit.  A token of n characters is appended to    *)
(* the text.                                                               *)
Take(n) ==
  /\ token' = token \o SubSeq(source, at, at + n - 1)
  /\ at' = at + n
  /\ UNCHANGED <<literal, text, idx, value, state>>

Lexing == state = "lexing" /\ literal.kind = "string"

(* ALLOWED_CHARS is a run of these, the longest there is.                  *)
AllowedChars ==
  /\ Lexing /\ UNCHANGED failed
  /\ \/ here \in {"n", "plain"} /\ Take(1)
     \/ here = "backslash" /\ after \in Escapable /\ Take(2)

IllegalNewline ==
  /\ Lexing /\ failed' = TRUE
  /\ \/ here = "lf" /\ Take(1)
     \/ here = "cr" /\ after = "lf" /\ Take(2)

IllegalEscape ==
  /\ Lexing /\ failed' = TRUE
  /\ here = "backslash" /\ after \notin Escapable \cup {"end"} /\ Take(2)

(* Mutant: the end of the file counts as a character.                      *)
UnrecognizedBeyond ==
  /\ Lexing
  /\ \/ here = "cr" /\ after # "lf"
     \/ here = "backslash" /\ after = "end"
  /\ at' = at + 2
  /\ UNCHANGED <<literal, token, failed, text, idx, value, state>>

(* No token begins like this: ANTLR drops what it has looked at.           *)
Unrecognized ==
  /\ Lexing
  /\ \/ here = "cr" /\ after # "lf"
     \/ here = "backslash" /\ after = "end"
  /\ at' = IF after = "end" THEN at + 1 ELSE at + 2
  /\ UNCHANGED <<literal, token, failed, text, idx, value, state>>

(* Mutant: a string that is not closed ends with the file.                 *)
UnterminatedAccepted ==
  /\ Lexing /\ here = "end"
  /\ state' = IF failed THEN "rejected" ELSE "generating"
  /\ text' = token
  /\ UNCHANGED <<literal, at, token, failed, idx, value>>

Unterminated ==
  /\ Lexing /\ here = "end"
  /\ failed' = TRUE /\ state' = "rejected"
  /\ UNCHANGED <<literal, at, token, text, idx, value>>

(* The closing quote.  Nothing is generated once the lexer has failed.     *)
Terminated ==
  /\ Lexing /\ here = "quote"
  /\ state' = IF failed THEN "rejected" ELSE "generating"
  /\ at' = at + 1 /\ text' = token
  /\ UNCHANGED <<literal, token, failed, idx, value>>

-----------------------------------------------------------------------------
(* CodeGenVisitor::visitStringLit: from idx on, find the next backslash.   *)
Generating == state = "generating" /\ literal.kind = "string"

Found(i) == i >= idx /\ text[i] = "backslash" /\ \A j \in idx..(i - 1) : text[j] # "backslash"

Replacement(c) == IF c = "n" THEN "lf" ELSE c

NextIdx(i) == i + 2

(* Mutant: the character put in only takes the place of the backslash.     *)
ReplaceBackslash ==
  /\ Generating
  /\ \E i \in DOMAIN text :
       /\ Found(i) /\ Peek(text, i + 1) \in Escapable
       /\ text' = [text EXCEPT ![i] = Replacement(text[i + 1])]
       /\ idx' = NextIdx(i)
  /\ UNCHANGED <<literal, at, token, failed, value, state>>

Replace ==
  /\ Generating
  /\ \E i \in DOMAIN text :
       /\ Found(i) /\ Peek(text, i + 1) \in Escapable
       /\ text' = SubSeq(text, 1, i - 1) \o <<Replacement(text[i + 1])>>
                    \o SubSeq(text, i + 2, Len(text))
       /\ idx' = NextIdx(i)
  /\ UNCHANGED <<literal, at, token, failed, value, state>>

(* "Wouldn't go here", says the code.                                      *)
PassOver ==
  /\ Generating
  /\ \E i \in DOMAIN text :
       /\ Found(i) /\ Peek(text, i + 1) \notin Escapable
       /\ idx' = i + 1
  /\ UNCHANGED <<literal, at, token, failed, text, value, state>>

EndString ==
  /\ Generating /\ \A i \in DOMAIN text : ~Found(i)
  /\ state' = "generated"
  /\ UNCHANGED <<literal, at, token, failed, text, idx, value>>
-----------------------------------------------------------------------------
(* std::stoi in a base: the value of the longest prefix of digits.  The    *)
(* first digit is one in each call, since "0x" begins with a zero.         *)
Stoi(base, ds) ==
  LET n == Max({k \in 0..Len(ds) : \A j \in 1..k : ds[j] < base})
      read[k \in 0..n] == IF k = 0 THEN 0 ELSE read[k - 1] * base + ds[k]
  IN read[n]

(* isIntegerTooLarge: base 0 has stoi take the base from the text.         *)
LexerBase ==
  CASE literal.kind = "hex" -> Hex
    [] literal.kind = "decimal" /\ literal.digits[1] = 0 -> Oct
    [] OTHER -> Dec

(* Mutant: the lexer's base is the generator's.                            *)
LexerStoiDec == Stoi(Dec, literal.digits)

LexerStoi == Stoi(LexerBase, literal.digits)

CheckInt ==
  /\ state = "lexing" /\ literal.kind # "string"
  /\ failed' = (LexerStoi > MaxInt)
  /\ state' = IF failed' THEN "rejected" ELSE "generating"
  /\ UNCHANGED <<literal, at, token, text, idx, value>>

(* visitIntLit: stoi in base ten, where "0x..." is a zero; nobody catches  *)
(* its exception.                                                          *)
GeneratorStoi == IF literal.kind = "hex" THEN 0 ELSE Stoi(Dec, literal.digits)

GenerateInt ==
  /\ state = "generating" /\ literal.kind # "string"
  /\ \/ GeneratorStoi <= MaxInt /\ value' = GeneratorStoi /\ state' = "generated"
     \/ GeneratorStoi > MaxInt /\ UNCHANGED value /\ state' = "aborted"
  /\ UNCHANGED <<literal, at, token, failed, text, idx>>

Next ==
  \/ AllowedChars \/ IllegalNewline \/ IllegalEscape \/ Unrecognized
  \/ Unterminated \/ Terminated
  \/ Replace \/ PassOver \/ EndString
  \/ CheckInt \/ GenerateInt

Spec == Init /\ [][Next]_vars

-----------------------------------------------------------------------------
(* Types.  The lexer's position stays within the file, and visitStringLit  *)
(* starts no search beyond the terminator of the text it began with.       *)
TypeOK ==
  /\ at \in 1..(MaxSource + 1)
  /\ literal.kind = "string" => at <= Len(source) + 1
  /\ token \in Texts /\ text \in Texts /\ Len(text) <= Len(token)
  /\ failed \in BOOLEAN /\ value \in 0..MaxInt
  /\ idx \in 1..(Len(token) + 1)
  /\ state \in {"lexing", "rejected", "generating", "generated", "aborted"}

-----------------------------------------------------------------------------
(* What a literal means.  escape[i]: an escape begins at i.                *)
Escapes(s) ==
  LET escape[i \in 0..Len(s)] == i > 0 /\ s[i] = "backslash" /\ ~escape[i - 1] IN escape

(* The first n characters are those of a string, and the next one ends it. *)
IsString(s, n) ==
  LET escape == Escapes(s) IN
  /\ s[n + 1] = "quote" /\ ~escape[n]
  /\ \A i \in 1..n :
       /\ s[i] \notin {"cr", "lf"}
       /\ s[i] = "quote" => escape[i - 1]
       /\ escape[i] => s[i + 1] \in Escapable

Meaning(s) ==
  LET escape == Escapes(s)
      from[i \in 1..(Len(s) + 2)] ==
        IF i > Len(s) THEN <<>>
        ELSE IF escape[i] THEN <<Replacement(s[i + 1])>> \o from[i + 2]
        ELSE <<s[i]>> \o from[i + 1]
  IN from[1]

Adjacent(s) ==
  LET escape == Escapes(s) IN \E i \in 1..(Len(s) - 2) : escape[i] /\ escape[i + 2]

LoneReturn(s, n) == \E i \in 1..n : s[i] = "cr" /\ Peek(s, i + 1) # "lf"

(* CommonLexer accepts each string the grammar allows, with its text, and  *)
(* nothing else but texts with a carriage return that no newline follows:  *)
(* those lose it and the character behind it, be it the closing quote.     *)
StringsAreRead ==
  literal.kind = "string" /\ state # "lexing" =>
    LET strings == {n \in 0..(Len(source) - 1) : IsString(source, n)} IN
    /\ \A n \in strings : state # "rejected" /\ token = SubSeq(source, 1, n)
    /\ state # "rejected" /\ strings = {} => LoneReturn(source, at - 1)

(* What is generated is what the text means exactly if no escape follows   *)
(* another one at once: the search for the next goes on one character too  *)
(* far.                                                                    *)
StringsAreWritten ==
  literal.kind = "string" /\ state = "generated" =>
    (text = Meaning(token) <=> ~Adjacent(token))

(* "Wouldn't go here, already checked in lexer" (CodeGen.cpp:706): any     *)
(* backslash that is found begins an escape, so that PassOver is no step.  *)
EscapesAreKnown ==
  Generating => \A i \in DOMAIN text : Found(i) => Peek(text, i + 1) \in Escapable

(* The lexer rejects exactly the integers that have no place in an int,    *)
(* but for those with a leading zero, which it takes for octal: too large  *)
(* only as the decimals they are, they stop the compiler later.  Of the    *)
(* hexadecimal literals only zeros get their value.                        *)
IntegersExactly ==
  literal.kind # "string" /\ state \in {"rejected", "generated", "aborted"} =>
    LET hex == literal.kind = "hex"
        meaning == Stoi(IF hex THEN Hex ELSE Dec, literal.digits)
        misread == ~hex /\ literal.digits[1] = 0 /\ Stoi(Oct, literal.digits) <= MaxInt IN
    /\ state = "rejected" <=> (meaning > MaxInt /\ ~misread)
    /\ state = "aborted" <=> (meaning > MaxInt /\ misread)
    /\ state = "generated" => (value = meaning <=> ~hex \/ meaning = 0)
=============================================================================
