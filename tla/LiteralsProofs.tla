-------------------------- MODULE LiteralsProofs --------------------------
(***************************************************************************)
(* For literals of any length: which strings and integers the lexer        *)
(* accepts, and which of them the generated program contains as they are   *)
(* meant.                                                                  *)
(***************************************************************************)
EXTENDS Literals, SequenceTheorems, WellFoundedInduction, TLAPS

-----------------------------------------------------------------------------
(* Induction, and functions defined by recursion.                          *)

(* What holds of 0 and goes on to the next number holds up to n.           *)
LEMMA UpTo ==
  ASSUME NEW n \in Nat, NEW S, 0 \in S, \A i \in 0..(n - 1) : i \in S => i + 1 \in S
  PROVE  \A i \in 0..n : i \in S
<1>. DEFINE T == {i \in 0..n : i \notin S}
            R == OpToRel(<, Nat)
<1>. SUFFICES ASSUME T # {} PROVE FALSE
  OBVIOUS
<1>1. T \subseteq Nat
  OBVIOUS
<1>2. PICK m \in T : \A y \in T : ~ (<<y, m>> \in R)
  <2>. HIDE DEF T, R
  <2>1. IsWellFoundedOn(R, Nat)
    BY NatLessThanWellFounded DEF R
  <2>. QED BY <1>1, <2>1, WFMin
<1>3. \A y \in T : ~(y < m)
  <2>. HIDE DEF T
  <2>. QED BY <1>1, <1>2 DEF OpToRel
<1>4. m \in 1..n /\ m - 1 \in 0..(n - 1)
  OBVIOUS
<1>5. m - 1 \notin T
  BY <1>3, <1>4
<1>. QED BY <1>4, <1>5

(* A row of functions, applied one after the other.                        *)
Applied(X, a, F, f, k) ==
  f \in [0..k -> X] /\ f[0] = a /\ \A i \in 1..k : f[i] = F[i][f[i - 1]]

LEMMA Iterated ==
  ASSUME NEW n \in Nat, NEW X, NEW a \in X, NEW F \in [1..n -> [X -> X]]
  PROVE  \E f : Applied(X, a, F, f, n)
<1>. DEFINE S == {k \in 0..n : \E f : Applied(X, a, F, f, k)}
<1>1. 0 \in S
  <2>1. Applied(X, a, F, [i \in 0..0 |-> a], 0)
    BY DEF Applied
  <2>. QED BY <2>1
<1>2. ASSUME NEW k \in 0..(n - 1), k \in S PROVE k + 1 \in S
  <2>1. PICK f : Applied(X, a, F, f, k)
    BY <1>2
  <2>. DEFINE g == [i \in 0..(k + 1) |-> IF i <= k THEN f[i] ELSE F[i][f[k]]]
  <2>2. \A i \in 0..k : f[i] \in X /\ g[i] = f[i]
    BY <2>1 DEF Applied
  <2>3. k + 1 \in 1..n /\ k \in 0..k /\ g[k + 1] = F[k + 1][f[k]]
    OBVIOUS
  <2>4. g[k + 1] \in X
    <3>1. f[k] \in X /\ F[k + 1] \in [X -> X]
      BY <2>2, <2>3
    <3>. QED BY <2>3, <3>1
  <2>5. g \in [0..(k + 1) -> X]
    BY <2>2, <2>4
  <2>6. g[0] = a
    BY <2>1, <2>2 DEF Applied
  <2>. HIDE DEF g
  <2>7. \A i \in 1..(k + 1) : g[i] = F[i][g[i - 1]]
    BY <2>1, <2>2, <2>3 DEF Applied
  <2>. QED BY <2>3, <2>5, <2>6, <2>7 DEF Applied
<1>3. n \in S
  <2>1. \A i \in 0..n : i \in S
    <3>. HIDE DEF S
    <3>. QED BY <1>1, <1>2, UpTo
  <2>. QED BY <2>1
<1>. QED BY <1>3

-----------------------------------------------------------------------------
(* Where escapes begin in a text.                                          *)
EscapeFun(s, e) == e = [i \in 0..Len(s) |-> i > 0 /\ s[i] = "backslash" /\ ~e[i - 1]]

LEMMA EscapesExist ==
  ASSUME NEW s \in Seq(Char)
  PROVE  \E e : EscapeFun(s, e)
<1>. DEFINE n == Len(s)
            F == [i \in 1..n |-> [b \in BOOLEAN |-> s[i] = "backslash" /\ ~b]]
<1>1. n \in Nat /\ FALSE \in BOOLEAN /\ F \in [1..n -> [BOOLEAN -> BOOLEAN]]
  OBVIOUS
<1>2. PICK f : Applied(BOOLEAN, FALSE, F, f, n)
  <2>. HIDE DEF n, F
  <2>. QED BY <1>1, Iterated
<1>3. f \in [0..n -> BOOLEAN] /\ f[0] = FALSE
  BY <1>2 DEF Applied
<1>4. ASSUME NEW i \in 1..n PROVE f[i] = (s[i] = "backslash" /\ ~f[i - 1])
  <2>1. f[i] = F[i][f[i - 1]] /\ i - 1 \in 0..n
    BY <1>1, <1>2 DEF Applied
  <2>2. f[i - 1] \in BOOLEAN
    BY <1>3, <2>1
  <2>. QED BY <2>1, <2>2
<1>5. \A i \in 0..n : f[i] = (i > 0 /\ s[i] = "backslash" /\ ~f[i - 1])
  BY <1>1, <1>3, <1>4
<1>. QED BY <1>3, <1>5 DEF EscapeFun

LEMMA EscapesAre ==
  ASSUME NEW s \in Seq(Char)
  PROVE  /\ Escapes(s) \in [0..Len(s) -> BOOLEAN] /\ ~Escapes(s)[0]
         /\ \A i \in 1..Len(s) : Escapes(s)[i] <=> s[i] = "backslash" /\ ~Escapes(s)[i - 1]
<1>. DEFINE e == CHOOSE f : EscapeFun(s, f)
<1>1. EscapeFun(s, e)
  BY EscapesExist
<1>2. Escapes(s) = e
  BY DEF Escapes, EscapeFun
<1>. HIDE DEF e
<1>3. e = [i \in 0..Len(s) |-> i > 0 /\ s[i] = "backslash" /\ ~e[i - 1]] /\ Len(s) \in Nat
  BY <1>1 DEF EscapeFun
<1>4. \A i \in 0..Len(s) : e[i] = (i > 0 /\ s[i] = "backslash" /\ ~e[i - 1])
  BY <1>3
<1>5. \A i \in 0..Len(s) : e[i] \in BOOLEAN
  BY <1>4
<1>6. e \in [0..Len(s) -> BOOLEAN]
  BY <1>3, <1>5
<1>7. \A i \in 1..Len(s) : e[i] <=> s[i] = "backslash" /\ ~e[i - 1]
  BY <1>3, <1>4
<1>. QED BY <1>2, <1>3, <1>4, <1>6, <1>7

(* Texts that begin alike have the same escapes there.                     *)
LEMMA SameEscapes ==
  ASSUME NEW s \in Seq(Char), NEW t \in Seq(Char), NEW k \in Nat, k <= Len(s), k <= Len(t),
         \A i \in 1..k : s[i] = t[i]
  PROVE  \A i \in 0..k : Escapes(s)[i] <=> Escapes(t)[i]
<1>. DEFINE S == {i \in 0..k : Escapes(s)[i] <=> Escapes(t)[i]}
<1>1. 0 \in S
  BY EscapesAre
<1>2. ASSUME NEW i \in 0..(k - 1), i \in S PROVE i + 1 \in S
  <2>1. i + 1 \in 1..k /\ i + 1 \in 1..Len(s) /\ i + 1 \in 1..Len(t) /\ (i + 1) - 1 = i
    OBVIOUS
  <2>2. Escapes(s)[i + 1] <=> s[i + 1] = "backslash" /\ ~Escapes(s)[i]
    BY <2>1, EscapesAre
  <2>3. Escapes(t)[i + 1] <=> t[i + 1] = "backslash" /\ ~Escapes(t)[i]
    BY <2>1, EscapesAre
  <2>4. s[i + 1] = t[i + 1] /\ (Escapes(s)[i] <=> Escapes(t)[i])
    BY <1>2, <2>1
  <2>. QED BY <2>1, <2>2, <2>3, <2>4
<1>3. \A i \in 0..k : i \in S
  <2>. HIDE DEF S
  <2>. QED BY <1>1, <1>2, UpTo
<1>. QED BY <1>3

(* The first k characters of s are such as a string may have, and end with *)
(* none of them half an escape.                                            *)
Clean(s, k) ==
  /\ ~Escapes(s)[k]
  /\ \A i \in 1..k :
       /\ s[i] \notin {"cr", "lf"}
       /\ s[i] = "quote" => Escapes(s)[i - 1]
       /\ Escapes(s)[i] => s[i + 1] \in Escapable

LEMMA IsStringMeans ==
  ASSUME NEW s, NEW n
  PROVE  IsString(s, n) <=> s[n + 1] = "quote" /\ Clean(s, n)
BY DEF IsString, Clean

LEMMA CleanOne ==
  ASSUME NEW s \in Seq(Char), NEW k \in Nat, k < Len(s), Clean(s, k), s[k + 1] \in {"n", "plain"}
  PROVE  Clean(s, k + 1)
<1>1. k + 1 \in 1..Len(s) /\ (k + 1) - 1 = k
  OBVIOUS
<1>2. ~Escapes(s)[k + 1]
  BY <1>1, EscapesAre
<1>3. \A i \in 1..(k + 1) : i \in 1..k \/ i = k + 1
  OBVIOUS
<1>. QED BY <1>1, <1>2, <1>3 DEF Clean

LEMMA CleanTwo ==
  ASSUME NEW s \in Seq(Char), NEW k \in Nat, k + 1 < Len(s), Clean(s, k),
         s[k + 1] = "backslash", s[k + 2] \in Escapable
  PROVE  Clean(s, k + 2) /\ Escapes(s)[k + 1]
<1>1. /\ k + 1 \in 1..Len(s) /\ (k + 1) - 1 = k
      /\ k + 2 \in 1..Len(s) /\ (k + 2) - 1 = k + 1 /\ (k + 1) + 1 = k + 2
  OBVIOUS
<1>2. Escapes(s)[k + 1]
  BY <1>1, EscapesAre DEF Clean
<1>3. ~Escapes(s)[k + 2]
  BY <1>1, <1>2, EscapesAre
<1>4. \A i \in 1..(k + 2) : i \in 1..k \/ i = k + 1 \/ i = k + 2
  OBVIOUS
<1>. QED BY <1>1, <1>2, <1>3, <1>4 DEF Clean, Escapable

(* What is clean stays so with other characters behind it.                 *)
LEMMA CleanPrefix ==
  ASSUME NEW s \in Seq(Char), NEW t \in Seq(Char), NEW k \in Nat, k <= Len(s), k <= Len(t),
         \A i \in 1..k : s[i] = t[i], Clean(s, k)
  PROVE  Clean(t, k)
<1>1. \A i \in 0..k : Escapes(s)[i] <=> Escapes(t)[i]
  BY SameEscapes
<1>2. ~Escapes(t)[k]
  BY <1>1 DEF Clean
<1>3. ASSUME NEW i \in 1..k
      PROVE  /\ t[i] \notin {"cr", "lf"}
             /\ t[i] = "quote" => Escapes(t)[i - 1]
             /\ Escapes(t)[i] => t[i + 1] \in Escapable
  <2>1. i \in 0..k /\ i - 1 \in 0..k /\ t[i] = s[i]
    OBVIOUS
  <2>2. Escapes(t)[i] => i + 1 \in 1..k
    BY <1>2
  <2>. QED BY <1>1, <2>1, <2>2 DEF Clean
<1>. QED BY <1>2, <1>3 DEF Clean

-----------------------------------------------------------------------------
(* Types.                                                                  *)
LEMMA TextsAre == \A s : s \in Texts <=> s \in Seq(Char) /\ Len(s) <= MaxSource
<1>1. MaxSource \in Nat
  BY LiteralsAssumption
<1>2. ASSUME NEW s \in Texts PROVE s \in Seq(Char) /\ Len(s) <= MaxSource
  <2>1. PICK n \in 0..MaxSource : s \in [1..n -> Char]
    BY DEF Texts
  <2>. QED BY <1>1, <2>1
<1>3. ASSUME NEW s \in Seq(Char), Len(s) <= MaxSource PROVE s \in Texts
  <2>1. s \in [1..Len(s) -> Char] /\ Len(s) \in 0..MaxSource
    BY <1>1, <1>3, LenProperties
  <2>. QED BY <2>1 DEF Texts
<1>. QED BY <1>2, <1>3

IsText == literal.kind = "string"

LiteralInv ==
  \/ literal.kind = "string" /\ source \in Seq(Char) /\ Len(source) <= MaxSource
  \/ literal.kind = "decimal" /\ literal.digits \in Digits(Dec)
  \/ literal.kind = "hex" /\ literal.digits \in Digits(Hex)

(* The search never starts beyond the terminator of the text it began      *)
(* with: where it is two characters ahead, the text has shrunk.            *)
TextInv ==
  /\ token \in Seq(Char) /\ text \in Seq(Char) /\ at \in Nat \ {0}
  /\ Len(token) < at /\ Len(text) <= Len(token)
  /\ idx \in 1..(Len(text) + 1) \/ (idx = Len(text) + 2 /\ Len(text) < Len(token))
  /\ IsText => at <= Len(source) + 1
  /\ ~IsText => at = 1
  /\ failed \in BOOLEAN
  /\ state \in {"lexing", "rejected", "generating", "generated", "aborted"}
  /\ state = "lexing" => text = <<>> /\ idx = 1

LEMMA TakeIs ==
  ASSUME LiteralInv, TextInv, IsText, NEW n \in {1, 2}, at + n - 1 <= Len(source), Take(n)
  PROVE  /\ token' \in Seq(Char) /\ Len(token') = Len(token) + n
         /\ \A i \in 1..Len(token) : token'[i] = token[i]
         /\ token'[Len(token) + 1] = source[at]
         /\ n = 2 => token'[Len(token) + 2] = source[at + 1]
         /\ at' = at + n
<1>. DEFINE t == SubSeq(source, at, at + n - 1)
<1>1. token' = token \o t /\ at' = at + n
  BY DEF Take
<1>2. /\ source \in Seq(Char) /\ at \in Int /\ at + n - 1 \in Int /\ at <= at + n - 1
      /\ (at + n - 1) - at + 1 = n /\ token \in Seq(Char) /\ Len(token) \in Nat
  BY DEF LiteralInv, TextInv, IsText
<1>3. \A i \in at..(at + n - 1) : source[i] \in Char
  BY <1>2 DEF TextInv
<1>4. t \in Seq(Char) /\ Len(t) = n /\ \A i \in 1..n : t[i] = source[at + i - 1]
  BY <1>2, <1>3, SubSeqProperties
<1>. HIDE DEF t
<1>5. /\ token \o t \in Seq(Char) /\ Len(token \o t) = Len(token) + n
      /\ \A i \in 1..(Len(token) + n) :
           (token \o t)[i] = IF i <= Len(token) THEN token[i] ELSE t[i - Len(token)]
  BY <1>2, <1>4, ConcatProperties
<1>6. t[1] = source[at] /\ (n = 2 => t[2] = source[at + 1])
  <2>1. at + 1 - 1 = at /\ at + 2 - 1 = at + 1 /\ 1 \in 1..n /\ (n = 2 => 2 \in 1..n)
    BY <1>2
  <2>. QED BY <1>4, <2>1
<1>7. \A i \in 1..Len(token) : (token \o t)[i] = token[i]
  BY <1>2, <1>5
<1>8. (token \o t)[Len(token) + 1] = t[1]
  <2>1. Len(token) + 1 \in 1..(Len(token) + n) /\ (Len(token) + 1) - Len(token) = 1
        /\ ~(Len(token) + 1 <= Len(token))
    BY <1>2
  <2>. QED BY <1>5, <2>1
<1>9. n = 2 => (token \o t)[Len(token) + 2] = t[2]
  <2>1. n = 2 => Len(token) + 2 \in 1..(Len(token) + n) /\ (Len(token) + 2) - Len(token) = 2
                 /\ ~(Len(token) + 2 <= Len(token))
    BY <1>2
  <2>. QED BY <1>5, <2>1
<1>. QED BY <1>1, <1>5, <1>6, <1>7, <1>8, <1>9

LEMMA PeekIs ==
  ASSUME NEW s \in Seq(Char), NEW i \in Nat \ {0}
  PROVE  /\ i <= Len(s) => i \in DOMAIN s /\ Peek(s, i) = s[i] /\ s[i] \in Char
         /\ i > Len(s) => Peek(s, i) = "end"
         /\ Peek(s, i) = "end" <=> i > Len(s)
         /\ Peek(s, i) # "end" => i <= Len(s) /\ Peek(s, i) = s[i]
<1>1. i \in DOMAIN s <=> i <= Len(s)
  OBVIOUS
<1>2. i <= Len(s) => s[i] \in Char
  OBVIOUS
<1>. QED BY <1>1, <1>2 DEF Peek, Char

(* What the lexer reads in one step.                                       *)
LEMMA LexerReads ==
  ASSUME LiteralInv, TextInv, IsText
  PROVE  /\ source \in Seq(Char) /\ at \in 1..(Len(source) + 1) /\ Len(source) \in Nat
         /\ AllowedChars =>
              /\ failed' = failed
              /\ \/ /\ at <= Len(source) /\ source[at] \in {"n", "plain"} /\ Take(1)
                 \/ /\ at + 1 <= Len(source) /\ source[at] = "backslash"
                    /\ source[at + 1] \in Escapable /\ Take(2)
         /\ IllegalNewline =>
              /\ failed' /\ at <= Len(source) /\ source[at] \in {"cr", "lf"}
              /\ Take(1) \/ (at + 1 <= Len(source) /\ Take(2))
         /\ IllegalEscape =>
              /\ failed' /\ at + 1 <= Len(source) /\ source[at] = "backslash"
              /\ source[at + 1] \notin Escapable /\ Take(2)
         /\ Unrecognized =>
              /\ at <= Len(source)
              /\ \/ source[at] = "cr" /\ Peek(source, at + 1) # "lf"
                 \/ source[at] = "backslash" /\ at = Len(source)
              /\ at' = IF at = Len(source) THEN at + 1 ELSE at + 2
              /\ UNCHANGED <<literal, token, failed, text, idx, value, state>>
         /\ Unterminated => at = Len(source) + 1
         /\ Terminated => at <= Len(source) /\ source[at] = "quote"
<1>1. source \in Seq(Char) /\ at \in 1..(Len(source) + 1) /\ Len(source) \in Nat
  BY DEF LiteralInv, TextInv, IsText
<1>2. /\ at <= Len(source) => here = source[at] /\ source[at] \in Char
      /\ here = "end" <=> at = Len(source) + 1
      /\ here # "end" => at <= Len(source) /\ here = source[at]
  BY <1>1, PeekIs DEF here
<1>3. /\ after = "end" <=> at + 1 > Len(source)
      /\ after # "end" => at + 1 <= Len(source) /\ after = source[at + 1]
      /\ after = Peek(source, at + 1)
  BY <1>1, PeekIs DEF after
<1>4. AllowedChars =>
        /\ failed' = failed
        /\ \/ /\ at <= Len(source) /\ source[at] \in {"n", "plain"} /\ Take(1)
           \/ /\ at + 1 <= Len(source) /\ source[at] = "backslash"
              /\ source[at + 1] \in Escapable /\ Take(2)
  BY <1>2, <1>3 DEF AllowedChars, Escapable
<1>5. IllegalNewline =>
        /\ failed' /\ at <= Len(source) /\ source[at] \in {"cr", "lf"}
        /\ Take(1) \/ (at + 1 <= Len(source) /\ Take(2))
  BY <1>2, <1>3 DEF IllegalNewline
<1>6. IllegalEscape =>
        /\ failed' /\ at + 1 <= Len(source) /\ source[at] = "backslash"
        /\ source[at + 1] \notin Escapable /\ Take(2)
  BY <1>2, <1>3 DEF IllegalEscape
<1>7. Unrecognized =>
        /\ at <= Len(source)
        /\ \/ source[at] = "cr" /\ Peek(source, at + 1) # "lf"
           \/ source[at] = "backslash" /\ at = Len(source)
        /\ at' = IF at = Len(source) THEN at + 1 ELSE at + 2
        /\ UNCHANGED <<literal, token, failed, text, idx, value, state>>
  <2>1. at <= Len(source) => (after = "end" <=> at = Len(source))
    BY <1>1, <1>3
  <2>. QED BY <1>2, <1>3, <2>1 DEF Unrecognized
<1>8. Unterminated => at = Len(source) + 1
  BY <1>2 DEF Unterminated
<1>9. Terminated => at <= Len(source) /\ source[at] = "quote"
  BY <1>2 DEF Terminated
<1>. QED BY <1>1, <1>4, <1>5, <1>6, <1>7, <1>8, <1>9

(* A string that the source holds is read to its end, one escape or one    *)
(* other character at a time; whatever is read without an error is clean.  *)
Copied(k) == Len(token) = k /\ \A i \in 1..k : token[i] = source[i]
Strings == {n \in 0..(Len(source) - 1) : IsString(source, n)}

ReadingInv ==
  /\ \A n \in Strings :
       ~failed /\ at <= n + 1 /\ ~Escapes(source)[at - 1] /\ Copied(at - 1)
  /\ ~failed =>
       /\ Clean(token, Len(token))
       /\ LoneReturn(source, at - 1) \/ at = Len(source) + 1 \/ Clean(source, at - 1)

HaveReadInv ==
  /\ \A n \in Strings : state # "rejected" /\ Copied(n)
  /\ state # "rejected" =>
       /\ Clean(token, Len(token))
       /\ Strings # {} \/ LoneReturn(source, at - 1)

ReadInv == IsText => IF state = "lexing" THEN ReadingInv ELSE HaveReadInv

LEMMA AtString ==
  ASSUME LiteralInv, TextInv, IsText, ReadingInv, NEW n \in Strings
  PROVE  /\ at \in 1..Len(source) /\ n \in Nat /\ n + 1 <= Len(source)
         /\ source[n + 1] = "quote" /\ Clean(source, n)
         /\ at = n + 1 \/ (at \in 1..n /\ source[at] \notin {"cr", "lf", "quote"})
         /\ source[at] = "backslash" =>
              /\ Escapes(source)[at] /\ at + 1 \in 1..n /\ source[at + 1] \in Escapable
              /\ ~Escapes(source)[at + 1]
         /\ source[at] # "backslash" => ~Escapes(source)[at]
<1>1. source \in Seq(Char) /\ Len(source) \in Nat /\ n \in 0..(Len(source) - 1) /\ at \in Nat \ {0}
  BY DEF LiteralInv, TextInv, IsText, Strings
<1>2. source[n + 1] = "quote" /\ Clean(source, n)
  BY IsStringMeans DEF Strings
<1>3. at <= n + 1 /\ ~Escapes(source)[at - 1]
  BY DEF ReadingInv
<1>4. at \in 1..Len(source) /\ n \in Nat /\ n + 1 <= Len(source)
  BY <1>1, <1>3
<1>5. at = n + 1 \/ (at \in 1..n /\ source[at] \notin {"cr", "lf", "quote"})
  <2>1. at = n + 1 \/ at \in 1..n
    BY <1>1, <1>3
  <2>. QED BY <1>2, <1>3, <2>1 DEF Clean
<1>6. Escapes(source)[at] <=> source[at] = "backslash" /\ ~Escapes(source)[at - 1]
  BY <1>1, <1>4, EscapesAre
<1>7. ASSUME source[at] = "backslash"
      PROVE  /\ Escapes(source)[at] /\ at + 1 \in 1..n /\ source[at + 1] \in Escapable
             /\ ~Escapes(source)[at + 1]
  <2>1. Escapes(source)[at]
    BY <1>3, <1>6, <1>7
  <2>2. at \in 1..n
    BY <1>2, <1>5, <1>7
  <2>3. at # n
    BY <1>2, <2>1 DEF Clean
  <2>4. at + 1 \in 1..n /\ at + 1 \in 1..Len(source) /\ (at + 1) - 1 = at
    BY <1>1, <2>2, <2>3
  <2>5. source[at + 1] \in Escapable
    BY <1>2, <2>1, <2>2 DEF Clean
  <2>6. ~Escapes(source)[at + 1]
    BY <1>1, <2>1, <2>4, EscapesAre
  <2>. QED BY <2>1, <2>4, <2>5, <2>6
<1>. QED BY <1>2, <1>4, <1>5, <1>6, <1>7

LEMMA LaterReturn ==
  ASSUME NEW s, NEW k \in Int, NEW m \in Int, k <= m, LoneReturn(s, k)
  PROVE  LoneReturn(s, m)
BY DEF LoneReturn

LEMMA TakeText ==
  ASSUME LiteralInv, TextInv, IsText, state = "lexing", NEW n \in {1, 2}, at + n - 1 <= Len(source),
         Take(n), failed' \in BOOLEAN
  PROVE  /\ LiteralInv' /\ TextInv' /\ IsText' /\ Strings' = Strings /\ state' = "lexing"
         /\ source' = source
<1>1. UNCHANGED <<literal, text, idx, state>>
  BY DEF Take
<1>2. token' \in Seq(Char) /\ Len(token') = Len(token) + n /\ at' = at + n
  BY TakeIs
<1>3. LiteralInv' /\ IsText' /\ source' = source
  BY <1>1 DEF LiteralInv, IsText, source
<1>4. Strings' = Strings
  BY <1>3 DEF Strings
<1>5. Len(token) \in Nat /\ Len(text) \in Nat /\ Len(source) \in Nat
  BY DEF TextInv, LiteralInv, IsText
<1>6. TextInv'
  BY <1>1, <1>2, <1>3, <1>5 DEF TextInv
<1>. QED BY <1>1, <1>3, <1>4, <1>6

LEMMA CopiedMore ==
  ASSUME LiteralInv, TextInv, IsText, NEW n \in {1, 2}, at + n - 1 <= Len(source),
         Take(n), Copied(at - 1)
  PROVE  Copied(at - 1)'
<1>1. /\ Len(token') = Len(token) + n
      /\ \A i \in 1..Len(token) : token'[i] = token[i]
      /\ token'[Len(token) + 1] = source[at]
      /\ n = 2 => token'[Len(token) + 2] = source[at + 1]
      /\ at' = at + n
  BY TakeIs
<1>2. Len(token) = at - 1 /\ \A i \in 1..(at - 1) : token[i] = source[i]
  BY DEF Copied
<1>3. at \in Nat \ {0} /\ source' = source
  BY DEF TextInv, Take, source
<1>4. Len(token') = at' - 1 /\ at' - 1 = at + n - 1
  BY <1>1, <1>2, <1>3
<1>5. ASSUME NEW i \in 1..(at + n - 1) PROVE token'[i] = source[i]
  <2>1. i \in 1..(at - 1) \/ i = at \/ (n = 2 /\ i = at + 1)
    BY <1>3
  <2>2. Len(token) + 1 = at /\ Len(token) + 2 = at + 1
    BY <1>2, <1>3
  <2>. QED BY <1>1, <1>2, <2>1, <2>2
<1>. QED BY <1>3, <1>4, <1>5 DEF Copied

LEMMA AllowedCharsRead ==
  ASSUME LiteralInv, TextInv, ReadInv, AllowedChars
  PROVE  LiteralInv' /\ TextInv' /\ ReadInv'
<1>1. IsText /\ state = "lexing" /\ ReadingInv
  BY DEF AllowedChars, Lexing, IsText, ReadInv
<1>2. /\ source \in Seq(Char) /\ at \in 1..(Len(source) + 1) /\ Len(source) \in Nat
      /\ failed' = failed /\ failed \in BOOLEAN
  BY <1>1, LexerReads DEF TextInv
<1>3. PICK n \in {1, 2} :
        /\ at + n - 1 <= Len(source) /\ Take(n)
        /\ n = 1 => source[at] \in {"n", "plain"}
        /\ n = 2 => source[at] = "backslash" /\ source[at + 1] \in Escapable
  <2>1. CASE at <= Len(source) /\ source[at] \in {"n", "plain"} /\ Take(1)
    <3>1. 1 \in {1, 2} /\ at + 1 - 1 <= Len(source)
      BY <1>2, <2>1
    <3>. QED BY <2>1, <3>1
  <2>2. CASE /\ at + 1 <= Len(source) /\ source[at] = "backslash"
             /\ source[at + 1] \in Escapable /\ Take(2)
    <3>1. 2 \in {1, 2} /\ at + 2 - 1 <= Len(source)
      BY <1>2, <2>2
    <3>. QED BY <2>2, <3>1
  <2>. QED BY <1>1, <2>1, <2>2, LexerReads
<1>4. /\ LiteralInv' /\ TextInv' /\ IsText' /\ Strings' = Strings /\ state' = "lexing"
      /\ source' = source
  BY <1>1, <1>2, <1>3, TakeText
<1>5. /\ token \in Seq(Char) /\ token' \in Seq(Char) /\ Len(token') = Len(token) + n
      /\ \A i \in 1..Len(token) : token'[i] = token[i]
      /\ token'[Len(token) + 1] = source[at]
      /\ n = 2 => token'[Len(token) + 2] = source[at + 1]
      /\ at' = at + n /\ Len(token) \in Nat
  BY <1>1, <1>3, TakeIs DEF TextInv
<1>6. ASSUME NEW m \in Strings
      PROVE  ~failed' /\ at' <= m + 1 /\ ~Escapes(source)[at' - 1] /\ Copied(at - 1)'
  <2>1. ~failed /\ Copied(at - 1) /\ at <= m + 1
    BY <1>1 DEF ReadingInv
  <2>2. Copied(at - 1)'
    BY <1>1, <1>3, <2>1, CopiedMore
  <2>3. m \in Nat /\ at # m + 1
    BY <1>1, <1>3, AtString DEF Escapable
  <2>4. CASE n = 1
    <3>1. ~Escapes(source)[at] /\ at' - 1 = at
      BY <1>1, <1>2, <1>3, <1>5, <2>4, AtString
    <3>. QED BY <1>2, <1>5, <2>1, <2>2, <2>3, <2>4, <3>1
  <2>5. CASE n = 2
    <3>1. ~Escapes(source)[at + 1] /\ at + 1 \in 1..m
      BY <1>1, <1>3, <2>5, AtString
    <3>2. at' - 1 = at + 1 /\ at' <= m + 1
      BY <1>2, <1>5, <2>3, <2>5, <3>1
    <3>. QED BY <1>2, <2>1, <2>2, <3>1, <3>2
  <2>. QED BY <2>4, <2>5
<1>7. ASSUME ~failed PROVE Clean(token', Len(token'))
  <2>1. Clean(token, Len(token))
    BY <1>1, <1>7 DEF ReadingInv
  <2>2. Clean(token', Len(token))
    BY <1>5, <2>1, CleanPrefix
  <2>3. CASE n = 1
    BY <1>3, <1>5, <2>2, <2>3, CleanOne
  <2>4. CASE n = 2
    BY SMTT(30), <1>3, <1>5, <2>2, <2>4, CleanTwo
  <2>. QED BY <2>3, <2>4
<1>8. ASSUME ~failed PROVE LoneReturn(source, at' - 1) \/ Clean(source, at' - 1)
  <2>1. at - 1 \in Nat /\ at' - 1 \in Int /\ at - 1 <= at' - 1
    BY <1>2, <1>5
  <2>2. CASE LoneReturn(source, at - 1)
    BY <2>1, <2>2, LaterReturn
  <2>3. CASE Clean(source, at - 1)
    <3>1. CASE n = 1
      <4>1. (at - 1) + 1 = at /\ at - 1 < Len(source) /\ at' - 1 = (at - 1) + 1
        BY <1>2, <1>3, <1>5, <3>1
      <4>. QED BY <1>2, <1>3, <2>1, <2>3, <3>1, <4>1, CleanOne
    <3>2. CASE n = 2
      <4>1. (at - 1) + 1 = at /\ (at - 1) + 2 = at + 1 /\ (at - 1) + 1 < Len(source)
            /\ at' - 1 = (at - 1) + 2
        BY <1>2, <1>3, <1>5, <3>2
      <4>. QED BY <1>2, <1>3, <2>1, <2>3, <3>2, <4>1, CleanTwo
    <3>. QED BY <3>1, <3>2
  <2>4. at # Len(source) + 1
    BY <1>2, <1>3
  <2>. QED BY <1>1, <1>8, <2>2, <2>3, <2>4 DEF ReadingInv
<1>9. ReadingInv'
  BY <1>2, <1>4, <1>6, <1>7, <1>8 DEF ReadingInv
<1>. QED BY <1>4, <1>9 DEF ReadInv

LEMMA IllegalRead ==
  ASSUME LiteralInv, TextInv, ReadInv, IllegalNewline \/ IllegalEscape
  PROVE  LiteralInv' /\ TextInv' /\ ReadInv'
<1>1. IsText /\ state = "lexing" /\ ReadingInv /\ failed'
  BY DEF IllegalNewline, IllegalEscape, Lexing, IsText, ReadInv
<1>2. at \in 1..(Len(source) + 1) /\ Len(source) \in Nat
  BY <1>1, LexerReads
<1>3. PICK n \in {1, 2} : at + n - 1 <= Len(source) /\ Take(n)
  <2>1. \/ at <= Len(source) /\ Take(1)
        \/ at + 1 <= Len(source) /\ Take(2)
    BY <1>1, LexerReads
  <2>2. at + 1 - 1 = at /\ at + 2 - 1 = at + 1
    BY <1>2
  <2>. QED BY <2>1, <2>2
<1>4. failed' \in BOOLEAN
  BY DEF IllegalNewline, IllegalEscape
<1>5. /\ LiteralInv' /\ TextInv' /\ IsText' /\ Strings' = Strings /\ state' = "lexing"
  BY <1>1, <1>3, <1>4, TakeText
<1>6. Strings = {}
  <2>. SUFFICES ASSUME NEW m \in Strings PROVE FALSE
    OBVIOUS
  <2>1. source[at] \in {"cr", "lf"} \/ (source[at] = "backslash" /\ source[at + 1] \notin Escapable)
    BY <1>1, LexerReads
  <2>. QED BY <1>1, <2>1, AtString
<1>7. ReadingInv'
  BY <1>1, <1>5, <1>6 DEF ReadingInv
<1>. QED BY <1>5, <1>7 DEF ReadInv

LEMMA UnrecognizedRead ==
  ASSUME LiteralInv, TextInv, ReadInv, Unrecognized
  PROVE  LiteralInv' /\ TextInv' /\ ReadInv'
<1>1. IsText /\ state = "lexing" /\ ReadingInv
  BY DEF Unrecognized, Lexing, IsText, ReadInv
<1>2. /\ source \in Seq(Char) /\ Len(source) \in Nat /\ at \in 1..Len(source)
      /\ \/ source[at] = "cr" /\ Peek(source, at + 1) # "lf"
         \/ source[at] = "backslash" /\ at = Len(source)
      /\ at' = IF at = Len(source) THEN at + 1 ELSE at + 2
      /\ UNCHANGED <<literal, token, failed, text, idx, value, state>>
  BY <1>1, LexerReads
<1>3. /\ LiteralInv' /\ IsText' /\ source' = source /\ Strings' = Strings
  BY <1>1, <1>2 DEF LiteralInv, IsText, source, Strings
<1>4. at' <= Len(source) + 1 /\ at' \in Nat \ {0} /\ at <= at' - 1
  BY <1>2
<1>5. TextInv'
  BY <1>1, <1>2, <1>3, <1>4 DEF TextInv
<1>6. Strings = {}
  <2>. SUFFICES ASSUME NEW m \in Strings PROVE FALSE
    OBVIOUS
  <2>1. CASE source[at] = "cr"
    BY <1>1, <2>1, AtString
  <2>2. CASE source[at] = "backslash" /\ at = Len(source)
    <3>1. at + 1 \in 1..m /\ m + 1 <= Len(source) /\ m \in Nat
      BY <1>1, <2>2, AtString
    <3>. QED BY <1>2, <2>2, <3>1
  <2>. QED BY <1>2, <2>1, <2>2
<1>7. LoneReturn(source, at' - 1) \/ at' = Len(source) + 1
  <2>1. CASE source[at] = "cr" /\ Peek(source, at + 1) # "lf"
    <3>1. at \in 1..(at' - 1)
      BY <1>2, <1>4
    <3>. QED BY <2>1, <3>1 DEF LoneReturn
  <2>. QED BY <1>2, <2>1
<1>8. ReadingInv'
  <2>1. Clean(token', Len(token')) \/ failed'
    BY <1>1, <1>2 DEF ReadingInv
  <2>. QED BY <1>1, <1>2, <1>3, <1>6, <1>7, <2>1 DEF ReadingInv
<1>. QED BY <1>1, <1>2, <1>3, <1>5, <1>8 DEF ReadInv

LEMMA UnterminatedRead ==
  ASSUME LiteralInv, TextInv, ReadInv, Unterminated
  PROVE  LiteralInv' /\ TextInv' /\ ReadInv'
<1>1. IsText /\ state = "lexing" /\ ReadingInv
  BY DEF Unterminated, Lexing, IsText, ReadInv
<1>2. /\ at = Len(source) + 1 /\ Len(source) \in Nat
      /\ failed' = TRUE /\ state' = "rejected"
      /\ UNCHANGED <<literal, at, token, text, idx, value>>
  BY <1>1, LexerReads DEF Unterminated
<1>3. LiteralInv' /\ IsText' /\ source' = source /\ Strings' = Strings
  BY <1>1, <1>2 DEF LiteralInv, IsText, source, Strings
<1>4. TextInv'
  BY <1>2, <1>3 DEF TextInv
<1>5. Strings = {}
  BY <1>1, <1>2, AtString
<1>. QED BY <1>2, <1>3, <1>4, <1>5 DEF ReadInv, HaveReadInv

LEMMA TerminatedRead ==
  ASSUME LiteralInv, TextInv, ReadInv, Terminated
  PROVE  LiteralInv' /\ TextInv' /\ ReadInv'
<1>1. IsText /\ state = "lexing" /\ ReadingInv
  BY DEF Terminated, Lexing, IsText, ReadInv
<1>2. /\ source \in Seq(Char) /\ Len(source) \in Nat /\ at \in 1..Len(source) /\ source[at] = "quote"
      /\ state' = (IF failed THEN "rejected" ELSE "generating")
      /\ at' = at + 1 /\ text' = token
      /\ UNCHANGED <<literal, token, failed, idx, value>>
  BY <1>1, LexerReads DEF Terminated
<1>3. LiteralInv' /\ IsText' /\ source' = source /\ Strings' = Strings
  BY <1>1, <1>2 DEF LiteralInv, IsText, source, Strings
<1>4. idx = 1 /\ token \in Seq(Char) /\ Len(token) \in Nat /\ Len(token) < at
  BY <1>1 DEF TextInv
<1>5. TextInv'
  BY <1>2, <1>3, <1>4 DEF TextInv
<1>6. ASSUME NEW n \in Strings PROVE ~failed /\ Copied(n)
  <2>1. at = n + 1 /\ n \in Nat
    BY <1>1, <1>2, AtString
  <2>2. ~failed /\ Copied(at - 1)
    BY <1>1 DEF ReadingInv
  <2>3. at - 1 = n
    BY <2>1
  <2>. QED BY <2>2, <2>3
<1>7. ASSUME ~failed PROVE Clean(token, Len(token)) /\ (Strings # {} \/ LoneReturn(source, at))
  <2>1. CASE LoneReturn(source, at - 1)
    <3>1. LoneReturn(source, at)
      BY <1>2, <2>1, LaterReturn
    <3>. QED BY <1>1, <1>7, <3>1 DEF ReadingInv
  <2>2. CASE Clean(source, at - 1)
    <3>1. at - 1 \in 0..(Len(source) - 1) /\ (at - 1) + 1 = at
      BY <1>2
    <3>2. at - 1 \in Strings
      BY <1>2, <2>2, <3>1, IsStringMeans DEF Strings
    <3>. QED BY <1>1, <1>7, <3>2 DEF ReadingInv
  <2>. QED BY <1>1, <1>2, <1>7, <2>1, <2>2 DEF ReadingInv
<1>8. at' - 1 = at
  BY <1>2
<1>9. HaveReadInv'
  <2>1. ASSUME NEW n \in Strings PROVE state' # "rejected" /\ Copied(n)'
    BY <1>2, <1>3, <1>6 DEF Copied
  <2>2. ASSUME state' # "rejected"
        PROVE  /\ Clean(token', Len(token'))
               /\ Strings # {} \/ LoneReturn(source, at' - 1)
    BY <1>2, <1>7, <1>8, <2>2
  <2>. QED BY <1>3, <2>1, <2>2 DEF HaveReadInv
<1>. QED BY <1>2, <1>3, <1>5, <1>9 DEF ReadInv

(* Later steps leave what was read alone.                                  *)
LEMMA ReadStays ==
  ASSUME LiteralInv, ReadInv, UNCHANGED <<literal, at, token, failed>>,
         IsText => (state = "lexing" <=> state' = "lexing")
                   /\ (state = "rejected" <=> state' = "rejected")
  PROVE  LiteralInv' /\ ReadInv'
<1>1. LiteralInv' /\ IsText' = IsText /\ source' = source /\ Strings' = Strings
  BY DEF LiteralInv, IsText, source, Strings
<1>2. \A n : Copied(n)' = Copied(n)
  BY <1>1 DEF Copied
<1>. QED BY <1>1, <1>2 DEF ReadInv, ReadingInv, HaveReadInv

-----------------------------------------------------------------------------
(* The generator's steps, character by character.                          *)
LEMMA ReplaceIs ==
  ASSUME TextInv, Replace
  PROVE  \E i \in 1..(Len(text) - 1) :
           /\ i >= idx /\ text[i] = "backslash" /\ text[i + 1] \in Escapable
           /\ \A j \in idx..(i - 1) : text[j] # "backslash"
           /\ text' \in Seq(Char) /\ Len(text') = Len(text) - 1
           /\ \A k \in 1..(i - 1) : text'[k] = text[k]
           /\ text'[i] = Replacement(text[i + 1])
           /\ \A k \in (i + 1)..(Len(text) - 1) : text'[k] = text[k + 1]
           /\ idx' = i + 2
<1>1. text \in Seq(Char) /\ Len(text) \in Nat
  BY DEF TextInv
<1>2. PICK i \in DOMAIN text :
        /\ Found(i) /\ Peek(text, i + 1) \in Escapable
        /\ text' = SubSeq(text, 1, i - 1) \o <<Replacement(text[i + 1])>>
                     \o SubSeq(text, i + 2, Len(text))
        /\ idx' = i + 2
  BY DEF Replace, NextIdx
<1>3. i \in 1..Len(text) /\ i + 1 \in Nat \ {0}
  BY <1>1
<1>4. i + 1 <= Len(text) /\ text[i + 1] \in Escapable
  BY <1>1, <1>2, <1>3, PeekIs DEF Escapable
<1>5. Replacement(text[i + 1]) \in Char
  BY <1>4 DEF Replacement, Escapable, Char
<1>. DEFINE a == SubSeq(text, 1, i - 1)
            b == <<Replacement(text[i + 1])>>
            c == SubSeq(text, i + 2, Len(text))
<1>6. a \in Seq(Char) /\ Len(a) = i - 1 /\ \A k \in 1..(i - 1) : a[k] = text[k]
  <2>1. 1 \in Int /\ i - 1 \in Int /\ \A k \in 1..(i - 1) : text[k] \in Char
    BY <1>1, <1>3
  <2>2. /\ a \in Seq(Char) /\ Len(a) = IF 1 <= i - 1 THEN (i - 1) - 1 + 1 ELSE 0
        /\ \A k \in 1..((i - 1) - 1 + 1) : a[k] = text[1 + k - 1]
    BY <2>1, SubSeqProperties
  <2>3. (i - 1) - 1 + 1 = i - 1 /\ (~(1 <= i - 1) => i - 1 = 0)
        /\ \A k \in 1..(i - 1) : 1 + k - 1 = k
    BY <1>3
  <2>. HIDE DEF a
  <2>4. Len(a) = i - 1
    BY <2>2, <2>3
  <2>. QED BY <2>2, <2>3, <2>4
<1>7. b \in Seq(Char) /\ Len(b) = 1 /\ b[1] = Replacement(text[i + 1])
  BY <1>5
<1>8. /\ c \in Seq(Char) /\ Len(c) = Len(text) - i - 1
      /\ \A k \in 1..(Len(text) - i - 1) : c[k] = text[i + 1 + k]
  <2>1. i + 2 \in Int /\ Len(text) \in Int /\ \A k \in (i + 2)..Len(text) : text[k] \in Char
    BY <1>1, <1>3
  <2>2. /\ c \in Seq(Char) /\ Len(c) = IF i + 2 <= Len(text) THEN Len(text) - (i + 2) + 1 ELSE 0
        /\ \A k \in 1..(Len(text) - (i + 2) + 1) : c[k] = text[(i + 2) + k - 1]
    BY SMTT(30), <2>1, SubSeqProperties
  <2>3. Len(text) - (i + 2) + 1 = Len(text) - i - 1
        /\ (~(i + 2 <= Len(text)) => Len(text) - i - 1 = 0)
        /\ \A k \in 1..(Len(text) - i - 1) : (i + 2) + k - 1 = i + 1 + k
    BY SMTT(30), <1>1, <1>3, <1>4
  <2>. HIDE DEF c
  <2>4. Len(c) = Len(text) - i - 1
    BY <2>2, <2>3
  <2>. QED BY <2>2, <2>3, <2>4
<1>9. text' = (a \o b) \o c
  BY <1>2
<1>. HIDE DEF a, b, c
<1>10. /\ a \o b \in Seq(Char) /\ Len(a \o b) = i
       /\ \A k \in 1..(i - 1) : (a \o b)[k] = text[k]
       /\ (a \o b)[i] = Replacement(text[i + 1])
  <2>1. /\ a \o b \in Seq(Char) /\ Len(a \o b) = Len(a) + Len(b)
        /\ \A k \in 1..(Len(a) + Len(b)) :
             (a \o b)[k] = IF k <= Len(a) THEN a[k] ELSE b[k - Len(a)]
    BY <1>6, <1>7, ConcatProperties
  <2>2. Len(a) + Len(b) = i /\ i - Len(a) = 1 /\ ~(i <= Len(a)) /\ i \in 1..i
        /\ \A k \in 1..(i - 1) : k <= Len(a) /\ k \in 1..i
    BY <1>3, <1>6, <1>7
  <2>3. Len(a \o b) = i
    BY <2>1, <2>2
  <2>4. \A k \in 1..(i - 1) : (a \o b)[k] = text[k]
    BY <1>6, <2>1, <2>2
  <2>5. (a \o b)[i] = Replacement(text[i + 1])
    BY <1>7, <2>1, <2>2
  <2>. QED BY <2>1, <2>3, <2>4, <2>5
<1>11. PICK ab : ab = a \o b
  OBVIOUS
<1>12. text' \in Seq(Char) /\ Len(text') = Len(text) - 1
       /\ \A k \in 1..(Len(text) - 1) : text'[k] = IF k <= i THEN ab[k] ELSE c[k - i]
  <2>1. ab \in Seq(Char) /\ Len(ab) = i /\ text' = ab \o c
    BY <1>9, <1>10, <1>11
  <2>2. /\ ab \o c \in Seq(Char) /\ Len(ab \o c) = Len(ab) + Len(c)
        /\ \A k \in 1..(Len(ab) + Len(c)) :
             (ab \o c)[k] = IF k <= Len(ab) THEN ab[k] ELSE c[k - Len(ab)]
    BY <1>8, <2>1, ConcatProperties
  <2>3. Len(ab) + Len(c) = Len(text) - 1
    <3>1. Len(ab) = i /\ Len(c) = Len(text) - i - 1 /\ i \in Int /\ Len(text) \in Int
      BY <1>1, <1>3, <1>8, <2>1
    <3>. QED BY <3>1
  <2>. QED BY <2>1, <2>2, <2>3
<1>14. i \in 1..(Len(text) - 1)
  BY <1>1, <1>3, <1>4
<1>15. ASSUME NEW k \in 1..(i - 1) PROVE text'[k] = text[k]
  <2>1. k \in 1..(Len(text) - 1) /\ k <= i
    BY <1>1, <1>14
  <2>. QED BY <1>10, <1>11, <1>12, <2>1
<1>16. text'[i] = Replacement(text[i + 1])
  <2>1. i <= i
    BY <1>14
  <2>. QED BY <1>10, <1>11, <1>12, <1>14, <2>1
<1>17. ASSUME NEW k \in (i + 1)..(Len(text) - 1) PROVE text'[k] = text[k + 1]
  <2>1. k \in 1..(Len(text) - 1) /\ ~(k <= i) /\ k - i \in 1..(Len(text) - i - 1)
        /\ i + 1 + (k - i) = k + 1
    BY <1>1, <1>3
  <2>. QED BY <1>8, <1>12, <2>1
<1>. QED BY <1>2, <1>4, <1>12, <1>14, <1>15, <1>16, <1>17 DEF Found

LEMMA PassOverIs ==
  ASSUME TextInv, PassOver
  PROVE  \E i \in 1..Len(text) :
           /\ i >= idx /\ text[i] = "backslash"
           /\ i + 1 <= Len(text) => text[i + 1] \notin Escapable
           /\ \A j \in idx..(i - 1) : text[j] # "backslash"
           /\ idx' = i + 1 /\ text' = text
<1>1. text \in Seq(Char) /\ Len(text) \in Nat
  BY DEF TextInv
<1>2. PICK i \in DOMAIN text : Found(i) /\ Peek(text, i + 1) \notin Escapable /\ idx' = i + 1
  BY DEF PassOver
<1>3. i \in 1..Len(text) /\ i + 1 \in Nat \ {0}
  BY <1>1
<1>4. i + 1 <= Len(text) => text[i + 1] \notin Escapable
  BY <1>1, <1>2, <1>3, PeekIs
<1>5. text' = text
  BY DEF PassOver
<1>. QED BY <1>2, <1>3, <1>4, <1>5 DEF Found

LEMMA GeneratorText ==
  ASSUME TextInv, Replace \/ PassOver \/ EndString
  PROVE  /\ TextInv' /\ IsText /\ UNCHANGED <<literal, at, token, failed>>
         /\ state = "generating" /\ state' \in {"generating", "generated"}
<1>1. /\ UNCHANGED <<literal, at, token, failed>> /\ IsText
      /\ state = "generating" /\ state' \in {"generating", "generated"}
  BY DEF Replace, PassOver, EndString, Generating, IsText
<1>2. IsText' /\ source' = source
  BY <1>1 DEF IsText, source
<1>3. text \in Seq(Char) /\ Len(text) \in Nat /\ token \in Seq(Char) /\ Len(token) \in Nat
      /\ Len(text) <= Len(token) /\ idx \in Nat \ {0}
  BY DEF TextInv
<1>4. /\ text' \in Seq(Char) /\ Len(text') <= Len(token)
      /\ idx' \in 1..(Len(text') + 1) \/ (idx' = Len(text') + 2 /\ Len(text') < Len(token))
  <2>1. CASE Replace
    <3>1. PICK i \in 1..(Len(text) - 1) :
            text' \in Seq(Char) /\ Len(text') = Len(text) - 1 /\ idx' = i + 2
      BY <2>1, ReplaceIs
    <3>. QED BY <1>3, <3>1
  <2>2. CASE PassOver
    <3>1. PICK i \in 1..Len(text) : text' = text /\ idx' = i + 1
      BY <2>2, PassOverIs
    <3>. QED BY <1>3, <3>1
  <2>3. CASE EndString
    <3>1. text' = text /\ idx' = idx
      BY <2>3 DEF EndString
    <3>. QED BY <1>3, <3>1 DEF TextInv
  <2>. QED BY <2>1, <2>2, <2>3
<1>. QED BY <1>1, <1>2, <1>4 DEF TextInv

-----------------------------------------------------------------------------
(* std::stoi.                                                              *)
Prefixes(base, ds) == {k \in 0..Len(ds) : \A j \in 1..k : ds[j] < base}

LEMMA LongestPrefix ==
  ASSUME NEW base, NEW ds \in Seq(Nat)
  PROVE  /\ Max(Prefixes(base, ds)) \in Prefixes(base, ds)
         /\ \A k \in Prefixes(base, ds) : k <= Max(Prefixes(base, ds))
<1>. DEFINE P == Prefixes(base, ds)
            n == Len(ds)
<1>1. n \in Nat /\ 0 \in P /\ \A k \in P : k \in 0..n
  BY DEF Prefixes
<1>2. \E m \in P : \A k \in P : m >= k
  <2>. SUFFICES ASSUME \A m \in P : \E k \in P : ~(m >= k) PROVE FALSE
    OBVIOUS
  <2>. DEFINE S == {i \in 0..(n + 1) : \E k \in P : k >= i}
  <2>. HIDE DEF P, n
  <2>1. 0 \in S
    BY <1>1
  <2>2. ASSUME NEW i \in 0..((n + 1) - 1), i \in S PROVE i + 1 \in S
    <3>1. PICK k \in P : k >= i
      BY <2>2
    <3>2. PICK l \in P : ~(k >= l)
      OBVIOUS
    <3>3. l >= i + 1 /\ i + 1 \in 0..(n + 1)
      BY <1>1, <3>1, <3>2
    <3>. QED BY <3>3
  <2>3. \A i \in 0..(n + 1) : i \in S
    <3>1. n + 1 \in Nat
      BY <1>1
    <3>. HIDE DEF S
    <3>. QED BY <2>1, <2>2, <3>1, UpTo
  <2>4. n + 1 \in 0..(n + 1)
    BY <1>1
  <2>5. PICK k \in P : k >= n + 1
    BY <2>3, <2>4
  <2>. QED BY <1>1, <2>5
<1>3. Max(P) = CHOOSE m \in P : \A k \in P : m >= k
  BY DEF Max
<1>4. Max(P) \in P /\ \A k \in P : Max(P) >= k
  <2>. HIDE DEF P
  <2>. QED BY <1>2, <1>3
<1>5. \A k \in P : k <= Max(P)
  BY <1>1, <1>4
<1>. QED BY <1>4, <1>5

LEMMA PrefixIs ==
  ASSUME NEW base, NEW ds \in Seq(Nat), NEW n, n = Max(Prefixes(base, ds))
  PROVE  n \in 0..Len(ds) /\ n \in Nat /\ \A j \in 1..n : ds[j] < base
<1>1. \A k \in Prefixes(base, ds) : k \in 0..Len(ds) /\ \A j \in 1..k : ds[j] < base
  BY DEF Prefixes
<1>2. n \in Prefixes(base, ds)
  BY LongestPrefix
<1>3. Len(ds) \in Nat
  OBVIOUS
<1>. QED BY <1>1, <1>2, <1>3

Reads(base, ds, r, n) == r = [k \in 0..n |-> IF k = 0 THEN 0 ELSE r[k - 1] * base + ds[k]]

LEMMA StoiIs ==
  ASSUME NEW base \in Nat, NEW ds \in Seq(Nat)
  PROVE  \E r \in [0..Max(Prefixes(base, ds)) -> Nat] :
           /\ Stoi(base, ds) = r[Max(Prefixes(base, ds))]
           /\ r[0] = 0
           /\ \A k \in 1..Max(Prefixes(base, ds)) : r[k] = r[k - 1] * base + ds[k]
<1>. DEFINE n == Max(Prefixes(base, ds))
            F == [k \in 1..n |-> [v \in Nat |-> v * base + ds[k]]]
            read == CHOOSE r : Reads(base, ds, r, n)
<1>1. n \in 0..Len(ds) /\ n \in Nat
  BY PrefixIs
<1>2. n \in Nat /\ \A k \in 1..n : ds[k] \in Nat
  <2>1. Len(ds) \in Nat /\ \A k \in 1..Len(ds) : ds[k] \in Nat
    OBVIOUS
  <2>. HIDE DEF n
  <2>. QED BY <1>1, <2>1
<1>3. Stoi(base, ds) = read[n]
  BY DEF Stoi, Prefixes, Reads
<1>. HIDE DEF n, read
<1>4. F \in [1..n -> [Nat -> Nat]] /\ 0 \in Nat
  BY <1>2
<1>5. PICK f : Applied(Nat, 0, F, f, n)
  <2>. HIDE DEF F
  <2>. QED BY <1>2, <1>4, Iterated
<1>6. f \in [0..n -> Nat] /\ f[0] = 0
  BY <1>5 DEF Applied
<1>7. ASSUME NEW k \in 1..n PROVE f[k] = f[k - 1] * base + ds[k]
  <2>1. f[k] = F[k][f[k - 1]]
    <3>. HIDE DEF F
    <3>. QED BY <1>5 DEF Applied
  <2>2. k - 1 \in 0..n
    BY <1>2
  <2>3. f[k - 1] \in Nat
    BY <1>6, <2>2
  <2>. QED BY <2>1, <2>3
<1>8. Reads(base, ds, f, n)
  <2>1. \A k \in 0..n : f[k] = IF k = 0 THEN 0 ELSE f[k - 1] * base + ds[k]
    BY <1>2, <1>6, <1>7
  <2>. QED BY <1>6, <2>1 DEF Reads
<1>9. Reads(base, ds, read, n)
  BY <1>8 DEF read
<1>10. /\ read = [k \in 0..n |-> read[k]] /\ read[0] = 0
       /\ \A k \in 1..n : read[k] = read[k - 1] * base + ds[k]
  <2>1. read = [k \in 0..n |-> IF k = 0 THEN 0 ELSE read[k - 1] * base + ds[k]]
    BY <1>9 DEF Reads
  <2>2. \A k \in 0..n : read[k] = IF k = 0 THEN 0 ELSE read[k - 1] * base + ds[k]
    BY <2>1
  <2>3. read = [k \in 0..n |-> read[k]]
    BY <2>1, <2>2
  <2>4. 0 \in 0..n /\ \A k \in 1..n : k \in 0..n /\ k # 0
    BY <1>2
  <2>. QED BY <2>2, <2>3, <2>4
<1>11. \A k \in 0..n : read[k] \in Nat
  <2>. DEFINE S == {k \in 0..n : read[k] \in Nat}
  <2>1. 0 \in S
    BY <1>2, <1>10
  <2>2. ASSUME NEW k \in 0..(n - 1), k \in S PROVE k + 1 \in S
    <3>1. k + 1 \in 1..n /\ k + 1 \in 0..n /\ (k + 1) - 1 = k
      BY <1>2
    <3>2. read[k + 1] = read[k] * base + ds[k + 1]
      BY <1>10, <3>1
    <3>3. read[k] \in Nat /\ ds[k + 1] \in Nat
      BY <1>2, <2>2, <3>1
    <3>4. \A x, y, z \in Nat : x * y + z \in Nat
      OBVIOUS
    <3>5. read[k + 1] \in Nat
      BY <3>2, <3>3, <3>4
    <3>. QED BY <3>1, <3>5
  <2>3. \A k \in 0..n : k \in S
    <3>. HIDE DEF S
    <3>. QED BY <1>2, <2>1, <2>2, UpTo
  <2>. QED BY <2>3
<1>12. read \in [0..n -> Nat]
  BY <1>10, <1>11
<1>. QED BY <1>3, <1>10, <1>12 DEF n

LEMMA StoiType ==
  ASSUME NEW base \in Nat, NEW ds \in Seq(Nat)
  PROVE  Stoi(base, ds) \in Nat
<1>. DEFINE n == Max(Prefixes(base, ds))
<1>1. n \in 0..n
  <2>1. n \in Nat
    BY PrefixIs
  <2>. QED BY <2>1
<1>2. PICK r \in [0..n -> Nat] : Stoi(base, ds) = r[n]
  BY StoiIs
<1>. HIDE DEF n
<1>. QED BY <1>1, <1>2

(* The same digits are no less in a larger base.                           *)
LEMMA StoiGrows ==
  ASSUME NEW b \in Nat, NEW c \in Nat, 0 < b, b <= c, NEW ds \in Seq(Nat)
  PROVE  Stoi(b, ds) <= Stoi(c, ds)
<1>. DEFINE m == Max(Prefixes(b, ds))
            n == Max(Prefixes(c, ds))
<1>1. \A k \in 1..Len(ds) : ds[k] \in Nat
  OBVIOUS
<1>2. m \in 0..Len(ds) /\ n \in 0..Len(ds) /\ Len(ds) \in Nat /\ m \in Nat /\ n \in Nat
  BY PrefixIs
<1>3. m <= n
  <2>1. \A j \in 1..m : ds[j] < b
    BY PrefixIs
  <2>2. \A j \in 1..m : ds[j] < c
    <3>. HIDE DEF m, n
    <3>. QED BY <1>1, <1>2, <2>1
  <2>3. m \in Prefixes(c, ds)
    BY <1>2, <2>2 DEF Prefixes
  <2>. QED BY <2>3, LongestPrefix
<1>4. PICK r \in [0..m -> Nat] :
        Stoi(b, ds) = r[m] /\ r[0] = 0 /\ \A k \in 1..m : r[k] = r[k - 1] * b + ds[k]
  BY StoiIs
<1>5. PICK q \in [0..n -> Nat] :
        Stoi(c, ds) = q[n] /\ q[0] = 0 /\ \A k \in 1..n : q[k] = q[k - 1] * c + ds[k]
  BY StoiIs
<1>. HIDE DEF m, n
<1>6. \A x, y, z \in Nat : x <= y => x * b + z <= y * c + z
  <2>1. \A x, y \in Nat : x <= y => x * b <= y * b
    OBVIOUS
  <2>2. \A y \in Nat : y * b <= y * c
    OBVIOUS
  <2>3. \A x, y \in Nat : x * y \in Nat
    OBVIOUS
  <2>4. ASSUME NEW x \in Nat, NEW y \in Nat, NEW z \in Nat, x <= y PROVE x * b + z <= y * c + z
    <3>1. x * b \in Nat /\ y * b \in Nat /\ y * c \in Nat
      BY <2>3
    <3>2. x * b <= y * b /\ y * b <= y * c
      BY <2>1, <2>2, <2>4
    <3>. QED BY <3>1, <3>2
  <2>. QED BY <2>4
<1>7. \A k \in 0..m : r[k] <= q[k]
  <2>. DEFINE S == {k \in 0..m : r[k] <= q[k]}
  <2>1. 0 \in S
    BY <1>2, <1>4, <1>5
  <2>2. ASSUME NEW k \in 0..(m - 1), k \in S PROVE k + 1 \in S
    <3>1. /\ k + 1 \in 1..m /\ k + 1 \in 1..n /\ (k + 1) - 1 = k /\ k + 1 \in 0..m
          /\ k \in 0..m /\ k \in 0..n /\ k + 1 \in 1..Len(ds)
      BY <1>2, <1>3
    <3>2. r[k + 1] = r[k] * b + ds[k + 1] /\ q[k + 1] = q[k] * c + ds[k + 1]
      BY <1>4, <1>5, <3>1
    <3>3. r[k] \in Nat /\ q[k] \in Nat /\ ds[k + 1] \in Nat /\ r[k] <= q[k]
      BY <1>1, <2>2, <3>1
    <3>. QED BY <1>6, <3>1, <3>2, <3>3
  <2>3. \A k \in 0..m : k \in S
    <3>. HIDE DEF S
    <3>. QED BY <1>2, <2>1, <2>2, UpTo
  <2>. QED BY <2>3
<1>8. \A k \in m..n : q[m] <= q[k]
  <2>. DEFINE S == {k \in 0..n : k >= m => q[m] <= q[k]}
  <2>0. m \in 0..n /\ q[m] \in Nat
    BY <1>2, <1>3
  <2>1. 0 \in S
    BY <1>2, <2>0
  <2>2. ASSUME NEW k \in 0..(n - 1), k \in S PROVE k + 1 \in S
    <3>1. k + 1 \in 1..n /\ (k + 1) - 1 = k /\ k + 1 \in 0..n /\ k \in 0..n /\ k + 1 \in 1..Len(ds)
      BY <1>2
    <3>2. q[k + 1] = q[k] * c + ds[k + 1] /\ q[k] \in Nat /\ ds[k + 1] \in Nat
      BY <1>1, <1>5, <3>1
    <3>3. q[k] <= q[k + 1]
      <4>1. \A y \in Nat : y * b <= y * c /\ y <= y * b /\ y * b \in Nat /\ y * c \in Nat
        OBVIOUS
      <4>2. PICK y \in Nat : y = q[k]
        BY <3>2
      <4>3. PICK z \in Nat : z = y * c
        BY <4>1
      <4>4. y <= z
        <5>1. y * b \in Nat /\ y <= y * b /\ y * b <= z
          BY <4>1, <4>3
        <5>. QED BY <5>1
      <4>. QED BY SMTT(30), <3>2, <4>2, <4>3, <4>4
    <3>4. q[k + 1] \in Nat
      BY <3>1
    <3>5. CASE k >= m
      <4>1. q[m] <= q[k]
        BY <2>2, <3>5
      <4>. QED BY <2>0, <3>1, <3>2, <3>3, <3>4, <4>1
    <3>6. CASE k + 1 = m
      BY <2>0, <3>1, <3>6
    <3>7. k >= m \/ k + 1 = m \/ ~(k + 1 >= m)
      BY <1>2
    <3>. QED BY <3>1, <3>5, <3>6, <3>7
  <2>3. \A k \in 0..n : k \in S
    <3>. HIDE DEF S
    <3>. QED BY <1>2, <2>1, <2>2, UpTo
  <2>. QED BY <1>2, <2>3
<1>9. r[m] \in Nat /\ q[m] \in Nat /\ q[n] \in Nat /\ m \in 0..m /\ n \in m..n
  BY <1>2, <1>3
<1>10. r[m] <= q[m] /\ q[m] <= q[n]
  BY <1>7, <1>8, <1>9
<1>. QED BY <1>4, <1>5, <1>9, <1>10

IntInv ==
  /\ value \in 0..MaxInt
  /\ ~IsText =>
       /\ state \in {"generating", "generated", "aborted"} => LexerStoi <= MaxInt
       /\ state = "rejected" => LexerStoi > MaxInt
       /\ state = "generated" => value = GeneratorStoi
       /\ state = "aborted" => GeneratorStoi > MaxInt

LEMMA DigitsAre ==
  ASSUME LiteralInv, ~IsText
  PROVE  /\ literal.kind \in {"decimal", "hex"} /\ literal.digits \in Seq(Nat)
         /\ 0 < Oct /\ Oct <= Dec /\ Oct \in Nat /\ Dec \in Nat /\ Hex \in Nat /\ MaxInt \in Nat
         /\ LexerBase \in {Oct, Dec, Hex}
         /\ LexerStoi \in Nat /\ GeneratorStoi \in Nat
<1>1. 0 < Oct /\ Oct <= Dec /\ Oct \in Nat /\ Dec \in Nat /\ Hex \in Nat /\ MaxInt \in Nat /\ MaxDigits \in Nat
  BY LiteralsAssumption
<1>2. PICK base \in {Dec, Hex} : literal.kind \in {"decimal", "hex"} /\ literal.digits \in Digits(base)
  BY DEF LiteralInv, IsText
<1>3. PICK n \in 1..MaxDigits : literal.digits \in [1..n -> 0..(base - 1)]
  BY <1>2 DEF Digits
<1>4. literal.digits \in Seq(Nat)
  <2>1. n \in Nat /\ 0..(base - 1) \subseteq Nat
    BY <1>1, <1>2
  <2>2. literal.digits \in [1..n -> Nat]
    BY <1>3, <2>1
  <2>. QED BY <2>1, <2>2
<1>5. LexerBase \in {Oct, Dec, Hex}
  BY DEF LexerBase
<1>6. LexerBase \in Nat
  BY <1>1, <1>5
<1>7. LexerStoi \in Nat
  BY <1>4, <1>6, StoiType DEF LexerStoi
<1>8. Stoi(Dec, literal.digits) \in Nat
  BY <1>1, <1>4, StoiType
<1>9. GeneratorStoi \in Nat
  BY <1>8 DEF GeneratorStoi
<1>. QED BY <1>1, <1>2, <1>4, <1>5, <1>7, <1>9

LEMMA StoiStays ==
  ASSUME literal' = literal
  PROVE  /\ LexerStoi' = LexerStoi /\ GeneratorStoi' = GeneratorStoi /\ IsText' = IsText
         /\ LiteralInv' = LiteralInv /\ source' = source
<1>1. LexerBase' = LexerBase
  BY DEF LexerBase
<1>2. LexerStoi' = LexerStoi
  BY <1>1 DEF LexerStoi
<1>3. GeneratorStoi' = GeneratorStoi
  BY DEF GeneratorStoi
<1>. QED BY <1>2, <1>3 DEF IsText, LiteralInv, source

LEMMA CheckIntStep ==
  ASSUME LiteralInv, TextInv, ReadInv, IntInv, CheckInt
  PROVE  LiteralInv' /\ TextInv' /\ ReadInv' /\ IntInv'
<1>1. /\ ~IsText /\ state = "lexing" /\ failed' = (LexerStoi > MaxInt)
      /\ state' = (IF failed' THEN "rejected" ELSE "generating")
      /\ UNCHANGED <<literal, at, token, text, idx, value>>
  BY DEF CheckInt, IsText
<1>2. LiteralInv' /\ ~IsText' /\ source' = source /\ LexerStoi' = LexerStoi
  BY <1>1, StoiStays
<1>3. LexerStoi \in Nat /\ MaxInt \in Nat
  BY <1>1, DigitsAre
<1>4. failed' \in BOOLEAN /\ state' \in {"rejected", "generating"}
  BY <1>1
<1>5. TextInv'
  BY <1>1, <1>2, <1>4 DEF TextInv
<1>6. IntInv'
  <2>1. value' \in 0..MaxInt
    BY <1>1 DEF IntInv
  <2>2. CASE LexerStoi > MaxInt
    <3>1. state' = "rejected"
      BY <1>1, <2>2
    <3>. QED BY <1>2, <2>1, <2>2, <3>1 DEF IntInv
  <2>3. CASE LexerStoi <= MaxInt
    <3>1. ~(LexerStoi > MaxInt)
      BY <1>3, <2>3
    <3>2. state' = "generating"
      BY <1>1, <3>1
    <3>. QED BY <1>2, <2>1, <2>3, <3>2 DEF IntInv
  <2>. QED BY <1>3, <2>2, <2>3
<1>. QED BY <1>2, <1>5, <1>6 DEF ReadInv

LEMMA GenerateIntStep ==
  ASSUME LiteralInv, TextInv, ReadInv, IntInv, GenerateInt
  PROVE  LiteralInv' /\ TextInv' /\ ReadInv' /\ IntInv'
<1>1. /\ ~IsText /\ state = "generating"
      /\ \/ GeneratorStoi <= MaxInt /\ value' = GeneratorStoi /\ state' = "generated"
         \/ GeneratorStoi > MaxInt /\ UNCHANGED value /\ state' = "aborted"
      /\ UNCHANGED <<literal, at, token, failed, text, idx>>
  BY DEF GenerateInt, IsText
<1>2. /\ LiteralInv' /\ ~IsText' /\ source' = source
      /\ LexerStoi' = LexerStoi /\ GeneratorStoi' = GeneratorStoi
  BY <1>1, StoiStays
<1>3. GeneratorStoi \in Nat /\ MaxInt \in Nat
  BY <1>1, DigitsAre
<1>4. TextInv'
  BY <1>1, <1>2 DEF TextInv
<1>5. IntInv'
  BY <1>1, <1>2, <1>3 DEF IntInv
<1>. QED BY <1>2, <1>4, <1>5 DEF ReadInv

LEMMA IntStays ==
  ASSUME IntInv, IsText, UNCHANGED <<literal, value>>
  PROVE  IntInv'
<1>1. IsText'
  BY DEF IsText
<1>2. value' \in 0..MaxInt
  BY DEF IntInv
<1>. QED BY <1>1, <1>2 DEF IntInv

LitInv == LiteralInv /\ TextInv /\ ReadInv /\ IntInv

LEMMA InitLit == Init => LitInv
<1>. SUFFICES ASSUME Init PROVE LitInv
  OBVIOUS
<1>1. /\ literal \in [kind : {"string"}, chars : Texts]
                       \cup [kind : {"decimal"}, digits : Digits(Dec)]
                       \cup [kind : {"hex"}, digits : Digits(Hex)]
      /\ at = 1 /\ token = <<>> /\ failed = FALSE
      /\ text = <<>> /\ idx = 1 /\ value = 0
      /\ state = "lexing"
  BY DEF Init
<1>2. LiteralInv
  BY <1>1, TextsAre DEF LiteralInv, source
<1>3. token \in Seq(Char) /\ text \in Seq(Char) /\ Len(token) = 0 /\ Len(text) = 0
  BY <1>1
<1>4. TextInv
  <2>1. IsText => at <= Len(source) + 1
    <3>1. IsText => Len(source) \in Nat
      BY <1>2 DEF LiteralInv, IsText
    <3>. QED BY <1>1, <3>1
  <2>2. idx \in 1..(Len(text) + 1) /\ Len(token) < at /\ at \in Nat \ {0}
    BY <1>1, <1>3
  <2>3. /\ failed \in BOOLEAN
        /\ state \in {"lexing", "rejected", "generating", "generated", "aborted"}
        /\ state = "lexing" => text = <<>> /\ idx = 1
        /\ ~IsText => at = 1
    BY <1>1, Zenon
  <2>4. Len(text) <= Len(token)
    BY <1>3
  <2>. QED BY <1>3, <2>1, <2>2, <2>3, <2>4, Zenon DEF TextInv
<1>5. Clean(token, 0)
  <2>1. ~Escapes(token)[0]
    BY <1>3, EscapesAre
  <2>2. 1..0 = {}
    OBVIOUS
  <2>. QED BY <2>1, <2>2 DEF Clean
<1>6. ASSUME IsText PROVE ReadingInv
  <2>1. source \in Seq(Char) /\ Len(source) \in Nat /\ at - 1 = 0
    BY <1>1, <1>2, <1>6 DEF LiteralInv, IsText
  <2>2. ~Escapes(source)[0] /\ Clean(source, 0)
    BY <2>1, EscapesAre DEF Clean
  <2>3. Copied(0)
    BY <1>3 DEF Copied
  <2>4. \A n \in Strings : at <= n + 1
    BY <1>1, <2>1 DEF Strings
  <2>. QED BY <1>1, <1>3, <1>5, <2>1, <2>2, <2>3, <2>4 DEF ReadingInv
<1>7. MaxInt \in Nat
  BY LiteralsAssumption
<1>8. IntInv
  BY <1>1, <1>7 DEF IntInv
<1>. QED BY <1>1, <1>2, <1>4, <1>6, <1>8 DEF LitInv, ReadInv

LEMMA StepLit == LitInv /\ [Next]_vars => LitInv'
<1>. SUFFICES ASSUME LiteralInv, TextInv, ReadInv, IntInv, [Next]_vars
              PROVE  LiteralInv' /\ TextInv' /\ ReadInv' /\ IntInv'
  BY DEF LitInv
<1>1. CASE AllowedChars \/ IllegalNewline \/ IllegalEscape \/ Unrecognized \/ Unterminated \/ Terminated
  <2>1. IsText /\ UNCHANGED <<literal, value>>
    BY <1>1 DEF AllowedChars, IllegalNewline, IllegalEscape, Unrecognized, Unterminated, Terminated,
                Lexing, Take, IsText
  <2>. QED
    BY <1>1, <2>1, IntStays, AllowedCharsRead, IllegalRead, UnrecognizedRead, UnterminatedRead,
       TerminatedRead
<1>2. CASE Replace \/ PassOver \/ EndString
  <2>1. /\ TextInv' /\ IsText /\ UNCHANGED <<literal, at, token, failed>>
        /\ state = "generating" /\ state' \in {"generating", "generated"}
    BY <1>2, GeneratorText
  <2>2. value' = value
    BY <1>2 DEF Replace, PassOver, EndString
  <2>. QED BY <2>1, <2>2, ReadStays, IntStays
<1>3. CASE CheckInt \/ GenerateInt
  BY <1>3, CheckIntStep, GenerateIntStep
<1>4. CASE UNCHANGED vars
  <2>1. UNCHANGED <<literal, at, token, failed, text, idx, value, state>>
    BY <1>4 DEF vars
  <2>2. LiteralInv' /\ ReadInv'
    BY <2>1, ReadStays
  <2>3. TextInv' /\ IntInv'
    BY <2>1, StoiStays DEF TextInv, IntInv
  <2>. QED BY <2>2, <2>3
<1>. QED BY <1>1, <1>2, <1>3, <1>4 DEF Next

LEMMA LiteralInvariant == Spec => []LitInv
BY InitLit, StepLit, PTL DEF Spec

(* The lexer stays within the source, and the generator's search within    *)
(* the text it was given, however long they are.                           *)
THEOREM LiteralsTypeCorrect == Spec => []TypeOK
<1>1. LitInv => TypeOK
  <2>. SUFFICES ASSUME LitInv PROVE TypeOK
    OBVIOUS
  <2>1. LiteralInv /\ TextInv /\ IntInv /\ MaxSource \in Nat
    BY LiteralsAssumption DEF LitInv
  <2>2. at \in Nat \ {0} /\ (IsText => Len(source) <= MaxSource /\ at <= Len(source) + 1 /\ Len(source) \in Nat)
        /\ (~IsText => at = 1)
    BY <2>1 DEF LiteralInv, TextInv, IsText
  <2>3. Len(token) \in Nat /\ Len(text) \in Nat /\ Len(token) < at /\ Len(text) <= Len(token)
        /\ token \in Seq(Char) /\ text \in Seq(Char)
    BY <2>1 DEF TextInv
  <2>4. at \in 1..(MaxSource + 1) /\ Len(token) <= MaxSource /\ Len(text) <= MaxSource
    BY <2>1, <2>2, <2>3
  <2>5. token \in Texts /\ text \in Texts
    BY <2>3, <2>4, TextsAre
  <2>6. idx \in 1..(Len(token) + 1)
    BY <2>1, <2>3 DEF TextInv
  <2>. QED BY <2>1, <2>2, <2>3, <2>4, <2>5, <2>6 DEF TypeOK, IntInv, TextInv, IsText
<1>. QED BY <1>1, LiteralInvariant, PTL

(* Whatever the source is: a string the grammar allows is accepted with    *)
(* its text, and nothing else is but what loses a carriage return.         *)
THEOREM StringsReadCorrectly == Spec => []StringsAreRead
<1>1. LitInv => StringsAreRead
  <2>. SUFFICES ASSUME LitInv, literal.kind = "string", state # "lexing"
                PROVE  /\ \A n \in Strings : state # "rejected" /\ token = SubSeq(source, 1, n)
                       /\ state # "rejected" /\ Strings = {} => LoneReturn(source, at - 1)
    BY DEF StringsAreRead, Strings
  <2>1. HaveReadInv /\ source \in Seq(Char) /\ token \in Seq(Char) /\ Len(source) \in Nat
    BY DEF LitInv, LiteralInv, TextInv, ReadInv, IsText
  <2>2. ASSUME NEW n \in Strings PROVE token = SubSeq(source, 1, n)
    <3>1. Copied(n) /\ n \in Nat /\ n + 1 <= Len(source)
      BY <2>1 DEF HaveReadInv, Strings
    <3>2. 1 \in Int /\ n \in Int /\ \A i \in 1..n : source[i] \in Char
      BY <2>1, <3>1
    <3>3. /\ SubSeq(source, 1, n) \in Seq(Char)
          /\ Len(SubSeq(source, 1, n)) = IF 1 <= n THEN n - 1 + 1 ELSE 0
          /\ \A i \in 1..(n - 1 + 1) : SubSeq(source, 1, n)[i] = source[1 + i - 1]
      BY <3>2, SubSeqProperties
    <3>. DEFINE q == SubSeq(source, 1, n)
    <3>. HIDE DEF q
    <3>4. q \in Seq(Char) /\ Len(q) = n /\ \A i \in 1..n : q[i] = source[i]
      <4>1. n - 1 + 1 = n /\ (~(1 <= n) => n = 0) /\ \A i \in 1..n : 1 + i - 1 = i
        BY <3>1
      <4>. QED BY <3>3, <4>1 DEF q
    <3>5. Len(token) = Len(q) /\ \A i \in 1..Len(token) : token[i] = q[i]
      BY <3>1, <3>4 DEF Copied
    <3>. QED BY <2>1, <3>4, <3>5, SeqEqual DEF q
  <2>. QED BY <2>1, <2>2 DEF HaveReadInv
<1>. QED BY <1>1, LiteralInvariant, PTL

(* For every three bases and every largest integer: exactly which literals *)
(* the lexer rejects and which stop code generation; of the others, each   *)
(* decimal one becomes the value that is written, whatever base the lexer  *)
(* took it in, and a hexadecimal one never does, unless it is zero: it is  *)
(* generated as 0 (CodeGen.cpp:660).                                       *)
THEOREM IntegersCorrect == Spec => []IntegersExactly
<1>1. LitInv => IntegersExactly
  <2>. DEFINE hex == literal.kind = "hex"
              ds == literal.digits
              meaning == Stoi(IF hex THEN Hex ELSE Dec, ds)
              misread == ~hex /\ ds[1] = 0 /\ Stoi(Oct, ds) <= MaxInt
  <2>. SUFFICES ASSUME LitInv, literal.kind # "string",
                       state \in {"rejected", "generated", "aborted"}
                PROVE  /\ state = "rejected" <=> (meaning > MaxInt /\ ~misread)
                       /\ state = "aborted" <=> (meaning > MaxInt /\ misread)
                       /\ state = "generated" => (value = meaning <=> ~hex \/ meaning = 0)
    BY DEF IntegersExactly
  <2>1. /\ ~IsText /\ IntInv /\ LiteralInv
    BY DEF LitInv, IsText
  <2>2. /\ ds \in Seq(Nat) /\ 0 < Oct /\ Oct <= Dec /\ Oct \in Nat /\ Dec \in Nat /\ Hex \in Nat
        /\ MaxInt \in Nat /\ literal.kind \in {"decimal", "hex"}
        /\ LexerStoi \in Nat /\ GeneratorStoi \in Nat
    BY <2>1, DigitsAre
  <2>3. Stoi(Oct, ds) \in Nat /\ Stoi(Dec, ds) \in Nat /\ Stoi(Hex, ds) \in Nat
    BY <2>2, StoiType
  <2>4. Stoi(Oct, ds) <= Stoi(Dec, ds)
    BY <2>2, StoiGrows
  <2>5. CASE hex
    <3>1. LexerStoi = Stoi(Hex, ds) /\ GeneratorStoi = 0 /\ meaning = Stoi(Hex, ds) /\ ~misread
      BY <2>5 DEF LexerStoi, LexerBase, GeneratorStoi
    <3>. HIDE DEF meaning, misread
    <3>. QED BY <2>1, <2>2, <2>3, <2>5, <3>1 DEF IntInv
  <2>6. CASE ~hex /\ ds[1] = 0
    <3>1. /\ LexerStoi = Stoi(Oct, ds) /\ GeneratorStoi = Stoi(Dec, ds) /\ meaning = Stoi(Dec, ds)
          /\ misread <=> Stoi(Oct, ds) <= MaxInt
      BY <2>2, <2>6 DEF LexerStoi, LexerBase, GeneratorStoi
    <3>. HIDE DEF meaning, misread
    <3>. QED BY <2>1, <2>2, <2>3, <2>4, <2>6, <3>1 DEF IntInv
  <2>7. CASE ~hex /\ ds[1] # 0
    <3>1. /\ LexerStoi = Stoi(Dec, ds) /\ GeneratorStoi = Stoi(Dec, ds) /\ meaning = Stoi(Dec, ds)
          /\ ~misread
      BY <2>2, <2>7 DEF LexerStoi, LexerBase, GeneratorStoi
    <3>. HIDE DEF meaning, misread
    <3>. QED BY <2>1, <2>2, <2>3, <2>7, <3>1 DEF IntInv
  <2>. QED BY <2>5, <2>6, <2>7
<1>. QED BY <1>1, LiteralInvariant, PTL

-----------------------------------------------------------------------------
(* What a text means, from each of its characters on.                      *)
OneOn(s, f, i) ==
  IF i > Len(s) THEN <<>>
  ELSE IF Escapes(s)[i] THEN <<Replacement(s[i + 1])>> \o f[i + 2]
  ELSE <<s[i]>> \o f[i + 1]
MeaningFun(s, f) == f = [i \in 1..(Len(s) + 2) |-> OneOn(s, f, i)]

LEMMA Cons ==
  ASSUME NEW c \in Char, NEW q \in Seq(Char)
  PROVE  /\ <<c>> \o q \in Seq(Char) /\ Len(<<c>> \o q) = Len(q) + 1 /\ (<<c>> \o q)[1] = c
         /\ \A k \in 1..Len(q) : (<<c>> \o q)[k + 1] = q[k]
<1>1. <<c>> \in Seq(Char) /\ Len(<<c>>) = 1 /\ <<c>>[1] = c /\ Len(q) \in Nat
  OBVIOUS
<1>2. PICK b : b = <<c>>
  OBVIOUS
<1>3. /\ b \o q \in Seq(Char) /\ Len(b \o q) = 1 + Len(q)
      /\ \A i \in 1..(1 + Len(q)) : (b \o q)[i] = IF i <= 1 THEN b[i] ELSE q[i - 1]
  BY <1>1, <1>2, ConcatProperties
<1>4. (b \o q)[1] = c
  BY <1>1, <1>2, <1>3
<1>5. \A k \in 1..Len(q) : (b \o q)[k + 1] = q[k]
  <2>1. \A k \in 1..Len(q) : k + 1 \in 1..(1 + Len(q)) /\ ~(k + 1 <= 1) /\ (k + 1) - 1 = k
    BY <1>1
  <2>. QED BY <1>3, <2>1
<1>6. Len(b \o q) = Len(q) + 1
  BY <1>1, <1>3
<1>. QED BY <1>2, <1>3, <1>4, <1>5, <1>6

LEMMA CharsOf ==
  ASSUME NEW s \in Seq(Char), Clean(s, Len(s)), NEW i \in 1..Len(s)
  PROVE  /\ s[i] \in Char /\ Escapes(s)[i] \in BOOLEAN /\ Len(s) \in Nat
         /\ s[i] # "backslash" => ~Escapes(s)[i]
         /\ s[i] = "backslash" /\ ~Escapes(s)[i - 1] => Escapes(s)[i]
         /\ s[i] = "quote" => Escapes(s)[i - 1]
         /\ Escapes(s)[i] =>
              /\ i + 1 \in 1..Len(s) /\ s[i + 1] \in Escapable /\ ~Escapes(s)[i + 1]
              /\ s[i] = "backslash" /\ Replacement(s[i + 1]) \in Char
              /\ Replacement(s[i + 1]) = "backslash" <=> s[i + 1] = "backslash"
<1>1. s[i] \in Char /\ Escapes(s)[i] \in BOOLEAN /\ Len(s) \in Nat
  <2>1. i \in 0..Len(s) /\ s[i] \in Char /\ Len(s) \in Nat
    OBVIOUS
  <2>. QED BY <2>1, EscapesAre
<1>2. Escapes(s)[i] <=> s[i] = "backslash" /\ ~Escapes(s)[i - 1]
  BY EscapesAre
<1>3. ASSUME Escapes(s)[i]
      PROVE  /\ i + 1 \in 1..Len(s) /\ s[i + 1] \in Escapable /\ ~Escapes(s)[i + 1]
             /\ s[i] = "backslash" /\ Replacement(s[i + 1]) \in Char
             /\ Replacement(s[i + 1]) = "backslash" <=> s[i + 1] = "backslash"
  <2>1. i # Len(s)
    BY <1>3 DEF Clean
  <2>2. i + 1 \in 1..Len(s) /\ (i + 1) - 1 = i
    BY <2>1
  <2>3. s[i + 1] \in Escapable
    BY <1>3 DEF Clean
  <2>4. ~Escapes(s)[i + 1]
    BY <1>3, <2>2, EscapesAre
  <2>. QED BY <1>2, <1>3, <2>2, <2>3, <2>4 DEF Replacement, Escapable, Char
<1>4. s[i] = "quote" => Escapes(s)[i - 1]
  BY DEF Clean
<1>. QED BY <1>1, <1>2, <1>3, <1>4

LEMMA MeaningExists ==
  ASSUME NEW s \in Seq(Char), Clean(s, Len(s))
  PROVE  \E f : MeaningFun(s, f)
<1>. DEFINE n == Len(s)
            X == Seq(Char) \X Seq(Char)
            Next1(i, p) == IF Escapes(s)[i] THEN <<Replacement(s[i + 1])>> \o p[2]
                           ELSE <<s[i]>> \o p[1]
            F == [k \in 1..n |-> [p \in X |-> <<Next1(n + 1 - k, p), p[1]>>]]
            a == << <<>>, <<>> >>
<1>1. n \in Nat /\ a \in X
  <2>1. n \in Nat /\ <<>> \in Seq(Char)
    OBVIOUS
  <2>2. \A q \in Seq(Char) : <<q, q>> \in X
    OBVIOUS
  <2>. QED BY <2>1, <2>2
<1>2. ASSUME NEW i \in 1..n, NEW p \in X PROVE Next1(i, p) \in Seq(Char) /\ p[1] \in Seq(Char)
  BY CharsOf, Cons
<1>3. F \in [1..n -> [X -> X]]
  <2>1. ASSUME NEW k \in 1..n, NEW p \in X PROVE <<Next1(n + 1 - k, p), p[1]>> \in X
    <3>1. n + 1 - k \in 1..n
      BY <1>1
    <3>2. Next1(n + 1 - k, p) \in Seq(Char) /\ p[1] \in Seq(Char)
      BY <1>2, <3>1
    <3>. QED BY <3>2
  <2>. HIDE DEF Next1, X
  <2>. QED BY <2>1
<1>4. PICK g : Applied(X, a, F, g, n)
  <2>. HIDE DEF F, X, a
  <2>. QED BY <1>1, <1>3, Iterated
<1>5. g \in [0..n -> X] /\ g[0] = a
  BY <1>4 DEF Applied
<1>6. ASSUME NEW k \in 1..n
      PROVE  g[k] = <<Next1(n + 1 - k, g[k - 1]), g[k - 1][1]>>
  <2>1. g[k] = F[k][g[k - 1]]
    <3>. HIDE DEF F
    <3>. QED BY <1>4 DEF Applied
  <2>2. k - 1 \in 0..n
    BY <1>1
  <2>3. g[k - 1] \in X
    <3>. HIDE DEF X
    <3>. QED BY <1>5, <2>2
  <2>. HIDE DEF Next1, X
  <2>. QED BY <2>1, <2>3
<1>. DEFINE f == [i \in 1..(n + 2) |-> IF i = n + 2 THEN <<>> ELSE g[n + 1 - i][1]]
<1>7. \A i \in 1..(n + 1) : f[i] = g[n + 1 - i][1]
  BY <1>1
<1>8. f[n + 1] = <<>> /\ f[n + 2] = <<>>
  <2>1. n + 1 \in 1..(n + 1) /\ n + 1 - (n + 1) = 0 /\ n + 2 \in 1..(n + 2)
    BY <1>1
  <2>2. g[0][1] = <<>>
    BY <1>5
  <2>. QED BY <1>7, <2>1, <2>2
<1>9. f = [i \in 1..(n + 2) |-> f[i]]
  OBVIOUS
<1>. HIDE DEF f, F, X
<1>10. ASSUME NEW i \in 1..n PROVE f[i] = Next1(i, <<f[i + 1], f[i + 2]>>)
  <2>1. n + 1 - i \in 1..n /\ n + 1 - (n + 1 - i) = i /\ (n + 1 - i) - 1 = n - i
        /\ i \in 1..(n + 1) /\ i + 1 \in 1..(n + 1) /\ n + 1 - (i + 1) = n - i
    BY <1>1
  <2>2. f[i] = Next1(i, g[n - i])
    BY <1>6, <1>7, <2>1
  <2>3. g[n - i][1] = f[i + 1]
    BY <1>7, <2>1
  <2>4. g[n - i][2] = f[i + 2]
    <3>1. CASE i = n
      <4>1. g[0][2] = <<>> /\ n - i = 0 /\ i + 2 = n + 2
        BY <1>1, <1>5, <3>1
      <4>. QED BY <1>8, <4>1
    <3>2. CASE i # n
      <4>1. n - i \in 1..n /\ (n - i) - 1 = n + 1 - (i + 2) /\ i + 2 \in 1..(n + 1)
        BY <1>1, <3>2
      <4>2. g[n - i][2] = g[(n - i) - 1][1]
        <5>1. PICK k \in 1..n : k = n - i
          BY <4>1
        <5>2. g[k] = <<Next1(n + 1 - k, g[k - 1]), g[k - 1][1]>>
          BY <1>6
        <5>3. \A y, z : <<y, z>>[2] = z
          OBVIOUS
        <5>. HIDE DEF Next1
        <5>4. g[k][2] = g[k - 1][1]
          BY <5>2, <5>3
        <5>. QED BY <5>1, <5>4
      <4>. QED BY <1>7, <4>1, <4>2
    <3>. QED BY <3>1, <3>2
  <2>. QED BY <2>2, <2>3, <2>4
<1>11. \A i \in 1..(n + 2) : f[i] = OneOn(s, f, i)
  <2>1. \A i \in 1..(n + 2) : i \in 1..n \/ (i > n /\ i \in {n + 1, n + 2})
    BY <1>1
  <2>2. \A i \in 1..n : ~(i > n)
    BY <1>1
  <2>. QED BY <1>8, <1>10, <2>1, <2>2 DEF OneOn
<1>. QED BY <1>9, <1>11 DEF MeaningFun

Rest(s) == CHOOSE f : MeaningFun(s, f)

LEMMA RestIs ==
  ASSUME NEW s \in Seq(Char), Clean(s, Len(s))
  PROVE  /\ Meaning(s) = Rest(s)[1]
         /\ \A i \in 1..(Len(s) + 2) : Rest(s)[i] = OneOn(s, Rest(s), i) /\ Rest(s)[i] \in Seq(Char)
<1>1. MeaningFun(s, Rest(s))
  BY MeaningExists DEF Rest
<1>2. Meaning(s) = Rest(s)[1]
  BY DEF Meaning, Rest, MeaningFun, OneOn
<1>. DEFINE n == Len(s)
            r == Rest(s)
<1>3. n \in Nat /\ \A i \in 1..(n + 2) : r[i] = OneOn(s, r, i)
  <2>1. r = [i \in 1..(n + 2) |-> OneOn(s, r, i)]
    BY <1>1 DEF MeaningFun
  <2>. HIDE DEF r
  <2>. QED BY <2>1
<1>. HIDE DEF r
<1>4. r[n + 1] = <<>> /\ r[n + 2] = <<>>
  <2>1. /\ n + 1 \in 1..(n + 2) /\ n + 2 \in 1..(n + 2)
        /\ n + 1 > Len(s) /\ n + 2 > Len(s)
    BY <1>3
  <2>2. \A i \in 1..(n + 2) : i > Len(s) => r[i] = <<>>
    BY <1>3 DEF OneOn
  <2>. HIDE DEF n
  <2>. QED BY <2>1, <2>2
<1>5. \A i \in 1..(n + 1) : r[i] \in Seq(Char) /\ r[i + 1] \in Seq(Char)
  <2>. DEFINE S == {k \in 0..n : r[n + 1 - k] \in Seq(Char) /\ r[n + 2 - k] \in Seq(Char)}
  <2>1. 0 \in S
    <3>1. n + 1 - 0 = n + 1 /\ n + 2 - 0 = n + 2 /\ 0 \in 0..n /\ <<>> \in Seq(Char)
      BY <1>3
    <3>. HIDE DEF n
    <3>. QED BY <1>4, <3>1
  <2>2. ASSUME NEW k \in 0..(n - 1), k \in S PROVE k + 1 \in S
    <3>. DEFINE i == n - k
    <3>1. /\ i \in 1..n /\ n + 1 - k = i + 1 /\ n + 2 - k = i + 2 /\ i \in 1..(n + 2) /\ ~(i > n)
          /\ n + 1 - (k + 1) = i /\ n + 2 - (k + 1) = i + 1 /\ k + 1 \in 0..n
      BY <1>3
    <3>2. r[i + 1] \in Seq(Char) /\ r[i + 2] \in Seq(Char)
      BY <2>2, <3>1
    <3>. HIDE DEF i
    <3>3. r[i] = OneOn(s, r, i)
      BY <1>3, <3>1
    <3>4. r[i] \in Seq(Char)
      <4>1. CASE Escapes(s)[i]
        <5>1. r[i] = <<Replacement(s[i + 1])>> \o r[i + 2] /\ Replacement(s[i + 1]) \in Char
          BY <3>1, <3>3, <4>1, CharsOf DEF OneOn
        <5>. QED BY <3>2, <5>1, Cons
      <4>2. CASE ~Escapes(s)[i]
        <5>1. r[i] = <<s[i]>> \o r[i + 1] /\ s[i] \in Char
          BY <3>1, <3>3, <4>2, CharsOf DEF OneOn
        <5>. QED BY <3>2, <5>1, Cons
      <4>. QED BY <4>1, <4>2
    <3>. QED BY <3>1, <3>2, <3>4
  <2>3. \A k \in 0..n : k \in S
    <3>. HIDE DEF S
    <3>. QED BY <1>3, <2>1, <2>2, UpTo
  <2>4. ASSUME NEW i \in 1..(n + 1) PROVE r[i] \in Seq(Char) /\ r[i + 1] \in Seq(Char)
    <3>1. n + 1 - i \in 0..n /\ n + 1 - (n + 1 - i) = i /\ n + 2 - (n + 1 - i) = i + 1
      BY <1>3
    <3>2. n + 1 - i \in S
      BY <2>3, <3>1
    <3>. QED BY <3>1, <3>2
  <2>. QED BY <2>4
<1>6. \A i \in 1..(n + 2) : r[i] \in Seq(Char)
  <2>1. \A i \in 1..(n + 2) : i \in 1..(n + 1) \/ i = n + 2
    BY <1>3
  <2>. QED BY <1>4, <1>5, <2>1
<1>. QED BY <1>2, <1>3, <1>6 DEF r

(* From the (m + 1)st character on, the meaning of s is that of s from q.  *)
Cont(s, m, q) ==
  /\ m \in Nat /\ q \in 1..(Len(s) + 2)
  /\ Len(Meaning(s)) = m + Len(Rest(s)[q])
  /\ \A k \in 1..Len(Rest(s)[q]) : Meaning(s)[m + k] = Rest(s)[q][k]

LEMMA ContStart ==
  ASSUME NEW s \in Seq(Char), Clean(s, Len(s))
  PROVE  Cont(s, 0, 1) /\ Meaning(s) \in Seq(Char)
<1>1. /\ Len(s) \in Nat /\ 1 \in 1..(Len(s) + 2)
      /\ Meaning(s) = Rest(s)[1] /\ Rest(s)[1] \in Seq(Char)
  <2>1. Len(s) \in Nat /\ 1 \in 1..(Len(s) + 2)
    OBVIOUS
  <2>. QED BY <2>1, RestIs
<1>2. PICK r \in Seq(Char) : r = Rest(s)[1]
  BY <1>1
<1>3. Len(r) = 0 + Len(r) /\ \A k \in 1..Len(r) : r[0 + k] = r[k]
  OBVIOUS
<1>. QED BY <1>1, <1>2, <1>3 DEF Cont

LEMMA ContCons ==
  ASSUME NEW s \in Seq(Char), Clean(s, Len(s)), NEW m, NEW q, Cont(s, m, q),
         NEW q2 \in 1..(Len(s) + 2), NEW c \in Char, Rest(s)[q] = <<c>> \o Rest(s)[q2]
  PROVE  Meaning(s)[m + 1] = c /\ Cont(s, m + 1, q2) /\ m + 1 <= Len(Meaning(s))
<1>1. PICK r \in Seq(Char) : r = Rest(s)[q2]
  BY RestIs
<1>2. PICK b : b = Rest(s)[q]
  OBVIOUS
<1>3. b = <<c>> \o r
  BY <1>1, <1>2
<1>4. b \in Seq(Char) /\ Len(b) = Len(r) + 1 /\ b[1] = c /\ \A k \in 1..Len(r) : b[k + 1] = r[k]
  BY <1>3, Cons
<1>5. m \in Nat /\ Len(Meaning(s)) = m + Len(b) /\ \A k \in 1..Len(b) : Meaning(s)[m + k] = b[k]
  BY <1>2 DEF Cont
<1>6. 1 \in 1..Len(b) /\ Len(r) \in Nat
  BY <1>4
<1>7. Meaning(s)[m + 1] = c
  BY <1>4, <1>5, <1>6
<1>8. ASSUME NEW k \in 1..Len(r) PROVE Meaning(s)[(m + 1) + k] = r[k]
  <2>1. k + 1 \in 1..Len(b) /\ m + (k + 1) = (m + 1) + k
    BY <1>4, <1>5, <1>6
  <2>. QED BY <1>4, <1>5, <2>1
<1>9. Len(Meaning(s)) = (m + 1) + Len(r) /\ m + 1 \in Nat /\ m + 1 <= Len(Meaning(s))
  BY <1>4, <1>5, <1>6
<1>. QED BY <1>1, <1>7, <1>8, <1>9 DEF Cont

LEMMA ContPlain ==
  ASSUME NEW s \in Seq(Char), Clean(s, Len(s)), NEW m, NEW q \in 1..Len(s), Cont(s, m, q),
         ~Escapes(s)[q]
  PROVE  Meaning(s)[m + 1] = s[q] /\ Cont(s, m + 1, q + 1) /\ m + 1 <= Len(Meaning(s))
<1>1. q \in 1..(Len(s) + 2) /\ q + 1 \in 1..(Len(s) + 2) /\ ~(q > Len(s)) /\ s[q] \in Char
  OBVIOUS
<1>2. Rest(s)[q] = <<s[q]>> \o Rest(s)[q + 1]
  BY <1>1, RestIs DEF OneOn
<1>. QED BY SMTT(30), <1>1, <1>2, ContCons

LEMMA ContEscape ==
  ASSUME NEW s \in Seq(Char), Clean(s, Len(s)), NEW m, NEW q \in 1..Len(s), Cont(s, m, q),
         Escapes(s)[q]
  PROVE  /\ Meaning(s)[m + 1] = Replacement(s[q + 1]) /\ Cont(s, m + 1, q + 2)
         /\ m + 1 <= Len(Meaning(s))
<1>1. q \in 1..(Len(s) + 2) /\ q + 2 \in 1..(Len(s) + 2) /\ ~(q > Len(s))
  OBVIOUS
<1>2. Rest(s)[q] = <<Replacement(s[q + 1])>> \o Rest(s)[q + 2]
  BY <1>1, RestIs DEF OneOn
<1>3. Replacement(s[q + 1]) \in Char
  BY CharsOf
<1>. QED BY <1>1, <1>2, <1>3, ContCons

LEMMA ContEnd ==
  ASSUME NEW s \in Seq(Char), Clean(s, Len(s)), NEW m, NEW q, Cont(s, m, q), q > Len(s)
  PROVE  Len(Meaning(s)) = m
<1>1. q \in 1..(Len(s) + 2) /\ m \in Nat
  BY DEF Cont
<1>2. Rest(s)[q] = <<>>
  BY <1>1, RestIs DEF OneOn
<1>3. Len(<<>>) = 0 /\ m + 0 = m
  BY <1>1
<1>. QED BY <1>2, <1>3 DEF Cont

(* Characters that are no backslashes mean themselves.                     *)
LEMMA ContRun ==
  ASSUME NEW s \in Seq(Char), Clean(s, Len(s)), NEW m, NEW q \in Nat \ {0}, Cont(s, m, q),
         NEW p \in q..(Len(s) + 1), ~Escapes(s)[q - 1],
         \A r \in q..(p - 1) : s[r] # "backslash"
  PROVE  /\ Cont(s, m + (p - q), p) /\ ~Escapes(s)[p - 1]
         /\ \A r \in q..(p - 1) : ~Escapes(s)[r] /\ Meaning(s)[m + (r - q) + 1] = s[r]
<1>. DEFINE n == Len(s)
<1>1. n \in Nat /\ m \in Nat /\ p - q \in Nat
  BY DEF Cont
<1>2. \A r \in q..(p - 1) : ~Escapes(s)[r] /\ r \in 1..n
  <2>1. \A r \in q..(p - 1) : r \in 1..n
    BY <1>1
  <2>. QED BY <2>1, CharsOf
<1>. DEFINE S == {l \in 0..(p - q) : Cont(s, m + l, q + l)}
<1>3. 0 \in S
  <2>1. m + 0 = m /\ q + 0 = q /\ 0 \in 0..(p - q)
    BY <1>1
  <2>. QED BY <2>1
<1>4. ASSUME NEW l \in 0..((p - q) - 1), l \in S
      PROVE  Meaning(s)[m + l + 1] = s[q + l] /\ l + 1 \in S
  <2>1. /\ q + l \in q..(p - 1) /\ (m + l) + 1 = m + (l + 1) /\ (q + l) + 1 = q + (l + 1)
        /\ l + 1 \in 0..(p - q)
    BY <1>1
  <2>2. Meaning(s)[(m + l) + 1] = s[q + l] /\ Cont(s, (m + l) + 1, (q + l) + 1)
    BY <1>2, <1>4, <2>1, ContPlain
  <2>. QED BY <2>1, <2>2
<1>5. \A l \in 0..(p - q) : l \in S
  <2>. HIDE DEF S
  <2>. QED BY <1>1, <1>3, <1>4, UpTo
<1>6. Cont(s, m + (p - q), p)
  <2>1. p - q \in 0..(p - q) /\ q + (p - q) = p
    BY <1>1
  <2>2. Cont(s, m + (p - q), q + (p - q))
    BY <1>5, <2>1
  <2>. QED BY <2>1, <2>2
<1>7. ASSUME NEW r \in q..(p - 1) PROVE Meaning(s)[m + (r - q) + 1] = s[r]
  <2>1. r - q \in 0..((p - q) - 1) /\ q + (r - q) = r /\ r - q \in 0..(p - q)
    BY <1>1
  <2>2. r - q \in S
    BY <1>5, <2>1
  <2>. HIDE DEF S
  <2>3. Meaning(s)[m + (r - q) + 1] = s[q + (r - q)]
    BY <1>4, <2>1, <2>2
  <2>. QED BY <2>1, <2>3
<1>8. ~Escapes(s)[p - 1]
  <2>1. p - 1 = q - 1 \/ p - 1 \in q..(p - 1)
    BY <1>1
  <2>. QED BY <1>2, <2>1
<1>. QED BY <1>2, <1>6, <1>7, <1>8
-----------------------------------------------------------------------------
(* The generator has replaced what lies before j in t; from there on t is  *)
(* the end of s, from Src(s, t, j) on.                                     *)
Src(s, t, j) == j + (Len(s) - Len(t))
EndOf(s, t, j) == \A k \in j..Len(t) : t[k] = s[k + (Len(s) - Len(t))]

(* It has met no escape right behind another one, and written what s       *)
(* means so far.                                                           *)
Alike(s, t, j) ==
  LET q == Src(s, t, j) IN
  /\ q <= Len(s) + 1 => ~Escapes(s)[q - 1] /\ Cont(s, j - 1, q)
  /\ q > Len(s) + 1 => Len(Meaning(s)) = Len(t)
  /\ \A k \in 1..Len(t) : k < j => t[k] = Meaning(s)[k]
  /\ \A r \in 1..Len(s) : Escapes(s)[r] /\ r < q => r + 3 <= q
  /\ \A r \in 1..(Len(s) - 2) : Escapes(s)[r] /\ Escapes(s)[r + 2] => r + 2 >= q

(* It has skipped an escape, and has a row of backslashes where the        *)
(* meaning goes on with what s means from the search's position on, or     *)
(* from the escape before it, whose second character comes next.           *)
Behind(t, j, m) ==
  m \in Nat /\ m + 1 < j /\ j - 1 <= Len(t) /\ \A k \in (m + 1)..(j - 1) : t[k] = "backslash"
Ahead(s, t, j) ==
  LET q == Src(s, t, j) IN \E m \in 0..j : Behind(t, j, m) /\ ~Escapes(s)[q - 1] /\ Cont(s, m, q)
Amid(s, t, j) ==
  LET q == Src(s, t, j) IN \E m \in 0..j : Behind(t, j, m) /\ Escapes(s)[q - 1] /\ Cont(s, m, q - 1)

(* It has written something else than s means.                             *)
Different(s, t, j) ==
  \E k \in 1..Len(t) : k < j /\ (k > Len(Meaning(s)) \/ Meaning(s)[k] # t[k])

Written(s, t, j) ==
  \/ Alike(s, t, j)
  \/ Adjacent(s) /\ (Ahead(s, t, j) \/ Amid(s, t, j) \/ Different(s, t, j))

(* The search from j on finds the backslash at i.                          *)
Search(t, j, i) ==
  /\ i \in 1..Len(t) /\ i >= j /\ t[i] = "backslash"
  /\ \A k \in j..(i - 1) : t[k] # "backslash"

LEMMA SearchIs ==
  ASSUME NEW s \in Seq(Char), NEW t \in Seq(Char), Len(t) <= Len(s), NEW j \in Nat \ {0},
         EndOf(s, t, j), NEW i, Search(t, j, i)
  PROVE  /\ Src(s, t, i) \in 1..Len(s) /\ Src(s, t, j) \in 1..Src(s, t, i) /\ i \in Nat /\ j <= i
         /\ Len(s) \in Nat /\ Len(t) \in Nat
         /\ s[Src(s, t, i)] = "backslash"
         /\ \A r \in Src(s, t, j)..(Src(s, t, i) - 1) : s[r] # "backslash"
         /\ Src(s, t, i) - Src(s, t, j) = i - j
         /\ i = j <=> Src(s, t, i) = Src(s, t, j)
         /\ i + 1 <= Len(t) <=> Src(s, t, i) + 1 <= Len(s)
         /\ i + 1 <= Len(t) => t[i + 1] = s[Src(s, t, i) + 1]
         /\ s[Src(s, t, j)] # "backslash" => j < i
         /\ s[Src(s, t, j)] = "backslash" => j = i
<1>. DEFINE d == Len(s) - Len(t)
<1>1. Len(s) \in Nat /\ Len(t) \in Nat /\ d \in Nat /\ i \in 1..Len(t) /\ j <= i
  BY DEF Search
<1>2. Src(s, t, i) = i + d /\ Src(s, t, j) = j + d
  BY DEF Src
<1>3. \A k \in j..Len(t) : t[k] = s[k + d]
  BY DEF EndOf
<1>4. t[i] = s[i + d] /\ t[j] = s[j + d] /\ (i + 1 <= Len(t) => t[i + 1] = s[(i + d) + 1])
  <2>1. i \in j..Len(t) /\ j \in j..Len(t) /\ (i + 1 <= Len(t) => i + 1 \in j..Len(t))
        /\ (i + 1) + d = (i + d) + 1
    BY <1>1
  <2>. QED BY SMTT(30), <1>3, <2>1
<1>5. ASSUME NEW r \in (j + d)..((i + d) - 1) PROVE s[r] # "backslash"
  <2>1. r - d \in j..(i - 1) /\ r - d \in j..Len(t) /\ (r - d) + d = r
    BY <1>1
  <2>2. t[r - d] # "backslash" /\ t[r - d] = s[(r - d) + d]
    BY <1>3, <2>1 DEF Search
  <2>. QED BY <2>1, <2>2
<1>6. t[i] = "backslash" /\ (j < i => t[j] # "backslash")
  <2>1. j < i => j \in j..(i - 1)
    BY <1>1
  <2>. QED BY <2>1 DEF Search
<1>7. /\ i + d \in 1..Len(s) /\ j + d \in 1..(i + d) /\ (i + d) - (j + d) = i - j
      /\ i = j <=> i + d = j + d
      /\ i + 1 <= Len(t) <=> (i + d) + 1 <= Len(s)
      /\ i = j \/ j < i
  BY <1>1
<1>. HIDE DEF d
<1>. QED BY <1>1, <1>2, <1>4, <1>5, <1>6, <1>7

(* What Replace makes of t.                                                *)
Replaced(t, j, u, i) ==
  /\ Search(t, j, i) /\ i + 1 <= Len(t) /\ t[i + 1] \in Escapable
  /\ u \in Seq(Char) /\ Len(u) = Len(t) - 1
  /\ \A k \in 1..(i - 1) : u[k] = t[k]
  /\ u[i] = Replacement(t[i + 1])
  /\ \A k \in (i + 1)..(Len(t) - 1) : u[k] = t[k + 1]

LEMMA ReplacedIs ==
  ASSUME NEW s \in Seq(Char), NEW t \in Seq(Char), Len(t) <= Len(s), NEW j \in Nat \ {0},
         EndOf(s, t, j), NEW i, NEW u, Replaced(t, j, u, i)
  PROVE  /\ EndOf(s, u, i + 2) /\ Src(s, u, i + 2) = Src(s, t, i) + 3
         /\ Src(s, t, i) + 1 \in 1..Len(s) /\ s[Src(s, t, i) + 1] \in Escapable
         /\ u[i] = Replacement(s[Src(s, t, i) + 1])
         /\ i <= Len(u) /\ Len(u) \in Nat
         /\ Src(s, t, i) + 2 > Len(s) <=> Len(u) = i
         /\ Src(s, t, i) + 2 <= Len(s) => i + 1 <= Len(u) /\ u[i + 1] = s[Src(s, t, i) + 2]
<1>. DEFINE d == Len(s) - Len(t)
<1>1. /\ Len(s) \in Nat /\ Len(t) \in Nat /\ d \in Nat /\ i \in Nat \ {0} /\ j <= i
      /\ i + 1 <= Len(t) /\ t[i + 1] = s[Src(s, t, i) + 1]
      /\ Src(s, t, i) + 1 <= Len(s)
  <2>1. Search(t, j, i) /\ i + 1 <= Len(t)
    BY DEF Replaced
  <2>2. i \in Nat \ {0} /\ Len(s) \in Nat /\ Len(t) \in Nat /\ d \in Nat
    BY <2>1 DEF Search
  <2>. HIDE DEF d
  <2>3. t[i + 1] = s[Src(s, t, i) + 1] /\ Src(s, t, i) + 1 <= Len(s) /\ j <= i
    BY <2>1, SearchIs
  <2>. QED BY <2>1, <2>2, <2>3
<1>2. /\ Src(s, t, i) = i + d /\ Len(u) = Len(t) - 1 /\ Len(s) - Len(u) = d + 1
      /\ Src(s, u, i + 2) = (i + d) + 3
  BY <1>1 DEF Src, Replaced
<1>3. ASSUME NEW k \in (i + 1)..Len(u) PROVE u[k] = s[k + (d + 1)]
  <2>. HIDE DEF d
  <2>3. k \in Nat /\ i + 1 <= k /\ k <= Len(t) - 1
    BY <1>1, <1>2
  <2>4. k \in (i + 1)..(Len(t) - 1) /\ (k + 1) + d = k + (d + 1)
    BY <1>1, <2>3
  <2>5. k + 1 \in j..Len(t)
    BY <1>1, <2>3
  <2>1. k \in (i + 1)..(Len(t) - 1) /\ k + 1 \in j..Len(t) /\ (k + 1) + d = k + (d + 1)
    BY <2>4, <2>5
  <2>2. u[k] = t[k + 1] /\ t[k + 1] = s[(k + 1) + d]
    BY <2>1 DEF Replaced, EndOf, d
  <2>. QED BY <2>1, <2>2
<1>4. EndOf(s, u, i + 2)
  <2>1. \A k \in (i + 2)..Len(u) : k \in (i + 1)..Len(u)
    BY <1>1, <1>2
  <2>. HIDE DEF d
  <2>. QED BY <1>2, <1>3, <2>1 DEF EndOf
<1>5. Src(s, t, i) + 2 <= Len(s) => i + 1 <= Len(u) /\ u[i + 1] = s[Src(s, t, i) + 2]
  <2>. SUFFICES ASSUME Src(s, t, i) + 2 <= Len(s)
                PROVE  i + 1 <= Len(u) /\ u[i + 1] = s[Src(s, t, i) + 2]
    OBVIOUS
  <2>1. i + 1 \in (i + 1)..Len(u) /\ (i + 1) + (d + 1) = Src(s, t, i) + 2
    BY <1>1, <1>2
  <2>. QED BY <1>3, <2>1
<1>6. i <= Len(u) /\ Len(u) \in Nat /\ (Src(s, t, i) + 2 > Len(s) <=> Len(u) = i)
  BY SMTT(30), <1>1, <1>2
<1>7. t[i + 1] \in Escapable /\ u[i] = Replacement(t[i + 1]) /\ Src(s, t, i) + 1 \in 1..Len(s)
  BY <1>1, <1>2 DEF Replaced
<1>. QED BY <1>1, <1>2, <1>4, <1>5, <1>6, <1>7

(* The second character of an escape may be the first of none.             *)
LEMMA EscapeStep ==
  ASSUME NEW s \in Seq(Char), Clean(s, Len(s)), NEW r \in Nat, r + 1 <= Len(s), ~Escapes(s)[r]
  PROVE  /\ Escapes(s)[r + 1] <=> s[r + 1] = "backslash"
         /\ s[r + 1] # "quote"
<1>1. r + 1 \in 1..Len(s) /\ (r + 1) - 1 = r
  OBVIOUS
<1>. QED BY <1>1, CharsOf

LEMMA ReplacementIs ==
  \A c \in Escapable : Replacement(c) \in Char /\ (Replacement(c) = "backslash" <=> c = "backslash")
BY DEF Escapable, Replacement, Char

(* An escape right behind the one replaced is skipped.                     *)
LEMMA AlikeReplaced ==
  ASSUME NEW s \in Seq(Char), Clean(s, Len(s)), NEW t \in Seq(Char), Len(t) <= Len(s),
         NEW j \in Nat \ {0}, EndOf(s, t, j), Alike(s, t, j),
         NEW i, NEW u, Replaced(t, j, u, i)
  PROVE  Written(s, u, i + 2)
<1>. DEFINE n == Len(s)
            e == Escapes(s)
            M == Meaning(s)
<1>1. PICK p : p = Src(s, t, i)
  OBVIOUS
<1>2. PICK q : q = Src(s, t, j)
  OBVIOUS
<1>3. Search(t, j, i)
  BY DEF Replaced
<1>4. /\ p \in 1..n /\ q \in 1..p /\ i \in Nat /\ j <= i /\ n \in Nat /\ Len(t) \in Nat
      /\ s[p] = "backslash" /\ p - q = i - j
      /\ \A r \in q..(p - 1) : s[r] # "backslash"
  BY <1>1, <1>2, <1>3, SearchIs
<1>5. /\ Src(s, u, i + 2) = p + 3 /\ p + 1 \in 1..n /\ s[p + 1] \in Escapable
      /\ u[i] = Replacement(s[p + 1]) /\ i <= Len(u) /\ Len(u) \in Nat
      /\ p + 2 > n <=> Len(u) = i
      /\ p + 2 <= n => i + 1 <= Len(u) /\ u[i + 1] = s[p + 2]
  BY <1>1, ReplacedIs
<1>6. /\ ~e[q - 1] /\ Cont(s, j - 1, q)
      /\ \A k \in 1..Len(t) : k < j => t[k] = M[k]
      /\ \A r \in 1..n : e[r] /\ r < q => r + 3 <= q
      /\ \A r \in 1..(n - 2) : e[r] /\ e[r + 2] => r + 2 >= q
  BY <1>2, <1>4 DEF Alike
<1>7. /\ Cont(s, (j - 1) + (p - q), p) /\ ~e[p - 1]
      /\ \A r \in q..(p - 1) : ~e[r] /\ M[(j - 1) + (r - q) + 1] = s[r]
  <2>1. q \in Nat \ {0} /\ p \in q..(n + 1)
    BY <1>4
  <2>. QED BY SMTT(30), <1>4, <1>6, <2>1, ContRun
<1>8. e[p] /\ ~e[p + 1]
  BY <1>4, <1>7, CharsOf
<1>9. M[i] = u[i] /\ Cont(s, i, p + 2)
  <2>1. (j - 1) + (p - q) = i - 1 /\ (i - 1) + 1 = i
    BY <1>4
  <2>2. Cont(s, i - 1, p)
    BY <1>7, <2>1
  <2>3. M[(i - 1) + 1] = Replacement(s[p + 1]) /\ Cont(s, (i - 1) + 1, p + 2)
    BY <1>4, <1>8, <2>2, ContEscape
  <2>. QED BY <1>5, <2>1, <2>3
<1>10. ASSUME NEW k \in 1..(i - 1) PROVE u[k] = M[k]
  <2>1. u[k] = t[k] /\ k \in 1..Len(t)
    <3>1. k \in 1..Len(t)
      BY <1>3, <1>4 DEF Search
    <3>. QED BY <3>1 DEF Replaced
  <2>2. CASE k < j
    BY <1>6, <2>1, <2>2
  <2>3. CASE k >= j
    <3>1. q + (k - j) \in q..(p - 1) /\ (j - 1) + ((q + (k - j)) - q) + 1 = k
      BY <1>4, <2>3
    <3>2. M[k] = s[q + (k - j)]
      BY <1>7, <3>1
    <3>3. k \in j..Len(t) /\ k + (n - Len(t)) = q + (k - j)
      BY <1>2, <1>4, <2>1, <2>3 DEF Src
    <3>4. t[k] = s[q + (k - j)]
      BY <3>3 DEF EndOf
    <3>. QED BY <2>1, <3>2, <3>4
  <2>. QED BY <1>4, <2>2, <2>3
<1>11. ASSUME NEW r \in 1..n, e[r], r < p + 3
       PROVE  r + 3 <= p + 3 \/ (r = p + 2 /\ e[p + 2])
  <2>1. r < q \/ r \in q..(p - 1) \/ r = p \/ r = p + 1 \/ r = p + 2
    BY <1>4, <1>11
  <2>. QED BY <1>4, <1>6, <1>7, <1>8, <1>11, <2>1
<1>12. ASSUME NEW r \in 1..(n - 2), e[r], e[r + 2]
       PROVE  r + 2 >= p + 3 \/ (r = p /\ e[p + 2])
  <2>1. r \in 1..n /\ r + 2 \in 1..n
    BY <1>4
  <2>2. CASE r < q
    <3>1. r + 3 <= q /\ r + 2 >= q
      BY <1>6, <1>12, <2>1, <2>2
    <3>. QED BY <1>4, <3>1
  <2>3. r \notin q..(p - 1) /\ r # p + 1
    BY <1>7, <1>8, <1>12
  <2>. QED BY <1>4, <1>12, <2>2, <2>3
<1>13. CASE p + 2 > n
  <2>1. Len(M) = Len(u)
    BY <1>5, <1>9, <1>13, ContEnd
  <2>2. \A k \in 1..Len(u) : u[k] = M[k]
    BY <1>4, <1>5, <1>9, <1>10, <1>13
  <2>3. \A r \in 1..n : e[r] /\ r < p + 3 => r + 3 <= p + 3
    BY <1>4, <1>11, <1>13
  <2>4. \A r \in 1..(n - 2) : e[r] /\ e[r + 2] => r + 2 >= p + 3
    BY <1>4, <1>12, <1>13
  <2>5. ~(p + 3 <= n + 1)
    BY <1>4, <1>13
  <2>6. Alike(s, u, i + 2)
    BY <1>5, <2>1, <2>2, <2>3, <2>4, <2>5 DEF Alike
  <2>. QED BY <2>6 DEF Written
<1>14. CASE p + 2 <= n /\ ~e[p + 2]
  <2>1. /\ p + 2 \in 1..n /\ (p + 3) - 1 = p + 2 /\ (p + 2) + 1 = p + 3 /\ (i + 2) - 1 = i + 1
        /\ p + 3 <= n + 1
    BY <1>4, <1>14
  <2>2. M[i + 1] = s[p + 2] /\ Cont(s, i + 1, p + 3)
    <3>1. M[i + 1] = s[p + 2] /\ Cont(s, i + 1, (p + 2) + 1)
      BY <1>9, <1>14, <2>1, ContPlain
    <3>. QED BY <2>1, <3>1
  <2>3. \A k \in 1..Len(u) : k < i + 2 => u[k] = M[k]
    <3>1. \A k \in 1..Len(u) : k < i + 2 => k \in 1..(i - 1) \/ k = i \/ k = i + 1
      BY <1>4
    <3>. QED BY <1>5, <1>9, <1>10, <1>14, <2>2, <3>1
  <2>4. \A r \in 1..n : e[r] /\ r < p + 3 => r + 3 <= p + 3
    BY <1>11, <1>14
  <2>5. \A r \in 1..(n - 2) : e[r] /\ e[r + 2] => r + 2 >= p + 3
    BY <1>12, <1>14
  <2>6. ~(p + 3 > n + 1)
    BY <1>4, <2>1
  <2>7. Alike(s, u, i + 2)
    BY <1>5, <1>14, <2>1, <2>2, <2>3, <2>4, <2>5, <2>6 DEF Alike
  <2>. QED BY <2>7 DEF Written
<1>15. CASE p + 2 <= n /\ e[p + 2]
  <2>1. /\ p \in 1..(n - 2) /\ p + 2 \in 1..n /\ (p + 3) - 1 = p + 2 /\ (i + 2) - 1 = i + 1
        /\ i \in 0..(i + 2)
    BY <1>4, <1>15
  <2>2. Adjacent(s)
    BY <1>8, <1>15, <2>1 DEF Adjacent
  <2>3. u[i + 1] = "backslash"
    BY <1>5, <1>15, <2>1, CharsOf
  <2>4. Behind(u, i + 2, i)
    <3>1. \A k \in (i + 1)..(i + 1) : k = i + 1
      BY <1>4
    <3>2. i \in Nat /\ i + 1 < i + 2 /\ i + 1 <= Len(u)
      BY <1>4, <1>5, <1>15
    <3>. QED BY <2>1, <2>3, <3>1, <3>2 DEF Behind
  <2>5. Amid(s, u, i + 2)
    BY <1>5, <1>9, <1>15, <2>1, <2>4 DEF Amid
  <2>. QED BY <2>2, <2>5 DEF Written
<1>16. p + 2 > n \/ p + 2 <= n
  BY <1>4
<1>. QED BY <1>13, <1>14, <1>15, <1>16

(* What was written stays.                                                 *)
LEMMA DifferentStays ==
  ASSUME NEW s, NEW t \in Seq(Char), NEW j \in Nat, Different(s, t, j),
         NEW u \in Seq(Char), NEW v \in Nat, j <= v,
         \A k \in 1..Len(t) : k < j => k \in 1..Len(u) /\ u[k] = t[k]
  PROVE  Different(s, u, v)
<1>1. PICK k \in 1..Len(t) : k < j /\ (k > Len(Meaning(s)) \/ Meaning(s)[k] # t[k])
  BY DEF Different
<1>2. k \in 1..Len(u) /\ u[k] = t[k] /\ k < v
  BY <1>1
<1>. QED BY <1>1, <1>2 DEF Different

(* Where the meaning goes on with something else than one of the           *)
(* backslashes, or not at all, the difference is there.                    *)
LEMMA DifferentAt ==
  ASSUME NEW s, NEW u \in Seq(Char), NEW v \in Nat, NEW k \in Nat \ {0}, k < v, k <= Len(u),
         k > Len(Meaning(s)) \/ Meaning(s)[k] # u[k]
  PROVE  Different(s, u, v)
BY DEF Different

LEMMA AheadReplaced ==
  ASSUME NEW s \in Seq(Char), Clean(s, Len(s)), NEW t \in Seq(Char), Len(t) <= Len(s),
         NEW j \in Nat \ {0}, EndOf(s, t, j), Ahead(s, t, j),
         NEW i, NEW u, Replaced(t, j, u, i)
  PROVE  Amid(s, u, i + 2) \/ Different(s, u, i + 2)
<1>. DEFINE n == Len(s)
            e == Escapes(s)
            M == Meaning(s)
<1>1. PICK p : p = Src(s, t, i)
  OBVIOUS
<1>2. PICK q : q = Src(s, t, j)
  OBVIOUS
<1>3. Search(t, j, i)
  BY DEF Replaced
<1>4. /\ p \in 1..n /\ q \in 1..p /\ i \in Nat /\ j <= i /\ n \in Nat /\ Len(t) \in Nat
      /\ s[p] = "backslash"
      /\ s[q] # "backslash" => j < i
      /\ s[q] = "backslash" => j = i /\ p = q
  BY <1>1, <1>2, <1>3, SearchIs
<1>5. /\ Src(s, u, i + 2) = p + 3 /\ p + 1 \in 1..n /\ s[p + 1] \in Escapable
      /\ u[i] = Replacement(s[p + 1]) /\ i <= Len(u) /\ Len(u) \in Nat
      /\ p + 2 > n <=> Len(u) = i
      /\ p + 2 <= n => i + 1 <= Len(u) /\ u[i + 1] = s[p + 2]
  BY <1>1, ReplacedIs
<1>6. PICK m \in 0..j : Behind(t, j, m) /\ ~e[q - 1] /\ Cont(s, m, q)
  BY <1>2 DEF Ahead
<1>7. m \in Nat /\ m + 1 < j /\ \A k \in (m + 1)..(i - 1) : k < j => u[k] = "backslash"
  <2>1. \A k \in (m + 1)..(i - 1) : k < j => k \in (m + 1)..(j - 1) /\ k \in 1..(i - 1)
    BY <1>4
  <2>. QED BY <1>6, <2>1 DEF Behind, Replaced
<1>8. q \in 1..n /\ (q - 1) + 1 = q /\ q - 1 \in Nat
  BY <1>4
<1>9. i + 2 \in Nat /\ u \in Seq(Char)
  BY <1>4 DEF Replaced
<1>10. CASE s[q] # "backslash"
  <2>1. ~e[q]
    BY <1>8, <1>10, CharsOf
  <2>2. M[m + 1] = s[q]
    BY <1>6, <1>8, <2>1, ContPlain
  <2>3. u[m + 1] = "backslash" /\ m + 1 \in Nat \ {0} /\ m + 1 < i + 2 /\ m + 1 <= Len(u)
    <3>1. m + 1 \in (m + 1)..(i - 1) /\ m + 1 < j
      BY <1>4, <1>7, <1>10
    <3>2. m + 1 \in Nat \ {0} /\ m + 1 < i + 2 /\ m + 1 <= Len(u)
      BY <1>4, <1>5, <1>7
    <3>. QED BY <1>7, <3>1, <3>2
  <2>. QED BY <1>9, <1>10, <2>2, <2>3, DifferentAt
<1>11. CASE s[q] = "backslash"
  <2>1. e[q] /\ ~e[q + 1] /\ p = q /\ i = j
    <3>1. e[q]
      BY <1>6, <1>8, <1>11, CharsOf
    <3>. QED BY <1>4, <1>8, <1>11, <3>1, CharsOf
  <2>2. M[m + 1] = Replacement(s[q + 1]) /\ Cont(s, m + 1, q + 2)
    BY <1>6, <1>8, <2>1, ContEscape
  <2>3. /\ m + 1 \in Nat \ {0} /\ m + 1 < i + 2 /\ m + 1 <= Len(u)
        /\ m + 2 \in Nat \ {0} /\ m + 2 < i + 2 /\ m + 2 <= Len(u) /\ m + 2 <= i
        /\ (m + 1) + 1 = m + 2 /\ m + 1 \in (m + 1)..(i - 1)
    BY <1>4, <1>5, <1>7, <2>1
  <2>4. \A k \in (m + 1)..(i - 1) : u[k] = "backslash"
    <3>1. \A k \in (m + 1)..(i - 1) : k < j
      BY <1>4, <1>7, <2>1
    <3>. QED BY <1>7, <3>1
  <2>5. CASE s[q + 1] # "backslash"
    <3>1. M[m + 1] # u[m + 1]
      <4>1. u[m + 1] = "backslash"
        BY <2>3, <2>4
      <4>2. M[m + 1] # "backslash"
        BY <1>5, <2>1, <2>2, <2>5, ReplacementIs
      <4>. QED BY <4>1, <4>2
    <3>. QED BY <1>9, <2>3, <3>1, DifferentAt
  <2>6. CASE s[q + 1] = "backslash"
    <3>1. u[i] = "backslash"
      BY <1>5, <2>1, <2>6, ReplacementIs
    <3>2. \A k \in (m + 1)..i : u[k] = "backslash"
      <4>1. \A k \in (m + 1)..i : k \in (m + 1)..(i - 1) \/ k = i
        BY <1>4, <1>7
      <4>. QED BY <2>4, <3>1, <4>1
    <3>3. u[m + 2] = "backslash"
      <4>1. m + 2 \in (m + 1)..i
        BY <1>4, <1>7, <2>1
      <4>. QED BY <3>2, <4>1
    <3>4. CASE q + 2 > n
      <4>1. Len(M) = m + 1
        BY <2>2, <3>4, ContEnd
      <4>2. m + 2 > Len(M)
        BY <1>7, <4>1
      <4>. QED BY <1>9, <2>3, <4>2, DifferentAt
    <3>5. CASE q + 2 <= n /\ s[q + 2] # "backslash"
      <4>1. q + 2 \in 1..n
        BY <1>8, <3>5
      <4>2. ~e[q + 2]
        BY <3>5, <4>1, CharsOf
      <4>3. M[m + 2] = s[q + 2]
        BY <2>2, <2>3, <4>1, <4>2, ContPlain
      <4>. QED BY <1>9, <2>3, <3>3, <3>5, <4>3, DifferentAt
    <3>6. CASE q + 2 <= n /\ s[q + 2] = "backslash"
      <4>1. q + 2 \in 1..n /\ (q + 2) - 1 = q + 1 /\ (q + 3) - 1 = q + 2 /\ (i + 2) - 1 = i + 1
            /\ i + 1 <= Len(u) /\ m + 1 \in 0..(i + 2) /\ (m + 1) + 1 < i + 2
        BY <1>4, <1>5, <1>7, <1>8, <2>1, <3>6
      <4>2. e[q + 2]
        BY <2>1, <3>6, <4>1, CharsOf
      <4>3. u[i + 1] = "backslash"
        BY <1>5, <2>1, <3>6
      <4>4. \A k \in ((m + 1) + 1)..(i + 1) : u[k] = "backslash"
        <5>1. \A k \in ((m + 1) + 1)..(i + 1) : k \in (m + 1)..i \/ k = i + 1
          BY <1>4, <1>7
        <5>. QED BY <3>2, <4>3, <5>1
      <4>5. Behind(u, i + 2, m + 1)
        BY <2>3, <4>1, <4>4 DEF Behind
      <4>6. Amid(s, u, i + 2)
        BY <1>5, <2>1, <2>2, <4>1, <4>2, <4>5 DEF Amid
      <4>. QED BY <4>6
    <3>7. q + 2 > n \/ q + 2 <= n
      BY <1>4, <1>8
    <3>. QED BY <3>4, <3>5, <3>6, <3>7
  <2>. QED BY <2>5, <2>6
<1>. QED BY <1>10, <1>11

LEMMA AmidIs ==
  ASSUME NEW s \in Seq(Char), Clean(s, Len(s)), NEW q \in 1..(Len(s) + 1), Escapes(s)[q - 1],
         NEW m, Cont(s, m, q - 1)
  PROVE  /\ q \in 1..Len(s) /\ s[q] \in Escapable /\ ~Escapes(s)[q]
         /\ Meaning(s)[m + 1] = Replacement(s[q]) /\ Cont(s, m + 1, q + 1)
         /\ s[q] # "backslash" => Meaning(s)[m + 1] # "backslash"
<1>1. q - 1 # 0
  BY EscapesAre
<1>2. PICK r \in 1..Len(s) : r = q - 1
  BY <1>1
<1>3. Escapes(s)[r] /\ Cont(s, m, r) /\ q = r + 1 /\ q + 1 = r + 2
  BY <1>2
<1>4. r + 1 \in 1..Len(s) /\ s[r + 1] \in Escapable /\ ~Escapes(s)[r + 1]
  BY <1>3, CharsOf
<1>5. Meaning(s)[m + 1] = Replacement(s[r + 1]) /\ Cont(s, m + 1, r + 2)
  BY <1>3, ContEscape
<1>6. s[q] # "backslash" => Meaning(s)[m + 1] # "backslash"
  BY <1>3, <1>4, <1>5, ReplacementIs
<1>. QED BY <1>3, <1>4, <1>5, <1>6

LEMMA AmidReplaced ==
  ASSUME NEW s \in Seq(Char), Clean(s, Len(s)), NEW t \in Seq(Char), Len(t) <= Len(s),
         NEW j \in Nat \ {0}, EndOf(s, t, j), Amid(s, t, j),
         NEW i, NEW u, Replaced(t, j, u, i)
  PROVE  Ahead(s, u, i + 2) \/ Different(s, u, i + 2)
<1>. DEFINE n == Len(s)
            e == Escapes(s)
            M == Meaning(s)
<1>1. PICK p : p = Src(s, t, i)
  OBVIOUS
<1>2. PICK q : q = Src(s, t, j)
  OBVIOUS
<1>3. Search(t, j, i)
  BY DEF Replaced
<1>4. /\ p \in 1..n /\ q \in 1..p /\ i \in Nat /\ j <= i /\ n \in Nat /\ Len(t) \in Nat
      /\ s[p] = "backslash"
      /\ s[q] # "backslash" => j < i
      /\ s[q] = "backslash" => j = i /\ p = q
  BY <1>1, <1>2, <1>3, SearchIs
<1>5. /\ Src(s, u, i + 2) = p + 3 /\ p + 1 \in 1..n /\ s[p + 1] \in Escapable
      /\ u[i] = Replacement(s[p + 1]) /\ i <= Len(u) /\ Len(u) \in Nat
      /\ p + 2 <= n => i + 1 <= Len(u) /\ u[i + 1] = s[p + 2]
  BY <1>1, ReplacedIs
<1>6. PICK m \in 0..j : Behind(t, j, m) /\ e[q - 1] /\ Cont(s, m, q - 1)
  BY <1>2 DEF Amid
<1>7. m \in Nat /\ m + 1 < j /\ \A k \in (m + 1)..(i - 1) : k < j => u[k] = "backslash"
  <2>1. \A k \in (m + 1)..(i - 1) : k < j => k \in (m + 1)..(j - 1) /\ k \in 1..(i - 1)
    BY <1>4
  <2>. QED BY <1>6, <2>1 DEF Behind, Replaced
<1>8. q \in 1..n /\ q \in 1..(n + 1)
  BY <1>4
<1>9. i + 2 \in Nat /\ u \in Seq(Char)
  BY <1>4 DEF Replaced
<1>10. /\ ~e[q] /\ Cont(s, m + 1, q + 1)
       /\ s[q] # "backslash" => M[m + 1] # "backslash"
  BY <1>6, <1>8, AmidIs
<1>11. CASE s[q] # "backslash"
  <2>1. m + 1 \in (m + 1)..(i - 1) /\ m + 1 < j
    BY <1>4, <1>7, <1>11
  <2>2. u[m + 1] = "backslash"
    BY <1>7, <2>1
  <2>3. m + 1 \in Nat \ {0} /\ m + 1 < i + 2 /\ m + 1 <= Len(u)
    BY <1>4, <1>5, <1>7
  <2>. QED BY <1>9, <1>10, <1>11, <2>2, <2>3, DifferentAt
<1>12. CASE s[q] = "backslash"
  <2>1. p = q /\ i = j /\ q + 1 \in 1..n /\ (q + 1) - 1 = q /\ (q + 1) + 1 = q + 2
        /\ (q + 1) + 2 = q + 3 /\ q \in Nat /\ q + 1 <= n
    BY <1>4, <1>5, <1>12
  <2>2. s[q + 1] # "quote" /\ (e[q + 1] <=> s[q + 1] = "backslash")
    BY <1>10, <2>1, EscapeStep
  <2>3. /\ m + 2 \in Nat \ {0} /\ m + 2 < i + 2 /\ m + 2 <= Len(u) /\ m + 2 <= i
        /\ (m + 1) + 1 = m + 2
    BY <1>4, <1>5, <1>7, <2>1
  <2>4. \A k \in (m + 1)..(i - 1) : u[k] = "backslash"
    <3>1. \A k \in (m + 1)..(i - 1) : k < j
      BY <1>4, <1>7, <2>1
    <3>. QED BY <1>7, <3>1
  <2>5. m + 2 \in (m + 1)..(i - 1) \/ m + 2 = i
    BY <1>4, <1>7, <2>3
  <2>6. CASE s[q + 1] # "backslash"
    <3>1. s[q + 1] = "n"
      BY <1>5, <2>1, <2>2, <2>6 DEF Escapable
    <3>2. M[m + 2] = "n"
      BY <1>10, <2>1, <2>2, <2>3, <3>1, ContPlain
    <3>3. u[m + 2] # "n"
      <4>1. u[i] = "lf"
        BY <1>5, <2>1, <3>1 DEF Replacement
      <4>. QED BY <2>4, <2>5, <4>1
    <3>. QED BY <1>9, <2>3, <3>2, <3>3, DifferentAt
  <2>7. CASE s[q + 1] = "backslash"
    <3>1. e[q + 1]
      BY <2>2, <2>7
    <3>2. u[i] = "backslash"
      BY <1>5, <2>1, <2>7, ReplacementIs
    <3>3. \A k \in (m + 1)..i : u[k] = "backslash"
      <4>1. \A k \in (m + 1)..i : k \in (m + 1)..(i - 1) \/ k = i
        BY <1>4, <1>7
      <4>. QED BY <2>4, <3>2, <4>1
    <3>4. /\ q + 2 \in 1..n /\ s[q + 2] \in Escapable /\ ~e[q + 2]
          /\ M[m + 2] = Replacement(s[q + 2]) /\ Cont(s, m + 2, q + 3)
      <4>1. q + 2 \in 1..n /\ s[q + 2] \in Escapable /\ ~e[q + 2]
        BY <2>1, <3>1, CharsOf
      <4>2. M[m + 2] = Replacement(s[q + 2]) /\ Cont(s, m + 2, q + 3)
        BY <1>10, <2>1, <2>3, <3>1, ContEscape
      <4>. QED BY <4>1, <4>2
    <3>5. CASE s[q + 2] # "backslash"
      <4>1. M[m + 2] # "backslash"
        BY <3>4, <3>5, ReplacementIs
      <4>2. u[m + 2] = "backslash"
        BY <2>4, <2>5, <3>2
      <4>. QED BY <1>9, <2>3, <4>1, <4>2, DifferentAt
    <3>6. CASE s[q + 2] = "backslash"
      <4>1. /\ (q + 3) - 1 = q + 2 /\ (i + 2) - 1 = i + 1
            /\ i + 1 <= Len(u) /\ m + 2 \in 0..(i + 2) /\ (m + 2) + 1 < i + 2 /\ m + 2 \in Nat
        BY <1>4, <1>5, <1>7, <2>1, <3>4
      <4>2. u[i + 1] = "backslash"
        BY <1>5, <2>1, <3>4, <3>6
      <4>3. \A k \in ((m + 2) + 1)..(i + 1) : u[k] = "backslash"
        <5>1. \A k \in ((m + 2) + 1)..(i + 1) : k \in (m + 1)..i \/ k = i + 1
          BY <1>4, <1>7
        <5>. QED BY <3>3, <4>2, <5>1
      <4>4. Behind(u, i + 2, m + 2)
        BY <4>1, <4>3 DEF Behind
      <4>5. Ahead(s, u, i + 2)
        BY <1>5, <2>1, <3>4, <4>1, <4>4 DEF Ahead
      <4>. QED BY <4>5
    <3>. QED BY <3>5, <3>6
  <2>. QED BY <2>6, <2>7
<1>. QED BY <1>11, <1>12

LEMMA ContToEnd ==
  ASSUME NEW s \in Seq(Char), Clean(s, Len(s)), NEW m, NEW q \in 1..(Len(s) + 1), Cont(s, m, q),
         ~Escapes(s)[q - 1], \A r \in q..Len(s) : s[r] # "backslash"
  PROVE  /\ Len(Meaning(s)) = m + ((Len(s) + 1) - q)
         /\ \A r \in q..Len(s) : Meaning(s)[m + (r - q) + 1] = s[r]
<1>1. Len(s) \in Nat
  OBVIOUS
<1>2. PICK p \in q..(Len(s) + 1) : p = Len(s) + 1
  BY <1>1
<1>3. p - 1 = Len(s) /\ p > Len(s) /\ q \in Nat \ {0}
  BY <1>1, <1>2
<1>4. /\ Cont(s, m + (p - q), p)
      /\ \A r \in q..(p - 1) : Meaning(s)[m + (r - q) + 1] = s[r]
  BY <1>3, ContRun
<1>5. Len(Meaning(s)) = m + (p - q)
  BY <1>3, <1>4, ContEnd
<1>. QED BY <1>2, <1>3, <1>4, <1>5

(* The generator passes a backslash over only in what it has spoilt.       *)
LEMMA PassedOver ==
  ASSUME NEW s \in Seq(Char), Clean(s, Len(s)), NEW t \in Seq(Char), Len(t) <= Len(s),
         NEW j \in Nat \ {0}, EndOf(s, t, j), Written(s, t, j),
         NEW i, Search(t, j, i), i + 1 <= Len(t) => t[i + 1] \notin Escapable
  PROVE  Adjacent(s) /\ Different(s, t, i + 1)
<1>. DEFINE n == Len(s)
            e == Escapes(s)
            M == Meaning(s)
<1>1. PICK p : p = Src(s, t, i)
  OBVIOUS
<1>2. PICK q : q = Src(s, t, j)
  OBVIOUS
<1>3. /\ p \in 1..n /\ q \in 1..p /\ i \in Nat /\ j <= i /\ n \in Nat /\ Len(t) \in Nat
      /\ s[p] = "backslash"
      /\ \A r \in q..(p - 1) : s[r] # "backslash"
      /\ i + 1 <= Len(t) <=> p + 1 <= n
      /\ i + 1 <= Len(t) => t[i + 1] = s[p + 1]
      /\ s[q] # "backslash" => j < i
      /\ s[q] = "backslash" => j = i /\ p = q
  BY <1>1, <1>2, SearchIs
<1>4. ~e[p]
  <2>. SUFFICES ASSUME e[p] PROVE FALSE
    OBVIOUS
  <2>1. p + 1 \in 1..n /\ s[p + 1] \in Escapable
    BY <1>3, CharsOf
  <2>2. p + 1 <= n
    BY <1>3, <2>1
  <2>. QED BY <1>3, <2>1, <2>2
<1>5. ASSUME Alike(s, t, j) PROVE FALSE
  <2>1. ~e[q - 1] /\ Cont(s, j - 1, q) /\ q \in Nat \ {0} /\ p \in q..(n + 1)
    BY <1>2, <1>3, <1>5 DEF Alike
  <2>2. ~e[p - 1]
    BY <1>3, <2>1, ContRun
  <2>. QED BY <1>3, <1>4, <2>2, CharsOf
<1>6. i + 1 \in Nat /\ i <= Len(t) /\ q \in 1..n /\ q \in 1..(n + 1) /\ (q - 1) + 1 = q
  BY <1>3 DEF Search
<1>7. ASSUME Ahead(s, t, j) PROVE Different(s, t, i + 1)
  <2>1. PICK m \in 0..j : Behind(t, j, m) /\ ~e[q - 1] /\ Cont(s, m, q)
    BY <1>2, <1>7 DEF Ahead
  <2>2. m + 1 \in Nat \ {0} /\ m + 1 < i + 1 /\ m + 1 <= Len(t) /\ t[m + 1] = "backslash"
    <3>1. m + 1 \in (m + 1)..(j - 1) /\ m + 1 < j
      BY <2>1 DEF Behind
    <3>2. t[m + 1] = "backslash"
      BY <2>1, <3>1 DEF Behind
    <3>. QED BY <1>3, <1>6, <3>1, <3>2
  <2>3. ~e[q] /\ s[q] # "backslash"
    <3>1. s[q] = "backslash" => e[q]
      BY <1>6, <2>1, CharsOf
    <3>2. s[q] # "backslash" => ~e[q]
      BY <1>6, CharsOf
    <3>. QED BY <1>3, <1>4, <3>1, <3>2
  <2>4. M[m + 1] = s[q]
    BY <1>6, <2>1, <2>3, ContPlain
  <2>. QED BY <1>6, <2>2, <2>3, <2>4, DifferentAt
<1>8. ASSUME Amid(s, t, j) PROVE Different(s, t, i + 1)
  <2>1. PICK m \in 0..j : Behind(t, j, m) /\ e[q - 1] /\ Cont(s, m, q - 1)
    BY <1>2, <1>8 DEF Amid
  <2>2. m + 1 < j /\ m \in Nat /\ \A k \in (m + 1)..(j - 1) : t[k] = "backslash"
    BY <2>1 DEF Behind
  <2>3. ~e[q] /\ Cont(s, m + 1, q + 1) /\ (s[q] # "backslash" => M[m + 1] # "backslash")
    BY <1>6, <2>1, AmidIs
  <2>4. CASE s[q] # "backslash"
    <3>1. m + 1 \in Nat \ {0} /\ m + 1 < i + 1 /\ m + 1 <= Len(t) /\ t[m + 1] = "backslash"
      BY <1>3, <1>6, <2>2
    <3>. QED BY <1>6, <2>3, <2>4, <3>1, DifferentAt
  <2>5. CASE s[q] = "backslash"
    <3>1. m + 2 \in Nat \ {0} /\ m + 2 < i + 1 /\ m + 2 <= Len(t) /\ t[m + 2] = "backslash"
          /\ (m + 1) + 1 = m + 2
      <4>1. i = j /\ t[i] = "backslash"
        BY <1>3, <2>5 DEF Search
      <4>2. m + 2 = i \/ m + 2 \in (m + 1)..(j - 1)
        BY <1>3, <2>2, <4>1
      <4>3. m + 2 \in Nat \ {0} /\ m + 2 < i + 1 /\ m + 2 <= Len(t) /\ (m + 1) + 1 = m + 2
        BY <1>3, <1>6, <2>2, <4>1
      <4>. QED BY <2>2, <4>1, <4>2, <4>3
    <3>2. CASE q + 1 > n
      <4>1. Len(M) = m + 1
        BY <2>3, <3>2, ContEnd
      <4>2. m + 2 > Len(M)
        BY <2>2, <4>1
      <4>. QED BY <1>6, <3>1, <4>2, DifferentAt
    <3>3. CASE q + 1 <= n
      <4>1. q + 1 \in 1..n /\ q \in Nat
        BY <1>3, <3>3
      <4>2. s[q + 1] \notin Escapable
        BY <1>3, <2>5, <3>3
      <4>3. ~e[q + 1] /\ s[q + 1] # "backslash"
        BY <2>3, <3>3, <4>1, <4>2, EscapeStep DEF Escapable
      <4>4. M[m + 2] = s[q + 1]
        BY <2>3, <3>1, <4>1, <4>3, ContPlain
      <4>. QED BY <1>6, <3>1, <4>3, <4>4, DifferentAt
    <3>4. q + 1 > n \/ q + 1 <= n
      BY <1>3
    <3>. QED BY <3>2, <3>3, <3>4
  <2>. QED BY <2>4, <2>5
<1>9. ASSUME Different(s, t, j) PROVE Different(s, t, i + 1)
  <2>1. j \in Nat /\ j <= i + 1
    BY <1>3
  <2>. QED BY <1>6, <1>9, <2>1, DifferentStays
<1>. QED BY <1>5, <1>7, <1>8, <1>9 DEF Written

(* Where no backslash is left, what was written and what was meant end.    *)
LEMMA AllWritten ==
  ASSUME NEW s \in Seq(Char), Clean(s, Len(s)), NEW t \in Seq(Char), Len(t) <= Len(s),
         NEW j \in Nat \ {0}, EndOf(s, t, j), Written(s, t, j),
         \A k \in j..Len(t) : t[k] # "backslash"
  PROVE  t = Meaning(s) <=> ~Adjacent(s)
<1>. DEFINE n == Len(s)
            e == Escapes(s)
            M == Meaning(s)
<1>1. n \in Nat /\ Len(t) \in Nat /\ M \in Seq(Char) /\ Len(M) \in Nat
  <2>1. n \in Nat /\ Len(t) \in Nat /\ M \in Seq(Char)
    BY ContStart
  <2>. HIDE DEF M
  <2>. QED BY <2>1
<1>2. PICK q \in Nat \ {0} : q = Src(s, t, j) /\ q = j + (n - Len(t))
  <2>1. j + (n - Len(t)) \in Nat \ {0}
    BY <1>1
  <2>2. j + (n - Len(t)) = Src(s, t, j)
    BY DEF Src
  <2>. QED BY <2>1, <2>2
<1>3. \A r \in q..n : s[r] # "backslash"
  <2>. SUFFICES ASSUME NEW r \in q..n PROVE s[r] # "backslash"
    OBVIOUS
  <2>1. r - (n - Len(t)) \in j..Len(t) /\ (r - (n - Len(t))) + (n - Len(t)) = r
    BY <1>1, <1>2
  <2>2. t[r - (n - Len(t))] # "backslash"
    BY <2>1
  <2>3. t[r - (n - Len(t))] = s[r]
    BY <2>1 DEF EndOf
  <2>. QED BY <2>2, <2>3
<1>4. ASSUME Alike(s, t, j) PROVE t = M /\ ~Adjacent(s)
  <2>1. /\ \A k \in 1..Len(t) : k < j => t[k] = M[k]
        /\ \A r \in 1..(n - 2) : e[r] /\ e[r + 2] => r + 2 >= q
    BY <1>2, <1>4 DEF Alike
  <2>2. ~Adjacent(s)
    <3>. SUFFICES ASSUME NEW r \in 1..(n - 2), e[r], e[r + 2] PROVE FALSE
      BY DEF Adjacent
    <3>1. r + 2 \in q..n /\ r + 2 \in 1..n
      BY <1>1, <1>2, <2>1
    <3>2. s[r + 2] # "backslash"
      BY <1>3, <3>1
    <3>. QED BY <3>1, <3>2, CharsOf
  <2>3. CASE q > n + 1
    <3>1. Len(M) = Len(t) /\ \A k \in 1..Len(t) : k < j
      <4>1. Len(M) = Len(t)
        BY <1>2, <1>4, <2>3 DEF Alike
      <4>. QED BY <1>1, <1>2, <2>3, <4>1
    <3>2. \A k \in 1..Len(t) : t[k] = M[k]
      BY <2>1, <3>1
    <3>. QED BY <1>1, <2>2, <3>1, <3>2, SeqEqual
  <2>4. CASE q <= n + 1
    <3>1. ~e[q - 1] /\ Cont(s, j - 1, q) /\ q \in 1..(n + 1)
      BY <1>1, <1>2, <1>4, <2>4 DEF Alike
    <3>2. /\ Len(M) = (j - 1) + ((n + 1) - q)
          /\ \A r \in q..n : M[(j - 1) + (r - q) + 1] = s[r]
      BY ZenonT(60), <1>3, <3>1, ContToEnd
    <3>4. Len(M) = Len(t)
      BY <1>1, <1>2, <3>2
    <3>5. ASSUME NEW k \in 1..Len(t) PROVE t[k] = M[k]
      <4>1. CASE k < j
        BY <2>1, <4>1
      <4>2. CASE k >= j
        <5>1. /\ k + (n - Len(t)) \in q..n /\ k \in j..Len(t)
              /\ (j - 1) + ((k + (n - Len(t))) - q) + 1 = k
          BY <1>1, <1>2, <4>2
        <5>2. M[(j - 1) + ((k + (n - Len(t))) - q) + 1] = s[k + (n - Len(t))]
          BY <3>2, <5>1
        <5>3. t[k] = s[k + (n - Len(t))]
          BY <5>1 DEF EndOf
        <5>. QED BY <5>1, <5>2, <5>3
      <4>. QED BY <4>1, <4>2
    <3>. QED BY <1>1, <2>2, <3>4, <3>5, SeqEqual
  <2>5. q > n + 1 \/ q <= n + 1
    BY <1>1, <1>2
  <2>. QED BY <2>3, <2>4, <2>5
<1>5. ASSUME Ahead(s, t, j) PROVE t # M
  <2>1. PICK m \in 0..j : Behind(t, j, m) /\ ~e[q - 1] /\ Cont(s, m, q)
    BY <1>2, <1>5 DEF Ahead
  <2>2. m \in Nat /\ m + 1 < j /\ j - 1 <= Len(t)
    BY <2>1 DEF Behind
  <2>3. q \in 1..(n + 1)
    BY <1>1, <1>2, <2>2
  <2>4. Len(M) = m + ((n + 1) - q)
    BY <1>3, <2>1, <2>3, ContToEnd
  <2>5. Len(M) # Len(t)
    BY <1>1, <1>2, <2>2, <2>4
  <2>. QED BY <2>5
<1>6. ASSUME Amid(s, t, j) PROVE t # M
  <2>1. PICK m \in 0..j : Behind(t, j, m) /\ e[q - 1] /\ Cont(s, m, q - 1)
    BY <1>2, <1>6 DEF Amid
  <2>2. m \in Nat /\ m + 1 < j /\ j - 1 <= Len(t)
    BY <2>1 DEF Behind
  <2>3. q \in 1..(n + 1)
    BY <1>1, <1>2, <2>2
  <2>4. q \in 1..n /\ ~e[q] /\ Cont(s, m + 1, q + 1)
    BY <2>1, <2>3, AmidIs
  <2>5. q + 1 \in 1..(n + 1) /\ (q + 1) - 1 = q /\ \A r \in (q + 1)..n : r \in q..n
    BY <1>1, <2>4
  <2>6. \A r \in (q + 1)..n : s[r] # "backslash"
    BY <1>3, <2>5
  <2>7. Len(M) = (m + 1) + ((n + 1) - (q + 1))
    BY <2>4, <2>5, <2>6, ContToEnd
  <2>8. Len(M) # Len(t)
    BY <1>1, <1>2, <2>2, <2>7
  <2>. QED BY <2>8
<1>7. ASSUME Different(s, t, j) PROVE t # M
  <2>1. PICK k \in 1..Len(t) : k > Len(M) \/ M[k] # t[k]
    BY <1>7 DEF Different
  <2>. HIDE DEF M
  <2>. QED BY <1>1, <2>1
<1>. QED BY <1>4, <1>5, <1>6, <1>7 DEF Written

WriteInv ==
  IsText => /\ state = "generating" => EndOf(token, text, idx) /\ Written(token, text, idx)
            /\ state = "generated" => (text = Meaning(token) <=> ~Adjacent(token))

LEMMA WriteStarts ==
  ASSUME NEW s \in Seq(Char), Clean(s, Len(s))
  PROVE  EndOf(s, s, 1) /\ Written(s, s, 1)
<1>1. /\ Len(s) \in Nat /\ Len(s) - Len(s) = 0 /\ 1 - 1 = 0 /\ 1 + 0 = 1 /\ ~(1 > Len(s) + 1)
      /\ \A k \in 1..Len(s) : k + 0 = k /\ ~(k < 1)
      /\ \A r \in 1..(Len(s) - 2) : r + 2 >= 1
  OBVIOUS
<1>2. Src(s, s, 1) = 1
  BY <1>1 DEF Src
<1>3. EndOf(s, s, 1)
  <2>. SUFFICES ASSUME NEW k \in 1..Len(s) PROVE s[k] = s[k + (Len(s) - Len(s))]
    BY DEF EndOf
  <2>1. k + (Len(s) - Len(s)) = k
    BY <1>1
  <2>. QED BY <2>1
<1>4. ~Escapes(s)[1 - 1] /\ Cont(s, 1 - 1, 1)
  BY <1>1, EscapesAre, ContStart
<1>5. Alike(s, s, 1)
  BY <1>1, <1>2, <1>4 DEF Alike
<1>. QED BY <1>3, <1>5 DEF Written

LEMMA WriteReplaced ==
  ASSUME NEW s \in Seq(Char), Clean(s, Len(s)), NEW t \in Seq(Char), Len(t) <= Len(s),
         NEW j \in Nat \ {0}, EndOf(s, t, j), Written(s, t, j),
         NEW i, NEW u, Replaced(t, j, u, i)
  PROVE  EndOf(s, u, i + 2) /\ Written(s, u, i + 2)
<1>1. EndOf(s, u, i + 2)
  BY ReplacedIs
<1>2. ASSUME Different(s, t, j) PROVE Different(s, u, i + 2)
  <2>1. i \in Nat /\ j <= i /\ i <= Len(u) /\ u \in Seq(Char) /\ Len(u) \in Nat
    <3>1. Search(t, j, i) /\ u \in Seq(Char)
      BY DEF Replaced
    <3>2. i \in Nat /\ j <= i
      BY <3>1, SearchIs
    <3>3. i <= Len(u) /\ Len(u) \in Nat
      BY ReplacedIs
    <3>. QED BY <3>1, <3>2, <3>3
  <2>2. ASSUME NEW k \in 1..Len(t), k < j PROVE k \in 1..Len(u) /\ u[k] = t[k]
    <3>1. k \in 1..(i - 1) /\ k \in 1..Len(u)
      BY <2>1, <2>2
    <3>. QED BY <3>1 DEF Replaced
  <2>3. i + 2 \in Nat /\ j <= i + 2 /\ j \in Nat
    BY <2>1
  <2>. QED BY <1>2, <2>1, <2>2, <2>3, DifferentStays
<1>3. Written(s, u, i + 2)
  <2>1. CASE Alike(s, t, j)
    BY <2>1, AlikeReplaced
  <2>2. CASE Ahead(s, t, j)
    BY <2>2, AheadReplaced, AlikeReplaced DEF Written
  <2>3. CASE Amid(s, t, j)
    BY <2>3, AmidReplaced, AlikeReplaced DEF Written
  <2>4. CASE Different(s, t, j)
    BY <1>2, <2>4, AlikeReplaced DEF Written
  <2>. QED BY <2>1, <2>2, <2>3, <2>4 DEF Written
<1>. QED BY <1>1, <1>3

LEMMA StepWrite == LitInv /\ WriteInv /\ [Next]_vars => WriteInv'
<1>. SUFFICES ASSUME LitInv, LitInv', WriteInv, [Next]_vars, IsText'
              PROVE  /\ state' = "generating" => EndOf(token, text, idx)' /\ Written(token, text, idx)'
                     /\ state' = "generated" => (text' = Meaning(token)' <=> ~Adjacent(token)')
  BY StepLit DEF WriteInv
<1>1. /\ TextInv /\ TextInv' /\ ReadInv /\ ReadInv'
      /\ token \in Seq(Char) /\ text \in Seq(Char) /\ Len(text) <= Len(token)
      /\ Len(text) \in Nat /\ Len(token) \in Nat /\ idx \in Nat \ {0}
  <2>1. TextInv /\ TextInv' /\ ReadInv /\ ReadInv'
    BY DEF LitInv
  <2>2. token \in Seq(Char) /\ text \in Seq(Char) /\ Len(text) <= Len(token)
    BY <2>1 DEF TextInv
  <2>3. Len(text) \in Nat /\ Len(token) \in Nat
    BY <2>2
  <2>. QED BY <2>1, <2>2, <2>3 DEF TextInv
<1>2. ASSUME Generating, Replace \/ PassOver \/ EndString
      PROVE  /\ Clean(token, Len(token)) /\ EndOf(token, text, idx) /\ Written(token, text, idx)
             /\ token' = token
  <2>1. IsText /\ state = "generating"
    BY <1>2 DEF Generating, IsText
  <2>2. Clean(token, Len(token))
    BY <1>1, <2>1 DEF ReadInv, HaveReadInv
  <2>3. token' = token
    BY <1>2 DEF Replace, PassOver, EndString
  <2>. QED BY <2>1, <2>2, <2>3 DEF WriteInv
<1>3. CASE Terminated
  <2>. SUFFICES ASSUME state' = "generating"
                PROVE  EndOf(token, text, idx)' /\ Written(token, text, idx)'
    BY <1>3 DEF Terminated
  <2>1. text' = token /\ token' = token /\ idx' = 1
    BY <1>1, <1>3 DEF Terminated, Lexing, TextInv
  <2>2. Clean(token', Len(token'))
    BY <1>1 DEF ReadInv, HaveReadInv
  <2>3. EndOf(token, token, 1) /\ Written(token, token, 1)
    BY <1>1, <2>1, <2>2, WriteStarts
  <2>. QED BY <2>1, <2>3
<1>4. CASE Replace
  <2>1. Generating /\ state' = state /\ state = "generating"
    BY <1>4 DEF Replace, Generating
  <2>2. PICK i \in 1..(Len(text) - 1) :
          /\ i >= idx /\ text[i] = "backslash" /\ text[i + 1] \in Escapable
          /\ \A j \in idx..(i - 1) : text[j] # "backslash"
          /\ text' \in Seq(Char) /\ Len(text') = Len(text) - 1
          /\ \A k \in 1..(i - 1) : text'[k] = text[k]
          /\ text'[i] = Replacement(text[i + 1])
          /\ \A k \in (i + 1)..(Len(text) - 1) : text'[k] = text[k + 1]
          /\ idx' = i + 2
    BY <1>1, <1>4, ReplaceIs
  <2>3. i \in 1..Len(text) /\ i + 1 <= Len(text)
    BY <1>1
  <2>4. Replaced(text, idx, text', i)
    BY <2>2, <2>3 DEF Replaced, Search
  <2>5. EndOf(token, text', i + 2) /\ Written(token, text', i + 2) /\ token' = token
    BY <1>1, <1>2, <1>4, <2>1, <2>4, WriteReplaced
  <2>6. state' # "generated"
    BY <2>1
  <2>. QED BY <2>2, <2>5, <2>6
<1>5. CASE PassOver
  <2>1. Generating /\ state' = state /\ state = "generating"
    BY <1>5 DEF PassOver, Generating
  <2>2. PICK i \in 1..Len(text) :
          /\ i >= idx /\ text[i] = "backslash"
          /\ i + 1 <= Len(text) => text[i + 1] \notin Escapable
          /\ \A j \in idx..(i - 1) : text[j] # "backslash"
          /\ idx' = i + 1 /\ text' = text
    BY <1>1, <1>5, PassOverIs
  <2>3. Search(text, idx, i)
    BY <2>2 DEF Search
  <2>4. token' = token /\ Adjacent(token) /\ Different(token, text, i + 1)
    BY <1>1, <1>2, <1>5, <2>1, <2>2, <2>3, PassedOver
  <2>5. EndOf(token, text, i + 1)
    <3>1. \A k \in (i + 1)..Len(text) : k \in idx..Len(text)
      BY <1>1, <2>2
    <3>. QED BY <1>2, <1>5, <2>1, <3>1 DEF EndOf
  <2>6. Written(token, text, i + 1)
    BY <2>4 DEF Written
  <2>7. state' # "generated"
    BY <2>1
  <2>. QED BY <2>2, <2>4, <2>5, <2>6, <2>7
<1>6. CASE EndString
  <2>1. Generating /\ state' = "generated" /\ text' = text
    BY <1>6 DEF EndString
  <2>2. \A k \in idx..Len(text) : text[k] # "backslash"
    <3>1. \A k \in idx..Len(text) : k \in 1..Len(text)
      BY <1>1
    <3>2. \A k \in 1..Len(text) : ~Found(k)
      BY <1>1, <1>6 DEF EndString
    <3>. DEFINE S == {k \in idx..Len(text) : text[k] = "backslash"}
    <3>. SUFFICES ASSUME S # {} PROVE FALSE
      OBVIOUS
    <3>3. S \subseteq Nat
      BY <1>1
    <3>4. PICK k \in S : \A l \in S : ~(l < k)
      <4>. DEFINE R == OpToRel(<, Nat)
      <4>. HIDE DEF S, R
      <4>1. IsWellFoundedOn(R, Nat)
        BY NatLessThanWellFounded DEF R
      <4>2. PICK k \in S : \A l \in S : ~(<<l, k>> \in R)
        BY <3>3, <4>1, WFMin
      <4>. QED BY <3>3, <4>2 DEF R, OpToRel
    <3>5. \A l \in idx..(k - 1) : text[l] # "backslash"
      BY <1>1, <3>4
    <3>6. Found(k)
      BY <3>5 DEF Found
    <3>. QED BY <3>1, <3>2, <3>6
  <2>3. text = Meaning(token) <=> ~Adjacent(token)
    BY <1>1, <1>2, <1>6, <2>1, <2>2, AllWritten
  <2>4. token' = token /\ state' # "generating"
    BY <1>2, <1>6, <2>1
  <2>. QED BY <2>1, <2>3, <2>4
<1>7. CASE AllowedChars \/ IllegalNewline \/ IllegalEscape \/ Unrecognized \/ Unterminated
  <2>1. state' \in {"lexing", "rejected"}
    BY <1>7 DEF AllowedChars, IllegalNewline, IllegalEscape, Unrecognized, Unterminated, Lexing, Take
  <2>. QED BY <2>1
<1>8. CASE CheckInt \/ GenerateInt
  BY <1>8 DEF CheckInt, GenerateInt, IsText
<1>9. CASE UNCHANGED vars
  BY <1>9 DEF vars, WriteInv, IsText
<1>. QED BY <1>3, <1>4, <1>5, <1>6, <1>7, <1>8, <1>9 DEF Next

(* For strings of any length: what is generated is what was meant exactly  *)
(* if no escape follows another one at once.                               *)
THEOREM StringsWritten == Spec => []StringsAreWritten
<1>1. Init => LitInv /\ WriteInv
  BY InitLit DEF Init, WriteInv
<1>2. LitInv /\ WriteInv /\ [Next]_vars => (LitInv /\ WriteInv)'
  BY StepLit, StepWrite
<1>3. WriteInv => StringsAreWritten
  BY DEF WriteInv, StringsAreWritten, IsText
<1>. QED BY <1>1, <1>2, <1>3, PTL DEF Spec
=============================================================================
