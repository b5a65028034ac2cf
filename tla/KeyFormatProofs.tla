---------------------------- MODULE KeyFormatProofs ----------------------------
(***************************************************************************)
(* Formatting a private key, for every text and every line width.          *)
(*                                                                         *)
(* Cutting the text into lines puts each character at one place, in order, *)
(* and nothing else on the lines.  Text and Joined are recursive           *)
(* functions: each is shown to be the result of one pass                   *)
(* (NaturalRecursion); Text distributes over concatenation; and by         *)
(* induction over the lines, those joined so far have the text cut so far  *)
(* and a line break at each multiple of the line width plus one.           *)
(***************************************************************************)
EXTENDS KeyFormat, NaturalRecursion

\* Where the i-th character of the text ends up.
LineOf(i)  == ((i - 1) \div LineWidth) + 1
PlaceOf(i) == ((i - 1) % LineWidth) + 1

-----------------------------------------------------------------------------
(* Arithmetic. *)

\* Division by the line width.
LEMMA Division ==
  ASSUME NEW n \in Nat
  PROVE  /\ n \div LineWidth \in Nat
         /\ n % LineWidth \in 0..(LineWidth - 1)
         /\ n = LineWidth * (n \div LineWidth) + (n % LineWidth)
BY LineWidthAssumption, SMT

\* Multiplication by the line width keeps the order.
LEMMA Monotone ==
  ASSUME NEW a \in Nat, NEW b \in Nat, a <= b
  PROVE  LineWidth * a \in Nat /\ LineWidth * b \in Nat /\ LineWidth * a <= LineWidth * b
BY LineWidthAssumption, SMT

\* ... and so does cancelling it.
LEMMA Cancel ==
  ASSUME NEW a \in Nat, NEW b \in Nat, LineWidth * a < LineWidth * b
  PROVE  a < b
BY LineWidthAssumption, SMT

\* One line further.
LEMMA Step ==
  ASSUME NEW k \in Nat \ {0}
  PROVE  LineWidth * k = LineWidth * (k - 1) + LineWidth /\ LineWidth * (k - 1) \in Nat
BY LineWidthAssumption, SMT

\* The number of lines is that of the full lines, and one more for the rest:
\* the last line ends at or behind the end of the text, the one before does not.
LEMMA Rounding ==
  ASSUME NEW S, NEW body \in Seq(S)
  PROVE  /\ NumberOfLines(body) \in Nat
         /\ Len(body) <= LineWidth * NumberOfLines(body)
         /\ \A k \in 1..NumberOfLines(body) : LineWidth * (k - 1) < Len(body)
<1> DEFINE n == Len(body) + LineWidth - 1
           q == n \div LineWidth
<1>1. n \in Nat /\ Len(body) \in Nat /\ LineWidth \in Nat \ {0}
  BY LineWidthAssumption
<1>2. /\ q \in Nat
      /\ n % LineWidth \in 0..(LineWidth - 1)
      /\ n = LineWidth * q + (n % LineWidth)
  BY <1>1, Division
<1>3. NumberOfLines(body) = q
  BY DEF NumberOfLines
<1>4. LineWidth * q \in Nat
  BY <1>1, <1>2, Monotone
<1> HIDE DEF q
<1>5. Len(body) <= LineWidth * q
  BY <1>1, <1>2, <1>4
<1>6. ASSUME NEW k \in 1..q
      PROVE  LineWidth * (k - 1) < Len(body)
  <2>1. LineWidth * k = LineWidth * (k - 1) + LineWidth /\ LineWidth * (k - 1) \in Nat
    <3>1. k \in Nat \ {0}
      BY <1>2
    <3> QED
      BY <3>1, Step
  <2>2. LineWidth * k <= LineWidth * q
    BY <1>2, Monotone
  <2> QED
    BY <1>1, <1>2, <1>4, <2>1, <2>2
<1> QED
  BY <1>2, <1>3, <1>5, <1>6

-----------------------------------------------------------------------------
(* The lines. *)

\* A line is the part of the text between two multiples of the line width.
LEMMA LineIs ==
  ASSUME NEW S, NEW body \in Seq(S), NEW k \in 1..NumberOfLines(body)
  PROVE  /\ Lines(body)[k] \in Seq(S)
         /\ LineEnd(body, k) \in Nat
         /\ LineEnd(body, k) <= Len(body)
         /\ LineEnd(body, k) <= LineWidth * k
         /\ k < NumberOfLines(body) => LineEnd(body, k) = LineWidth * k
         /\ k = NumberOfLines(body) => LineEnd(body, k) = Len(body)
         /\ Len(Lines(body)[k]) = LineEnd(body, k) - LineWidth * (k - 1)
         /\ Len(Lines(body)[k]) \in 1..LineWidth
         /\ \A j \in 1..Len(Lines(body)[k]) :
              Lines(body)[k][j] = body[LineWidth * (k - 1) + j]
<1> DEFINE from == LineWidth * (k - 1)
           end == LineEnd(body, k)
<1>1. NumberOfLines(body) \in Nat /\ Len(body) \in Nat /\ LineWidth \in Nat \ {0}
  BY Rounding, LineWidthAssumption
<1>2. k \in Nat \ {0} /\ k <= NumberOfLines(body)
  BY <1>1
<1>3. LineWidth * k = from + LineWidth /\ from \in Nat
  BY <1>2, Step
<1>4. from < Len(body)
  BY Rounding
<1>5. /\ end \in Nat /\ end <= Len(body) /\ end <= LineWidth * k
      /\ from < end
  BY <1>1, <1>3, <1>4 DEF LineEnd
<1>6. k < NumberOfLines(body) => end = LineWidth * k
  <2> SUFFICES ASSUME k < NumberOfLines(body)
               PROVE  end = LineWidth * k
    OBVIOUS
  <2>1. LineWidth * ((k + 1) - 1) < Len(body)
    <3>1. k + 1 \in 1..NumberOfLines(body)
      BY <1>1, <1>2
    <3> QED
      BY <3>1, Rounding
  <2>2. (k + 1) - 1 = k
    BY <1>2
  <2> QED
    BY <1>1, <1>3, <2>1, <2>2 DEF LineEnd
<1>7. k = NumberOfLines(body) => end = Len(body)
  BY <1>1, <1>3, Rounding DEF LineEnd
<1>8. Lines(body)[k] = SubSeq(body, from + 1, end)
  BY DEF Lines
<1> HIDE DEF from, end
<1>9. /\ SubSeq(body, from + 1, end) \in Seq(S)
      /\ Len(SubSeq(body, from + 1, end)) = end - from
      /\ \A j \in 1..(end - from) : SubSeq(body, from + 1, end)[j] = body[from + j]
  BY <1>1, <1>3, <1>5
<1>10. end - from \in 1..LineWidth
  BY <1>1, <1>3, <1>5
<1> QED
  BY <1>5, <1>6, <1>7, <1>8, <1>9, <1>10 DEF from, end

\* formatPrivateKey cuts the text of a key into lines that are full but for the
\* last and none of which is empty; each character of the text is on a line, and
\* each character on a line is that of the text at the same distance from the
\* beginning, so that none is lost, repeated or moved, at whatever length.
THEOREM LinesKeepTheText ==
  ASSUME NEW S, NEW body \in Seq(S)
  PROVE  /\ Lines(body) \in Seq(Seq(S))
         /\ \A k \in 1..Len(Lines(body)) :
              /\ Len(Lines(body)[k]) \in 1..LineWidth
              /\ k < Len(Lines(body)) => Len(Lines(body)[k]) = LineWidth
              /\ \A j \in 1..Len(Lines(body)[k]) :
                   /\ LineWidth * (k - 1) + j \in 1..Len(body)
                   /\ Lines(body)[k][j] = body[LineWidth * (k - 1) + j]
         /\ \A i \in 1..Len(body) :
              /\ LineOf(i) \in 1..Len(Lines(body))
              /\ PlaceOf(i) \in 1..Len(Lines(body)[LineOf(i)])
              /\ Lines(body)[LineOf(i)][PlaceOf(i)] = body[i]
<1>1. NumberOfLines(body) \in Nat /\ Len(body) \in Nat /\ LineWidth \in Nat \ {0}
  BY Rounding, LineWidthAssumption
<1>2. \A k \in 1..NumberOfLines(body) : Lines(body)[k] \in Seq(S)
  BY LineIs
<1>3. Lines(body) \in Seq(Seq(S)) /\ Len(Lines(body)) = NumberOfLines(body)
  <2>1. Lines(body) \in [1..NumberOfLines(body) -> Seq(S)]
    BY <1>2 DEF Lines
  <2> QED
    BY <1>1, <2>1
<1>4. ASSUME NEW k \in 1..NumberOfLines(body)
      PROVE  /\ Len(Lines(body)[k]) \in 1..LineWidth
             /\ k < NumberOfLines(body) => Len(Lines(body)[k]) = LineWidth
             /\ \A j \in 1..Len(Lines(body)[k]) :
                  /\ LineWidth * (k - 1) + j \in 1..Len(body)
                  /\ Lines(body)[k][j] = body[LineWidth * (k - 1) + j]
  <2>1. LineWidth * k = LineWidth * (k - 1) + LineWidth /\ LineWidth * (k - 1) \in Nat
    <3>1. k \in Nat \ {0}
      BY <1>1
    <3> QED
      BY <3>1, Step
  <2>2. Len(Lines(body)[k]) \in 1..LineWidth
    BY LineIs
  <2>3. k < NumberOfLines(body) => Len(Lines(body)[k]) = LineWidth
    <3>1. k < NumberOfLines(body) => LineEnd(body, k) = LineWidth * k
      BY LineIs
    <3>2. Len(Lines(body)[k]) = LineEnd(body, k) - LineWidth * (k - 1)
      BY LineIs
    <3> QED
      BY <1>1, <2>1, <3>1, <3>2
  <2>4. ASSUME NEW j \in 1..Len(Lines(body)[k])
        PROVE  LineWidth * (k - 1) + j \in 1..Len(body)
    <3>1. /\ LineEnd(body, k) \in Nat /\ LineEnd(body, k) <= Len(body)
          /\ Len(Lines(body)[k]) = LineEnd(body, k) - LineWidth * (k - 1)
      BY LineIs
    <3> QED
      BY <1>1, <2>1, <3>1
  <2>5. \A j \in 1..Len(Lines(body)[k]) :
          Lines(body)[k][j] = body[LineWidth * (k - 1) + j]
    BY LineIs
  <2> QED
    BY <2>2, <2>3, <2>4, <2>5
<1>5. ASSUME NEW i \in 1..Len(body)
      PROVE  /\ LineOf(i) \in 1..NumberOfLines(body)
             /\ PlaceOf(i) \in 1..Len(Lines(body)[LineOf(i)])
             /\ Lines(body)[LineOf(i)][PlaceOf(i)] = body[i]
  <2> DEFINE q == (i - 1) \div LineWidth
             r == (i - 1) % LineWidth
  <2>1. i - 1 \in Nat
    BY <1>1
  <2>2. q \in Nat /\ r \in 0..(LineWidth - 1) /\ i - 1 = LineWidth * q + r
    BY <2>1, Division
  <2>3. LineOf(i) = q + 1 /\ PlaceOf(i) = r + 1
    BY DEF LineOf, PlaceOf
  <2> HIDE DEF q, r
  <2>4. LineWidth * q \in Nat
    BY <2>2, Monotone
  <2>5. q + 1 \in 1..NumberOfLines(body)
    <3>1. LineWidth * q < LineWidth * NumberOfLines(body)
      <4>1. LineWidth * NumberOfLines(body) \in Nat
        BY <1>1, Monotone
      <4>2. Len(body) <= LineWidth * NumberOfLines(body)
        BY Rounding
      <4> QED
        BY <1>1, <2>2, <2>4, <4>1, <4>2
    <3> QED
      BY <1>1, <2>2, <3>1, Cancel
  <2>6. /\ LineWidth * ((q + 1) - 1) = LineWidth * q
        /\ LineWidth * (q + 1) = LineWidth * q + LineWidth
    BY <2>2, Step
  <2>7. r + 1 \in 1..Len(Lines(body)[q + 1])
    <3>1. /\ LineEnd(body, q + 1) = LineWidth * (q + 1) \/ LineEnd(body, q + 1) = Len(body)
          /\ Len(Lines(body)[q + 1]) = LineEnd(body, q + 1) - LineWidth * q
      BY <1>1, <2>5, <2>6, LineIs
    <3> QED
      BY <1>1, <2>2, <2>4, <2>6, <3>1
  <2>8. Lines(body)[q + 1][r + 1] = body[i]
    <3>1. Lines(body)[q + 1][r + 1] = body[LineWidth * ((q + 1) - 1) + (r + 1)]
      BY <2>5, <2>7, LineIs
    <3>2. LineWidth * ((q + 1) - 1) + (r + 1) = i
      BY <1>1, <2>2, <2>4, <2>6
    <3> QED
      BY <3>1, <3>2
  <2> QED
    BY <2>3, <2>5, <2>7, <2>8
<1> QED
  BY <1>3, <1>4, <1>5

-----------------------------------------------------------------------------
(* The text of a key. *)

\* The text of a key is found by one pass over it.
LEMMA TextIs ==
  ASSUME NEW S, NEW key \in Seq(S)
  PROVE  \E f \in [0..Len(key) -> Seq(S)] :
           /\ f[0] = <<>>
           /\ \A k \in 1..Len(key) :
                f[k] = IF key[k] = Newline THEN f[k - 1] ELSE Append(f[k - 1], key[k])
           /\ Text(key) = f[Len(key)]
<1> DEFINE n == Len(key)
           Strings == Seq(S)
           After(s, k) == IF key[k] = Newline THEN s ELSE Append(s, key[k])
           next == [p \in Strings \X (1..n) |-> After(p[1], p[2])]
           Pass(f) == f = [k \in 0..n |-> IF k = 0 THEN <<>> ELSE After(f[k - 1], k)]
           g == CHOOSE f : Pass(f)
<1>1. n \in Nat /\ <<>> \in Strings
  OBVIOUS
<1>2. \A s \in Strings, k \in 1..n : After(s, k) \in Strings
  OBVIOUS
<1>3. Text(key) = g[n]
  BY Zenon DEF Text
<1> HIDE DEF n, After, Strings
<1>4. \E f \in [0..n -> Strings] : Follows(f, n, <<>>, next)
  <2>1. next \in [Strings \X (1..n) -> Strings]
    BY <1>2
  <2> HIDE DEF next
  <2>2. QED
    BY <1>1, <2>1, Recursion
<1>5. PICK f \in [0..n -> Strings] : Follows(f, n, <<>>, next)
  BY <1>4
<1>6. \A k \in 1..n : f[k] = After(f[k - 1], k)
  <2>1. \A k \in 1..n : f[k - 1] \in Strings
    BY <1>1
  <2>2. QED
    BY <1>5, <2>1 DEF Follows
<1>7. Pass(f)
  BY <1>1, <1>5, <1>6 DEF Follows
<1>8. Pass(g)
  BY <1>7, Zenon
<1> HIDE DEF g
<1>9. /\ DOMAIN g = 0..n
      /\ g[0] = <<>> /\ \A k \in 1..n : g[k] = After(g[k - 1], k)
  BY <1>1, <1>8
<1>10. \A k \in 0..n : g[k] \in Strings
  <2> DEFINE T == {k \in 0..n : g[k] \in Strings}
  <2>1. 0 \in T
    BY <1>1, <1>9
  <2>2. \A k \in 1..n : k - 1 \in T => k \in T
    BY <1>1, <1>2, <1>9
  <2> HIDE DEF T
  <2>3. \A k \in 0..n : k \in T
    BY <1>1, <2>1, <2>2, BoundedInduction
  <2>4. QED
    BY <2>3 DEF T
<1>11. g \in [0..n -> Strings]
  BY <1>8, <1>9, <1>10
<1>12. QED
  BY <1>3, <1>9, <1>11 DEF n, After, Strings

\* The text of nothing, and of one more character.
LEMMA TextOfAppend ==
  ASSUME NEW S, NEW key \in Seq(S), NEW char \in S
  PROVE  /\ Text(key) \in Seq(S)
         /\ Text(Append(key, char)) =
              IF char = Newline THEN Text(key) ELSE Append(Text(key), char)
<1> DEFINE n == Len(key)
           more == Append(key, char)
<1>1. /\ n \in Nat /\ more \in Seq(S) /\ Len(more) = n + 1 /\ more[n + 1] = char
      /\ \A k \in 1..n : more[k] = key[k]
  OBVIOUS
<1>2. PICK f \in [0..n -> Seq(S)] :
        /\ f[0] = <<>>
        /\ \A k \in 1..n : f[k] = IF key[k] = Newline THEN f[k - 1] ELSE Append(f[k - 1], key[k])
        /\ Text(key) = f[n]
  BY TextIs
<1> HIDE DEF more
<1>3. PICK g \in [0..(n + 1) -> Seq(S)] :
        /\ g[0] = <<>>
        /\ \A k \in 1..(n + 1) :
             g[k] = IF more[k] = Newline THEN g[k - 1] ELSE Append(g[k - 1], more[k])
        /\ Text(more) = g[n + 1]
  BY <1>1, TextIs
<1> HIDE DEF n
<1>4. g[n] = f[n]
  <2> DEFINE T == {k \in 0..n : g[k] = f[k]}
  <2>1. 0 \in T
    BY <1>1, <1>2, <1>3
  <2>2. ASSUME NEW k \in 1..n, k - 1 \in T
        PROVE  k \in T
    <3>1. k \in 1..(n + 1) /\ more[k] = key[k] /\ g[k - 1] = f[k - 1]
      BY <1>1, <2>2
    <3>2. QED
      BY <1>2, <1>3, <3>1
  <2> HIDE DEF T
  <2>3. \A k \in 0..n : k \in T
    BY <1>1, <2>1, <2>2, BoundedInduction
  <2>4. QED
    BY <1>1, <2>3 DEF T
<1>5. g[n + 1] = IF char = Newline THEN g[n] ELSE Append(g[n], char)
  <2>1. n + 1 \in 1..(n + 1) /\ (n + 1) - 1 = n
    BY <1>1
  <2>2. QED
    BY <1>1, <1>3, <2>1
<1>6. f[n] \in Seq(S)
  BY <1>1
<1>7. QED
  BY <1>2, <1>3, <1>4, <1>5, <1>6 DEF more

\* The text of nothing.
LEMMA TextOfNothing == Text(<<>>) = <<>>
<1> DEFINE none == <<>>
<1>1. none \in Seq({}) /\ Len(none) = 0
  OBVIOUS
<1> HIDE DEF none
<1>2. \E f \in [0..Len(none) -> Seq({})] : f[0] = <<>> /\ Text(none) = f[Len(none)]
  BY <1>1, TextIs
<1>3. Text(none) = <<>>
  BY <1>1, <1>2, Zenon
<1>4. QED
  BY <1>3 DEF none

\* The text of a sequence is a sequence of the same things.
LEMMA TextTyped ==
  ASSUME NEW S, NEW key \in Seq(S)
  PROVE  Text(key) \in Seq(S)
<1>1. PICK f \in [0..Len(key) -> Seq(S)] : Text(key) = f[Len(key)]
  BY TextIs
<1>2. Len(key) \in 0..Len(key)
  OBVIOUS
<1>3. QED
  BY <1>1, <1>2

\* What is where in a concatenation.
LEMMA Concatenated ==
  ASSUME NEW S, NEW a \in Seq(S), NEW b \in Seq(S)
  PROVE  /\ a \o b \in Seq(S) /\ Len(a \o b) = Len(a) + Len(b)
         /\ \A i \in 1..Len(a) : (a \o b)[i] = a[i]
         /\ \A j \in 1..Len(b) : (a \o b)[Len(a) + j] = b[j]
  OBVIOUS

\* A sequence is found by appending one element after the other.
LEMMA Prefixes ==
  ASSUME NEW S, NEW s \in Seq(S)
  PROVE  /\ SubSeq(s, 1, 0) = <<>>
         /\ SubSeq(s, 1, Len(s)) = s
         /\ \A k \in 0..Len(s) : SubSeq(s, 1, k) \in Seq(S) /\ Len(SubSeq(s, 1, k)) = k
         /\ \A k \in 1..Len(s) : SubSeq(s, 1, k) = Append(SubSeq(s, 1, k - 1), s[k])
<1>1. \A k \in 1..Len(s) : SubSeq(s, 1, k) = Append(SubSeq(s, 1, k - 1), s[k])
  <2> TAKE k \in 1..Len(s)
  <2>1. /\ SubSeq(s, 1, k) \in Seq(S) /\ Len(SubSeq(s, 1, k)) = k
        /\ \A i \in 1..k : SubSeq(s, 1, k)[i] = s[i]
    OBVIOUS
  <2>2. /\ SubSeq(s, 1, k - 1) \in Seq(S) /\ Len(SubSeq(s, 1, k - 1)) = k - 1
        /\ \A i \in 1..(k - 1) : SubSeq(s, 1, k - 1)[i] = s[i]
    OBVIOUS
  <2> DEFINE p == SubSeq(s, 1, k)
             q == SubSeq(s, 1, k - 1)
  <2>3. s[k] \in S /\ k \in Nat
    OBVIOUS
  <2> HIDE DEF p, q
  <2>4. /\ Append(q, s[k]) \in Seq(S) /\ Len(Append(q, s[k])) = k
        /\ \A i \in 1..k : Append(q, s[k])[i] = s[i]
    BY <2>2, <2>3 DEF q
  <2>5. p = Append(q, s[k])
    BY <2>1, <2>4 DEF p
  <2>6. QED
    BY <2>5 DEF p, q
<1>2. QED
  BY <1>1

\* What has no line breaks is all text.
LEMMA TextOfPlain ==
  ASSUME NEW S, NEW s \in Seq(S), \A i \in 1..Len(s) : s[i] # Newline
  PROVE  Text(s) = s
<1> DEFINE n == Len(s)
           p(k) == SubSeq(s, 1, k)
           T == {k \in 0..n : Text(p(k)) = p(k)}
<1>1. /\ n \in Nat /\ p(0) = <<>> /\ p(n) = s
      /\ \A k \in 0..n : p(k) \in Seq(S)
      /\ \A k \in 1..n : s[k] \in S /\ s[k] # Newline /\ p(k) = Append(p(k - 1), s[k])
  BY Prefixes
<1> HIDE DEF n, p
<1>2. 0 \in T
  <2>1. 0 \in 0..n
    BY <1>1
  <2>2. Text(p(0)) = p(0)
    BY <1>1, TextOfNothing, Zenon
  <2>3. QED
    BY <2>1, <2>2
<1>3. ASSUME NEW k \in 1..n, k - 1 \in T
      PROVE  k \in T
  <2>1. k - 1 \in 0..n /\ k \in 0..n
    BY <1>1
  <2>2. Text(Append(p(k - 1), s[k])) = Append(Text(p(k - 1)), s[k])
    BY <1>1, <2>1, TextOfAppend, Zenon
  <2>3. Text(p(k)) = p(k)
    BY <1>1, <1>3, <2>2, Zenon
  <2>4. QED
    BY <2>1, <2>3
<1> HIDE DEF T
<1>4. \A k \in 0..n : k \in T
  BY <1>1, <1>2, <1>3, BoundedInduction
<1>5. n \in 0..n
  BY <1>1
<1>6. QED
  BY <1>1, <1>4, <1>5, Zenon DEF T

\* The text of two sequences is that of the one and then that of the other.
LEMMA TextOfConcat ==
  ASSUME NEW S, NEW a \in Seq(S), NEW b \in Seq(S)
  PROVE  Text(a \o b) = Text(a) \o Text(b)
<1> DEFINE n == Len(b)
           p(k) == SubSeq(b, 1, k)
           T == {k \in 0..n : Text(a \o p(k)) = Text(a) \o Text(p(k))}
<1>1. /\ n \in Nat /\ p(0) = <<>> /\ p(n) = b
      /\ \A k \in 0..n : p(k) \in Seq(S)
      /\ \A k \in 1..n : b[k] \in S /\ p(k) = Append(p(k - 1), b[k])
  BY Prefixes
<1> HIDE DEF n, p
<1>2. 0 \in T
  <2>1. Text(a) \in Seq(S)
    BY TextTyped
  <2>2. a \o <<>> = a /\ Text(a) \o <<>> = Text(a)
    BY <2>1
  <2>3. 0 \in 0..n
    BY <1>1
  <2>4. Text(a \o p(0)) = Text(a) \o Text(p(0))
    BY <1>1, <2>2, TextOfNothing, Zenon
  <2>5. QED
    BY <2>3, <2>4
<1>3. ASSUME NEW k \in 1..n, k - 1 \in T
      PROVE  k \in T
  <2> DEFINE q == p(k - 1)
             c == b[k]
  <2>1. k \in 0..n /\ p(k) = Append(q, c) /\ q \in Seq(S) /\ c \in S
    <3>1. k \in 0..n /\ k - 1 \in 0..n
      BY <1>1
    <3>2. QED
      BY <1>1, <3>1, Zenon
  <2>2. Text(a \o q) = Text(a) \o Text(q)
    BY <1>3
  <2> HIDE DEF q, c
  <2>3. a \o q \in Seq(S) /\ a \o Append(q, c) = Append(a \o q, c)
    BY <2>1
  <2>4. Text(a) \in Seq(S) /\ Text(q) \in Seq(S)
    BY <2>1, TextTyped, Zenon
  <2> DEFINE ta == Text(a)
             tq == Text(q)
  <2> HIDE DEF ta, tq
  <2>5. ta \o Append(tq, c) = Append(ta \o tq, c)
    BY <2>1, <2>4 DEF ta, tq
  <2>6. /\ Text(Append(q, c)) = IF c = Newline THEN Text(q) ELSE Append(Text(q), c)
        /\ Text(Append(a \o q, c)) =
             IF c = Newline THEN Text(a \o q) ELSE Append(Text(a \o q), c)
    BY <2>1, <2>3, TextOfAppend, Zenon
  <2>7. Text(a \o Append(q, c)) = Text(a) \o Text(Append(q, c))
    BY <2>2, <2>3, <2>5, <2>6, Zenon DEF ta, tq
  <2>8. QED
    BY <2>1, <2>7
<1> HIDE DEF T
<1>4. \A k \in 0..n : k \in T
  BY <1>1, <1>2, <1>3, BoundedInduction
<1>5. n \in 0..n
  BY <1>1
<1>6. QED
  BY <1>1, <1>4, <1>5, Zenon DEF T

-----------------------------------------------------------------------------
(* Joining the lines. *)

\* strings.Join goes through the lines once.
LEMMA JoinedIs ==
  ASSUME NEW S, Newline \in S, NEW lines \in Seq(Seq(S))
  PROVE  \E f \in [0..Len(lines) -> Seq(S)] :
           /\ f[0] = <<>>
           /\ \A k \in 1..Len(lines) : f[k] = f[k - 1] \o lines[k] \o <<Newline>>
           /\ Joined(lines) = f[Len(lines)]
<1> DEFINE n == Len(lines)
           Strings == Seq(S)
           After(s, k) == s \o lines[k] \o <<Newline>>
           next == [p \in Strings \X (1..n) |-> After(p[1], p[2])]
           Pass(f) == f = [k \in 0..n |-> IF k = 0 THEN <<>> ELSE After(f[k - 1], k)]
           g == CHOOSE f : Pass(f)
<1>1. n \in Nat /\ <<>> \in Strings
  OBVIOUS
<1>2. \A s \in Strings, k \in 1..n : After(s, k) \in Strings
  <2> TAKE s \in Strings, k \in 1..n
  <2>1. lines[k] \in Strings /\ <<Newline>> \in Strings
    OBVIOUS
  <2>2. s \o lines[k] \in Strings
    BY <2>1
  <2>3. QED
    BY <2>1, <2>2
<1>3. Joined(lines) = g[n]
  BY Zenon DEF Joined
<1> HIDE DEF n, After, Strings
<1>4. \E f \in [0..n -> Strings] : Follows(f, n, <<>>, next)
  <2>1. next \in [Strings \X (1..n) -> Strings]
    BY <1>2
  <2> HIDE DEF next
  <2>2. QED
    BY <1>1, <2>1, Recursion
<1>5. PICK f \in [0..n -> Strings] : Follows(f, n, <<>>, next)
  BY <1>4
<1>6. \A k \in 1..n : f[k] = After(f[k - 1], k)
  <2>1. \A k \in 1..n : f[k - 1] \in Strings
    BY <1>1
  <2>2. QED
    BY <1>5, <2>1 DEF Follows
<1>7. Pass(f)
  BY <1>1, <1>5, <1>6 DEF Follows
<1>8. Pass(g)
  BY <1>7, Zenon
<1> HIDE DEF g
<1>9. /\ DOMAIN g = 0..n
      /\ g[0] = <<>> /\ \A k \in 1..n : g[k] = After(g[k - 1], k)
  BY <1>1, <1>8
<1>10. \A k \in 0..n : g[k] \in Strings
  <2> DEFINE T == {k \in 0..n : g[k] \in Strings}
  <2>1. 0 \in T
    BY <1>1, <1>9
  <2>2. \A k \in 1..n : k - 1 \in T => k \in T
    BY <1>1, <1>2, <1>9
  <2> HIDE DEF T
  <2>3. \A k \in 0..n : k \in T
    BY <1>1, <2>1, <2>2, BoundedInduction
  <2>4. QED
    BY <2>3 DEF T
<1>11. g \in [0..n -> Strings]
  BY <1>8, <1>9, <1>10
<1>12. QED
  BY <1>3, <1>9, <1>11 DEF n, After, Strings

\* How far the lines up to the k-th reach into the text.
Reach(body, k) == IF k = 0 THEN 0 ELSE LineEnd(body, k)

Between == LineWidth + 1

\* The k-th line, its line break, and what comes before, is a multiple of one
\* more than the line width, but for the last.
LEMMA Places ==
  ASSUME NEW k \in Nat, NEW j \in 1..LineWidth
  PROVE  /\ (Between * k) % Between = 0
         /\ (Between * k + j) % Between # 0
         /\ Between * (k + 1) = Between * k + LineWidth + 1
         /\ Between * k \in Nat
<1>1. LineWidth \in Nat \ {0} /\ Between \in Nat \ {0}
  BY LineWidthAssumption DEF Between
<1>2. Between * k \in Nat /\ Between * (k + 1) = Between * k + LineWidth + 1
  BY <1>1 DEF Between
<1>3. ASSUME NEW r \in 0..LineWidth
      PROVE  (Between * k + r) % Between = r
  <2> DEFINE a == Between * k + r
             q == a \div Between
             s == a % Between
  <2>1. a \in Nat
    BY <1>1, <1>2
  <2>2. q \in Nat /\ s \in 0..(Between - 1) /\ a = Between * q + s
    BY <1>1, <2>1, SMT
  <2>3. Between * q \in Nat
    BY <1>1, <2>2
  <2> HIDE DEF q, s
  <2>4. q = k
    <3>1. CASE q < k
      <4>1. Between * (q + 1) <= Between * k /\ Between * (q + 1) = Between * q + Between
        BY <1>1, <2>2, <3>1
      <4>2. QED
        BY <1>1, <1>2, <2>2, <2>3, <4>1 DEF Between
    <3>2. CASE k < q
      <4>1. Between * (k + 1) <= Between * q
        BY <1>1, <2>2, <3>2
      <4>2. QED
        BY <1>1, <1>2, <2>2, <2>3, <4>1 DEF Between
    <3>3. QED
      BY <2>2, <3>1, <3>2
  <2>5. s = r
    BY <1>1, <1>2, <2>2, <2>3, <2>4
  <2>6. QED
    BY <2>5 DEF s
<1>4. QED
  BY <1>1, <1>2, <1>3

\* The first k lines joined: what they say, how long they are, and where they break.
Broken(s) ==
  \A i \in 1..Len(s) : s[i] = Newline <=> i % Between = 0 \/ i = Len(s)

JoinedSoFar(body, s, k) ==
  /\ Text(s) = SubSeq(body, 1, Reach(body, k))
  /\ Len(s) = Reach(body, k) + k
  /\ Broken(s)

\* A line break is no text, any other character is.
LEMMA TextOfOne ==
  ASSUME NEW char
  PROVE  Text(<<char>>) = IF char = Newline THEN <<>> ELSE <<char>>
<1>1. <<>> \in Seq({char}) /\ char \in {char} /\ <<char>> = Append(<<>>, char)
  OBVIOUS
<1>2. Text(Append(<<>>, char)) = IF char = Newline THEN Text(<<>>) ELSE Append(Text(<<>>), char)
  BY <1>1, TextOfAppend, Zenon
<1>3. QED
  BY <1>1, <1>2, TextOfNothing, Zenon

\* The lines before the last one end at a multiple of the line width.
LEMMA ReachOfFull ==
  ASSUME NEW S, NEW body \in Seq(S), NEW k \in 1..NumberOfLines(body)
  PROVE  Reach(body, k - 1) = LineWidth * (k - 1)
<1>1. NumberOfLines(body) \in Nat /\ LineWidth \in Nat \ {0}
  BY Rounding, LineWidthAssumption
<1>2. CASE k = 1
  BY <1>1, <1>2 DEF Reach
<1>3. CASE k # 1
  <2>1. k - 1 \in 1..NumberOfLines(body) /\ k - 1 < NumberOfLines(body) /\ k - 1 # 0
    BY <1>1, <1>3
  <2>2. QED
    BY <2>1, LineIs DEF Reach
<1>4. QED
  BY <1>2, <1>3

\* One more line with its line break.
LEMMA JoinedOneMore ==
  ASSUME NEW S, Newline \in S, NEW body \in Seq(S),
         \A i \in 1..Len(body) : body[i] # Newline,
         NEW k \in 1..NumberOfLines(body), NEW s \in Seq(S),
         JoinedSoFar(body, s, k - 1)
  PROVE  JoinedSoFar(body, s \o Lines(body)[k] \o <<Newline>>, k)
<1> DEFINE line == Lines(body)[k]
           from == LineWidth * (k - 1)
           end == LineEnd(body, k)
           all == s \o line \o <<Newline>>
<1>1. /\ NumberOfLines(body) \in Nat /\ LineWidth \in Nat \ {0} /\ Len(body) \in Nat
      /\ k \in Nat \ {0} /\ from \in Nat
  BY Rounding, LineWidthAssumption
<1>2. /\ line \in Seq(S) /\ end \in Nat /\ end <= Len(body)
      /\ Len(line) = end - from /\ Len(line) \in 1..LineWidth
      /\ \A j \in 1..Len(line) : line[j] = body[from + j]
  BY LineIs
<1>3. Reach(body, k - 1) = from /\ Reach(body, k) = end
  BY <1>1, ReachOfFull DEF Reach
<1>4. /\ Text(s) = SubSeq(body, 1, from)
      /\ Len(s) = from + (k - 1)
      /\ Broken(s)
  BY <1>3 DEF JoinedSoFar
<1>5. from + (k - 1) = Between * (k - 1)
  BY <1>1 DEF Between
<1> HIDE DEF line, from, end
<1>6. \A j \in 1..Len(line) : line[j] # Newline
  BY <1>1, <1>2
<1>7. Text(all) = SubSeq(body, 1, end)
  <2>1. s \o line \in Seq(S) /\ <<Newline>> \in Seq(S)
    BY <1>2
  <2>2. Text(all) = Text(s \o line) \o Text(<<Newline>>)
    BY <2>1, TextOfConcat, Zenon
  <2>3. Text(s \o line) = Text(s) \o Text(line)
    BY <1>2, TextOfConcat, Zenon
  <2>4. Text(line) = line
    BY <1>2, <1>6, TextOfPlain, Zenon
  <2>5. (SubSeq(body, 1, from) \o line) \o <<>> = SubSeq(body, 1, end)
    <3> DEFINE before == SubSeq(body, 1, from)
               upTo == SubSeq(body, 1, end)
    <3>1. from <= end
      BY <1>1, <1>2
    <3>2. /\ before \in Seq(S) /\ Len(before) = from
          /\ \A i \in 1..from : before[i] = body[i]
      BY <1>1, <1>2, <3>1
    <3>3. /\ upTo \in Seq(S) /\ Len(upTo) = end
          /\ \A i \in 1..end : upTo[i] = body[i]
      BY <1>1, <1>2
    <3> HIDE DEF before, upTo
    <3> DEFINE both == before \o line
    <3>4. /\ both \in Seq(S) /\ Len(both) = Len(before) + Len(line)
          /\ \A i \in 1..Len(before) : both[i] = before[i]
          /\ \A j \in 1..Len(line) : both[Len(before) + j] = line[j]
      <4>1. before \in Seq(S) /\ line \in Seq(S)
        BY <1>2, <3>2
      <4>2. QED
        BY <4>1, Concatenated
    <3> HIDE DEF both
    <3>5. \A i \in 1..end : both[i] = body[i]
      <4> TAKE i \in 1..end
      <4>1. CASE i <= from
        BY <1>1, <1>2, <3>2, <3>4, <4>1
      <4>2. CASE ~(i <= from)
        <5>1. i - from \in 1..Len(line) /\ from + (i - from) = i
          BY <1>1, <1>2, <4>2
        <5>2. both[from + (i - from)] = line[i - from]
          BY <3>2, <3>4, <5>1
        <5>3. line[i - from] = body[from + (i - from)]
          BY <1>2, <5>1
        <5>4. QED
          BY <5>1, <5>2, <5>3
      <4>3. QED
        BY <4>1, <4>2
    <3>6. both = upTo
      <4>1. Len(both) = end
        BY <1>1, <1>2, <3>2, <3>4
      <4>2. QED
        BY <3>3, <3>4, <3>5, <4>1
    <3>7. upTo \o <<>> = upTo
      BY <3>3
    <3>8. QED
      BY <3>6, <3>7 DEF before, upTo, both
  <2>6. QED
    BY <1>4, <2>2, <2>3, <2>4, <2>5, TextOfOne, Zenon
<1>8. /\ all \in Seq(S) /\ Len(all) = Len(s) + Len(line) + 1
      /\ \A i \in 1..Len(s) : all[i] = s[i]
      /\ \A j \in 1..Len(line) : all[Len(s) + j] = line[j]
      /\ all[Len(s) + Len(line) + 1] = Newline
  <2>1. /\ s \o line \in Seq(S) /\ Len(s \o line) = Len(s) + Len(line)
        /\ \A i \in 1..Len(s) : (s \o line)[i] = s[i]
        /\ \A j \in 1..Len(line) : (s \o line)[Len(s) + j] = line[j]
    BY <1>2
  <2> DEFINE t == s \o line
  <2> HIDE DEF t
  <2>2. /\ t \o <<Newline>> \in Seq(S) /\ Len(t \o <<Newline>>) = Len(t) + 1
        /\ \A i \in 1..Len(t) : (t \o <<Newline>>)[i] = t[i]
        /\ (t \o <<Newline>>)[Len(t) + 1] = Newline
    BY <2>1 DEF t
  <2>3. \A i \in 1..Len(s) : i \in 1..Len(t)
    BY <1>2, <2>1 DEF t
  <2>4. \A j \in 1..Len(line) : Len(s) + j \in 1..Len(t)
    BY <1>2, <2>1 DEF t
  <2>5. QED
    BY <2>1, <2>2, <2>3, <2>4 DEF t
<1> HIDE DEF all
<1>9. Len(all) = end + k
  BY <1>1, <1>2, <1>4, <1>8
<1>10. Broken(all)
  <2> SUFFICES ASSUME NEW i \in 1..Len(all)
               PROVE  all[i] = Newline <=> i % Between = 0 \/ i = Len(all)
    BY DEF Broken
  <2>1. k - 1 \in Nat /\ Len(s) \in Nat /\ Len(line) \in Nat
    BY <1>1, <1>2
  <2>2. CASE i \in 1..Len(s)
    <3>1. all[i] = s[i] /\ i # Len(all)
      BY <1>8, <2>1, <2>2
    <3>2. i = Len(s) => i % Between = 0
      BY <1>2, <1>4, <1>5, <2>1, Places
    <3>3. s[i] = Newline <=> i % Between = 0 \/ i = Len(s)
      BY <1>4, <2>2 DEF Broken
    <3>4. QED
      BY <3>1, <3>2, <3>3
  <2>3. CASE i \in (Len(s) + 1)..(Len(s) + Len(line))
    <3>1. PICK j \in 1..Len(line) : i = Len(s) + j
      <4>1. i - Len(s) \in 1..Len(line) /\ i = Len(s) + (i - Len(s))
        BY <2>1, <2>3
      <4>2. QED
        BY <4>1
    <3>2. all[i] # Newline /\ i # Len(all)
      BY <1>6, <1>8, <2>1, <2>3, <3>1
    <3>3. j \in 1..LineWidth
      BY <1>1, <1>2
    <3>4. i % Between # 0
      BY <1>4, <1>5, <2>1, <3>1, <3>3, Places
    <3>5. QED
      BY <3>2, <3>4
  <2>4. CASE i = Len(all)
    BY <1>8, <2>4
  <2>5. \/ i \in 1..Len(s)
        \/ i \in (Len(s) + 1)..(Len(s) + Len(line))
        \/ i = Len(all)
    <3>1. Len(all) = Len(s) + Len(line) + 1
      BY <1>8
    <3>2. i \in Nat /\ 1 <= i /\ i <= Len(s) + Len(line) + 1
      BY <2>1, <3>1
    <3>3. QED
      BY <2>1, <3>1, <3>2
  <2>6. QED
    BY <2>2, <2>3, <2>4, <2>5
<1>11. JoinedSoFar(body, all, k)
  BY <1>3, <1>7, <1>9, <1>10 DEF JoinedSoFar
<1>12. QED
  BY <1>11 DEF all, line

\* All lines joined.
LEMMA JoinedLines ==
  ASSUME NEW S, Newline \in S, NEW body \in Seq(S),
         \A i \in 1..Len(body) : body[i] # Newline
  PROVE  /\ Joined(Lines(body)) \in Seq(S)
         /\ Text(Joined(Lines(body))) = body
         /\ Len(Joined(Lines(body))) >= Len(body)
         /\ Broken(Joined(Lines(body)))
<1> DEFINE m == NumberOfLines(body)
           lines == Lines(body)
<1>1. m \in Nat /\ Len(body) \in Nat /\ LineWidth \in Nat \ {0}
  BY Rounding, LineWidthAssumption
<1>2. lines \in Seq(Seq(S)) /\ Len(lines) = m
  <2>1. lines \in [1..m -> Seq(S)]
    BY LineIs DEF Lines
  <2> HIDE DEF m, lines
  <2>2. QED
    BY <1>1, <2>1
<1> HIDE DEF m, lines
<1>3. PICK f \in [0..m -> Seq(S)] :
        /\ f[0] = <<>>
        /\ \A k \in 1..m : f[k] = f[k - 1] \o lines[k] \o <<Newline>>
        /\ Joined(lines) = f[m]
  BY <1>2, JoinedIs
<1> DEFINE T == {k \in 0..m : JoinedSoFar(body, f[k], k)}
<1>4. 0 \in T
  <2>1. SubSeq(body, 1, 0) = <<>> /\ Len(<<>>) = 0 /\ 0 \in 0..m
    BY <1>1
  <2>2. Broken(<<>>)
    BY <2>1 DEF Broken
  <2>3. JoinedSoFar(body, f[0], 0)
    BY <1>3, <2>1, <2>2, TextOfNothing DEF JoinedSoFar, Reach
  <2>4. QED
    BY <2>1, <2>3
<1>5. ASSUME NEW k \in 1..m, k - 1 \in T
      PROVE  k \in T
  <2>1. k \in 0..m /\ f[k - 1] \in Seq(S) /\ JoinedSoFar(body, f[k - 1], k - 1)
    BY <1>1, <1>5
  <2>2. JoinedSoFar(body, f[k - 1] \o lines[k] \o <<Newline>>, k)
    BY <2>1, JoinedOneMore, Zenon DEF m, lines
  <2>3. QED
    BY <1>3, <2>1, <2>2
<1> HIDE DEF T
<1>6. \A k \in 0..m : k \in T
  BY <1>1, <1>4, <1>5, BoundedInduction
<1>7. m \in 0..m /\ f[m] \in Seq(S)
  BY <1>1
<1>8. JoinedSoFar(body, f[m], m)
  BY <1>6, <1>7, Zenon DEF T
<1>9. Reach(body, m) = Len(body)
  <2>1. CASE m = 0
    <3>1. Len(body) <= LineWidth * m
      BY Rounding DEF m
    <3>2. QED
      BY <1>1, <2>1, <3>1 DEF Reach
  <2>2. CASE m # 0
    <3>1. m \in 1..m
      BY <1>1, <2>2
    <3>2. QED
      BY <2>2, <3>1, LineIs DEF m, Reach
  <2>3. QED
    BY <2>1, <2>2
<1>10. SubSeq(body, 1, Len(body)) = body
  OBVIOUS
<1>11. Len(f[m]) = Len(body) + m
  BY <1>8, <1>9 DEF JoinedSoFar
<1>12. QED
  BY <1>1, <1>3, <1>7, <1>8, <1>9, <1>10, <1>11 DEF JoinedSoFar, lines

-----------------------------------------------------------------------------
(* The formatted key. *)

\* What is joined is a sequence, whatever is in the lines.
LEMMA JoinedTyped ==
  ASSUME NEW S, Newline \in S, NEW lines \in Seq(Seq(S))
  PROVE  Joined(lines) \in Seq(S)
<1>1. PICK f \in [0..Len(lines) -> Seq(S)] : Joined(lines) = f[Len(lines)]
  BY JoinedIs
<1>2. Len(lines) \in 0..Len(lines)
  OBVIOUS
<1>3. QED
  BY <1>1, <1>2

\* What is between header and footer is a part of the key.
LEMMA BodyTyped ==
  ASSUME NEW S, NEW key \in Seq(S), Matches(key)
  PROVE  Body(key) \in Seq(S)
<1> DEFINE h == CHOOSE i \in 1..Len(key) : \E f \in 1..Len(key) : MatchesAt(key, i, f)
           f == CHOOSE i \in 1..Len(key) : MatchesAt(key, h, i)
<1>1. h \in 1..Len(key) /\ \E i \in 1..Len(key) : MatchesAt(key, h, i)
  BY DEF Matches
<1> HIDE DEF h
<1>2. f \in 1..Len(key)
  BY <1>1
<1>3. Body(key) = SubSeq(key, h + 1, f - 1)
  BY DEF Body, h
<1> HIDE DEF f
<1>4. SubSeq(key, h + 1, f - 1) \in Seq(S)
  BY <1>1, <1>2
<1>5. QED
  BY <1>3, <1>4

\* Of a key on one line it is all but the first and the last.
LEMMA BodyOfOneLine ==
  ASSUME NEW S, NEW key \in Seq(S), IsOneLine(key)
  PROVE  /\ Matches(key) /\ ~IsOneOf(Newline, key)
         /\ Body(key) = SubSeq(key, 2, Len(key) - 1)
<1> DEFINE n == Len(key)
           h == CHOOSE i \in 1..n : \E f \in 1..n : MatchesAt(key, i, f)
           f == CHOOSE i \in 1..n : MatchesAt(key, h, i)
<1>1. /\ n \in Nat /\ n > 2 /\ key[1] = Header /\ key[n] = Footer
      /\ \A i \in 2..(n - 1) : key[i] \notin {Header, Footer, Newline}
  BY DEF IsOneLine
<1>2. MatchesAt(key, 1, n)
  BY <1>1 DEF MatchesAt
<1>3. 1 \in 1..n /\ n \in 1..n
  BY <1>1
<1>4. Matches(key)
  BY <1>2, <1>3 DEF Matches
<1>5. ~IsOneOf(Newline, key)
  <2> SUFFICES ASSUME NEW i \in 1..n
               PROVE  key[i] # Newline
    BY DEF IsOneOf
  <2>1. i = 1 \/ i = n \/ i \in 2..(n - 1)
    BY <1>1
  <2>2. QED
    BY <1>1, <2>1 DEF Header, Footer, Newline
<1>6. h \in 1..n /\ \E i \in 1..n : MatchesAt(key, h, i)
  BY <1>2, <1>3
<1>7. Body(key) = SubSeq(key, h + 1, f - 1)
  BY DEF Body
<1> HIDE DEF h
<1>8. h = 1
  <2>1. \A i \in 1..(h - 1) : key[i] # Header
    BY <1>6 DEF MatchesAt
  <2>2. QED
    BY <1>1, <1>6, <2>1
<1>9. f \in 1..n /\ MatchesAt(key, h, f)
  BY <1>6
<1> HIDE DEF f
<1>10. f = n
  <2>1. \A i \in (f + 1)..n : key[i] # Footer
    BY <1>9 DEF MatchesAt
  <2>2. QED
    BY <1>1, <1>9, <2>1
<1>11. QED
  BY <1>4, <1>5, <1>7, <1>8, <1>10

\* A formatted key: its header, a line break, the lines, its footer.
LEMMA Framed ==
  ASSUME NEW S, {Header, Footer, Newline} \subseteq S, NEW lines \in Seq(S)
  PROVE  LET key == <<Header, Newline>> \o lines \o <<Footer>>
         IN  /\ key \in Seq(S) /\ Len(key) = Len(lines) + 3
             /\ key[1] = Header /\ key[2] = Newline /\ key[Len(lines) + 3] = Footer
             /\ \A i \in 1..Len(lines) : key[i + 2] = lines[i]
             /\ Text(key) = <<Header>> \o Text(lines) \o <<Footer>>
<1> DEFINE front == <<Header, Newline>>
           back == <<Footer>>
           key == front \o lines \o back
<1>1. /\ front \in Seq(S) /\ Len(front) = 2 /\ front[1] = Header /\ front[2] = Newline
      /\ back \in Seq(S) /\ Len(back) = 1 /\ back[1] = Footer
      /\ <<Header>> \in Seq(S) /\ <<Newline>> \in Seq(S)
      /\ front = <<Header>> \o <<Newline>> /\ <<Header>>[1] = Header /\ Len(<<Header>>) = 1
      /\ <<Header>> \o <<>> = <<Header>>
      /\ Len(lines) \in Nat
  OBVIOUS
<1>2. Text(front) = <<Header>> /\ Text(back) = back
  <2>1. Text(<<Header>>) = <<Header>> /\ Text(<<Newline>>) = <<>> /\ Text(<<Footer>>) = <<Footer>>
    BY TextOfOne DEF Header, Footer, Newline
  <2>2. Text(<<Header>> \o <<Newline>>) = Text(<<Header>>) \o Text(<<Newline>>)
    BY <1>1, TextOfConcat, Zenon
  <2>3. QED
    BY <1>1, <2>1, <2>2, Zenon DEF back
<1> DEFINE most == front \o lines
<1> HIDE DEF front, back
<1>3. /\ most \in Seq(S) /\ Len(most) = 2 + Len(lines)
      /\ \A i \in 1..2 : most[i] = front[i]
      /\ \A j \in 1..Len(lines) : most[2 + j] = lines[j]
      /\ Text(most) = <<Header>> \o Text(lines)
  <2>1. /\ most \in Seq(S) /\ Len(most) = Len(front) + Len(lines)
        /\ \A i \in 1..Len(front) : most[i] = front[i]
        /\ \A j \in 1..Len(lines) : most[Len(front) + j] = lines[j]
    BY <1>1, Concatenated
  <2>2. Text(most) = Text(front) \o Text(lines)
    BY <1>1, TextOfConcat, Zenon
  <2>3. QED
    BY <1>1, <1>2, <2>1, <2>2
<1>4. key = most \o back
  OBVIOUS
<1> HIDE DEF most, key
<1>5. /\ key \in Seq(S) /\ Len(key) = Len(most) + 1
      /\ \A i \in 1..Len(most) : key[i] = most[i]
      /\ \A j \in 1..1 : key[Len(most) + j] = back[j]
  <2>1. /\ most \o back \in Seq(S) /\ Len(most \o back) = Len(most) + Len(back)
        /\ \A i \in 1..Len(most) : (most \o back)[i] = most[i]
        /\ \A j \in 1..Len(back) : (most \o back)[Len(most) + j] = back[j]
    <3>1. most \in Seq(S) /\ back \in Seq(S)
      BY <1>1, <1>3
    <3>2. QED
      BY <3>1, Concatenated
  <2>2. QED
    BY <1>1, <1>4, <2>1
<1>6. Text(key) = <<Header>> \o Text(lines) \o <<Footer>>
  <2>1. Text(most \o back) = Text(most) \o Text(back)
    BY <1>1, <1>3, TextOfConcat, Zenon
  <2>2. QED
    BY <1>2, <1>3, <1>4, <2>1, Zenon DEF back
<1>7. /\ key[1] = Header /\ key[2] = Newline /\ key[Len(lines) + 3] = Footer
      /\ Len(key) = Len(lines) + 3
  <2>1. 1 \in 1..Len(most) /\ 2 \in 1..Len(most) /\ 1 \in 1..2 /\ 2 \in 1..2
    BY <1>1, <1>3
  <2>2. key[1] = Header /\ key[2] = Newline
    BY <1>1, <1>3, <1>5, <2>1
  <2>3. key[Len(most) + 1] = Footer
    BY <1>1, <1>5
  <2>4. Len(most) + 1 = Len(lines) + 3
    BY <1>1, <1>3
  <2>5. QED
    BY <1>5, <2>2, <2>3, <2>4
<1>8. \A i \in 1..Len(lines) : key[i + 2] = lines[i]
  <2> TAKE i \in 1..Len(lines)
  <2>1. i + 2 \in 1..Len(most) /\ i + 2 = 2 + i
    BY <1>1, <1>3
  <2>2. QED
    BY <1>3, <1>5, <2>1
<1>9. QED
  BY <1>5, <1>6, <1>7, <1>8 DEF key, front, back

\* formatPrivateKey keeps the text of every key, of any length and for any line
\* width: one stored on a line gets its line breaks back, after the header, before
\* the footer and every LineWidth characters, and loses, repeats or moves nothing;
\* whatever was formatted is not changed by formatting it again.
THEOREM FormatKeepsTheText ==
  ASSUME NEW S, NEW key \in Seq(S)
  PROVE  KeepsItsText(key)
<1> DEFINE formatted == formatPrivateKey(key)
           all == S \cup {Header, Footer, Newline}
<1>1. key \in Seq(all) /\ Newline \in all /\ {Header, Footer, Newline} \subseteq all
  OBVIOUS
<1> HIDE DEF all
<1>2. formatPrivateKey(formatted) = formatted
  <2>1. CASE IsOneOf(Newline, key) \/ ~Matches(key)
    BY <2>1 DEF formatPrivateKey
  <2>2. CASE ~(IsOneOf(Newline, key) \/ ~Matches(key))
    <3> DEFINE joined == Joined(Lines(Body(key)))
    <3>1. Lines(Body(key)) \in Seq(Seq(all))
      BY <1>1, <2>2, BodyTyped, LinesKeepTheText
    <3>2. joined \in Seq(all)
      BY <1>1, <3>1, JoinedTyped
    <3>3. formatted = <<Header, Newline>> \o joined \o <<Footer>>
      BY <2>2 DEF formatPrivateKey
    <3> HIDE DEF joined, formatted
    <3>4. Len(formatted) = Len(joined) + 3 /\ formatted[2] = Newline
      BY <1>1, <3>2, <3>3, Framed
    <3>5. 2 \in 1..Len(formatted)
      BY <3>2, <3>4
    <3>6. IsOneOf(Newline, formatted)
      BY <3>4, <3>5 DEF IsOneOf
    <3>7. QED
      BY <3>6 DEF formatPrivateKey
  <2>3. QED
    BY <2>1, <2>2
<1>3. ASSUME IsOneLine(key)
      PROVE  Text(formatted) = key /\ WellBroken(formatted)
  <2> DEFINE n == Len(key)
             body == SubSeq(key, 2, n - 1)
             joined == Joined(Lines(body))
  <2>1. /\ n \in Nat /\ n > 2 /\ key[1] = Header /\ key[n] = Footer
        /\ \A i \in 2..(n - 1) : key[i] # Newline
    BY <1>3 DEF IsOneLine
  <2>2. /\ body \in Seq(all) /\ Len(body) = n - 2
        /\ \A i \in 1..(n - 2) : body[i] = key[i + 1]
    BY <1>1, <2>1
  <2>3. \A i \in 1..Len(body) : body[i] # Newline
    <3> TAKE i \in 1..Len(body)
    <3>1. i \in 1..(n - 2) /\ i + 1 \in 2..(n - 1)
      BY <2>1, <2>2
    <3>2. QED
      BY <2>1, <2>2, <3>1
  <2>4. formatted = <<Header, Newline>> \o joined \o <<Footer>>
    BY <1>3, BodyOfOneLine DEF formatPrivateKey
  <2> HIDE DEF body, formatted
  <2>5. /\ joined \in Seq(all) /\ Text(joined) = body
        /\ Len(joined) >= Len(body) /\ Broken(joined)
    BY <1>1, <2>2, <2>3, JoinedLines
  <2> HIDE DEF joined
  <2>6. /\ Len(formatted) = Len(joined) + 3
        /\ formatted[1] = Header /\ formatted[2] = Newline
        /\ formatted[Len(joined) + 3] = Footer
        /\ \A i \in 1..Len(joined) : formatted[i + 2] = joined[i]
        /\ Text(formatted) = <<Header>> \o body \o <<Footer>>
    BY <1>1, <2>4, <2>5, Framed
  <2>7. <<Header>> \o body \o <<Footer>> = key
    <3>1. /\ <<Header>> \in Seq(all) /\ Len(<<Header>>) = 1 /\ <<Header>>[1] = Header
          /\ <<Footer>> \in Seq(all) /\ Len(<<Footer>>) = 1 /\ <<Footer>>[1] = Footer
      BY <1>1
    <3> DEFINE front == <<Header>> \o body
               whole == front \o <<Footer>>
    <3>2. /\ front \in Seq(all) /\ Len(front) = 1 + Len(body)
          /\ \A i \in 1..1 : front[i] = <<Header>>[i]
          /\ \A j \in 1..Len(body) : front[1 + j] = body[j]
      BY <2>2, <3>1, Concatenated
    <3> HIDE DEF front
    <3>3. /\ whole \in Seq(all) /\ Len(whole) = Len(front) + 1
          /\ \A i \in 1..Len(front) : whole[i] = front[i]
          /\ \A j \in 1..1 : whole[Len(front) + j] = <<Footer>>[j]
      BY <3>1, <3>2, Concatenated
    <3> HIDE DEF whole
    <3>4. Len(front) = n - 1 /\ Len(whole) = n
      BY <2>1, <2>2, <3>2, <3>3
    <3>5. ASSUME NEW i \in 1..n
          PROVE  whole[i] = key[i]
      <4>1. CASE i = 1
        <5>1. 1 \in 1..Len(front) /\ 1 \in 1..1
          BY <2>1, <3>4
        <5>2. QED
          BY <2>1, <3>1, <3>2, <3>3, <4>1, <5>1
      <4>2. CASE i = n
        <5>1. 1 \in 1..1 /\ Len(front) + 1 = n
          BY <2>1, <3>4
        <5>2. QED
          BY <2>1, <3>1, <3>3, <4>2, <5>1
      <4>3. CASE i # 1 /\ i # n
        <5> DEFINE j == i - 1
        <5>1. /\ j \in 1..Len(body) /\ j \in 1..(n - 2) /\ 1 + j = i /\ j + 1 = i
              /\ i \in 1..Len(front)
          BY <2>1, <2>2, <3>4, <4>3
        <5> HIDE DEF j
        <5>2. front[i] = body[j] /\ body[j] = key[i]
          BY <2>2, <3>2, <5>1
        <5>3. QED
          BY <3>3, <5>1, <5>2
      <4>4. QED
        BY <4>1, <4>2, <4>3
    <3>6. whole = key
      BY <1>1, <3>3, <3>4, <3>5
    <3>7. QED
      BY <3>6 DEF whole, front
  <2>8. WellBroken(formatted)
    <3> DEFINE m == Len(joined)
    <3>1. m \in Nat /\ m > 0
      BY <2>1, <2>2, <2>5
    <3>2. Len(formatted) = m + 3 /\ (m + 3) - 1 = m + 2 /\ (m + 3) - 2 = m + 1
      BY <2>6, <3>1
    <3>3. formatted[m + 2] = Newline
      <4>1. m \in 1..m
        BY <3>1
      <4>2. QED
        BY <2>5, <2>6, <4>1 DEF Broken
    <3>4. ASSUME NEW i \in 2..(m + 1)
          PROVE  formatted[i] = Newline <=> (i - 2) % (LineWidth + 1) = 0
      <4>1. CASE i = 2
        <5>1. (2 - 2) % (LineWidth + 1) = 0
          BY LineWidthAssumption
        <5>2. QED
          BY <2>6, <4>1, <5>1
      <4>2. CASE i # 2
        <5> DEFINE j == i - 2
        <5>1. j \in 1..m /\ j + 2 = i /\ j # m
          BY <3>1, <4>2
        <5> HIDE DEF j
        <5>2. formatted[i] = joined[j]
          BY <2>6, <5>1
        <5>3. joined[j] = Newline <=> j % Between = 0
          BY <2>5, <5>1 DEF Broken
        <5>4. QED
          BY <5>2, <5>3 DEF j, Between
      <4>3. QED
        BY <4>1, <4>2
    <3> HIDE DEF m
    <3>5. QED
      BY <2>6, <3>2, <3>3, <3>4 DEF WellBroken, m
  <2>9. QED
    BY <2>6, <2>7, <2>8
<1>4. QED
  BY <1>2, <1>3 DEF KeepsItsText

\* Formatting gives a key on one line a header that is a line of its own.
LEMMA FormattedHeader ==
  ASSUME NEW S, NEW key \in Seq(S), IsOneLine(key)
  PROVE  /\ Len(formatPrivateKey(key)) > 1
         /\ formatPrivateKey(key)[1] = Header /\ formatPrivateKey(key)[2] = Newline
<1> DEFINE all == S \cup {Header, Footer, Newline}
           joined == Joined(Lines(Body(key)))
<1>1. key \in Seq(all) /\ {Header, Footer, Newline} \subseteq all
  OBVIOUS
<1> HIDE DEF all
<1>2. Matches(key) /\ ~IsOneOf(Newline, key)
  BY BodyOfOneLine
<1>3. Lines(Body(key)) \in Seq(Seq(all))
  BY <1>1, <1>2, BodyTyped, LinesKeepTheText
<1>4. joined \in Seq(all)
  BY <1>1, <1>3, JoinedTyped
<1>5. formatPrivateKey(key) = <<Header, Newline>> \o joined \o <<Footer>>
  BY <1>2 DEF formatPrivateKey
<1> HIDE DEF joined
<1>6. QED
  BY <1>1, <1>4, <1>5, Framed
=============================================================================
