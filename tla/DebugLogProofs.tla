--------------------------- MODULE DebugLogProofs ---------------------------
(***************************************************************************)
(* Proofs about the debug log, for any number of subjects and channels of   *)
(* any size: what mulog-subject.py makes of the printed lines, and which    *)
(* messages the debug server prints first.                                  *)
(***************************************************************************)
EXTENDS DebugLog, SequenceTheorems, WellFoundedInduction, TLAPS

-----------------------------------------------------------------------------
(* Assembling lines *)

\* A set of natural numbers that is not empty has a smallest one.
LEMMA Smallest ==
  ASSUME NEW S \in SUBSET Nat, S # {}
  PROVE  \E m \in S : \A n \in S : m <= n
<1> DEFINE R == OpToRel(<, Nat)
<1>1. \A x, y \in Nat : <<x, y>> \in R <=> x < y
  BY DEF OpToRel
<1>2. IsWellFoundedOn(R, Nat)
  BY NatLessThanWellFounded, Zenon
<1> HIDE DEF R
<1>3. PICK m \in S : \A y \in S : ~(<<y, m>> \in R)
  BY <1>2, WFMin
<1>4. \A n \in S : ~(n < m)
  BY <1>1, <1>3, Zenon
<1> QED BY <1>4

\* What a part does to the lines.
Added(lines, part) ==
  CASE part.kind = "new"  -> Append(lines, part.text)
    [] part.kind = "more" -> [lines EXCEPT ![Len(lines)] = @ \o part.text]
    [] OTHER -> lines

\* The recursion of Printed, up to a part.
Unfolds(f, parts, n) ==
  f = [k \in 0..n |-> IF k = 0 THEN <<<<>>>> ELSE Added(f[k - 1], parts[k])]

\* There is a function that satisfies the recursion, ...
LEMMA PrintedExists ==
  ASSUME NEW parts, Len(parts) \in Nat
  PROVE  \E f : Unfolds(f, parts, Len(parts))
<1> DEFINE S == {n \in Nat : n <= Len(parts) /\ ~\E f : Unfolds(f, parts, n)}
<1> SUFFICES ASSUME S # {} PROVE FALSE
  OBVIOUS
<1>1. PICK m \in S : \A n \in S : m <= n
  BY Smallest
<1>2. m # 0
  <2>1. Unfolds([k \in 0..0 |-> <<<<>>>>], parts, 0)
    BY DEF Unfolds
  <2> QED BY <1>1, <2>1
<1>3. m \in Nat /\ m - 1 \in Nat /\ m - 1 <= Len(parts) /\ m - 1 \notin S
  BY <1>1, <1>2
<1>4. PICK f : Unfolds(f, parts, m - 1)
  BY <1>3
<1> DEFINE g == [k \in 0..m |-> IF k <= m - 1 THEN f[k] ELSE Added(f[m - 1], parts[m])]
<1> HIDE DEF S
<1>5. \A k \in 0..m : g[k] = IF k = 0 THEN <<<<>>>> ELSE Added(g[k - 1], parts[k])
  <2> SUFFICES ASSUME NEW k \in 0..m
               PROVE  g[k] = IF k = 0 THEN <<<<>>>> ELSE Added(g[k - 1], parts[k])
    OBVIOUS
  <2>1. CASE k = m
    BY <1>2, <1>3, <2>1
  <2>2. CASE k # m
    <3>1. k \in 0..(m - 1) /\ g[k] = f[k] /\ (k # 0 => k - 1 \in 0..m /\ g[k - 1] = f[k - 1])
      BY <1>3, <2>2
    <3>2. f[k] = IF k = 0 THEN <<<<>>>> ELSE Added(f[k - 1], parts[k])
      BY <1>4, <3>1 DEF Unfolds
    <3> QED BY <3>1, <3>2
  <2> QED BY <2>1, <2>2
<1>6. Unfolds(g, parts, m)
  BY <1>5 DEF Unfolds
<1> QED BY <1>1, <1>6 DEF S

\* ... so Printed does.
LEMMA PrintedUnfolds ==
  ASSUME NEW parts, Len(parts) \in Nat
  PROVE  /\ Printed(parts)[0] = <<<<>>>>
         /\ \A k \in 1..Len(parts) :
              Printed(parts)[k] = Added(Printed(parts)[k - 1], parts[k])
<1> DEFINE P(f) == Unfolds(f, parts, Len(parts))
<1>1. \E f : P(f)
  BY PrintedExists
<1>2. P(CHOOSE f : P(f))
  <2> HIDE DEF P
  <2> QED BY <1>1
<1>3. Printed(parts) = CHOOSE f : P(f)
  BY DEF Printed, Unfolds, Added
<1>4. Unfolds(Printed(parts), parts, Len(parts))
  BY <1>2, <1>3
<1>5. ASSUME NEW f, Unfolds(f, parts, Len(parts)), NEW k \in 0..Len(parts)
      PROVE  f[k] = IF k = 0 THEN <<<<>>>> ELSE Added(f[k - 1], parts[k])
  BY <1>5 DEF Unfolds
<1>6. \A k \in 0..Len(parts) :
        Printed(parts)[k] = IF k = 0 THEN <<<<>>>> ELSE Added(Printed(parts)[k - 1], parts[k])
  BY <1>4, <1>5
<1> QED BY <1>6

\* What is printed depends on the parts before only.
LEMMA PrintedPrefix ==
  ASSUME NEW parts, NEW others, Len(parts) \in Nat, Len(others) \in Nat,
         NEW n \in Nat, n <= Len(parts), n <= Len(others),
         \A k \in 1..n : parts[k] = others[k]
  PROVE  Printed(parts)[n] = Printed(others)[n]
<1> DEFINE S == {k \in Nat : k <= n /\ Printed(parts)[k] # Printed(others)[k]}
<1> SUFFICES ASSUME S # {} PROVE FALSE
  OBVIOUS
<1>1. PICK m \in S : \A k \in S : m <= k
  BY Smallest
<1>2. m # 0
  BY <1>1, PrintedUnfolds
<1>3. m - 1 \in Nat /\ m \in 1..n /\ m \in 1..Len(parts) /\ m \in 1..Len(others)
  BY <1>1, <1>2
<1>4. Printed(parts)[m - 1] = Printed(others)[m - 1]
  <2>1. m - 1 \notin S
    BY <1>1, <1>3
  <2> QED BY <1>3, <2>1
<1>5. Printed(parts)[m] = Printed(others)[m]
  BY <1>3, <1>4, PrintedUnfolds
<1> QED BY <1>1, <1>5

Fragment == [subject : Subject_Buffer_Range, epoch : Nat, seq : Nat, time : Nat, LF : BOOLEAN]
Text == Seq(Fragment)
Parts(parts) == Len(parts) \in Nat /\ \A k \in 1..Len(parts) : parts[k].text \in Text

\* Parts of text make lines of text, at least one.
LEMMA AddedType ==
  ASSUME NEW lines \in Seq(Text), lines # <<>>, NEW part, part.text \in Text
  PROVE  Added(lines, part) \in Seq(Text) /\ Added(lines, part) # <<>>
<1>1. Len(lines) \in 1..Len(lines) /\ lines[Len(lines)] \in Text
  BY EmptySeq, ElementOfSeq
<1>2. lines[Len(lines)] \o part.text \in Text
  BY <1>1, ConcatProperties DEF Text
<1>3. CASE part.kind = "new"
  BY <1>3, AppendProperties DEF Added
<1>4. CASE part.kind = "more"
  <2>1. Added(lines, part) = [lines EXCEPT ![Len(lines)] = lines[Len(lines)] \o part.text]
    BY <1>4 DEF Added
  <2>2. /\ [lines EXCEPT ![Len(lines)] = lines[Len(lines)] \o part.text] \in Seq(Text)
        /\ Len([lines EXCEPT ![Len(lines)] = lines[Len(lines)] \o part.text]) = Len(lines)
    BY <1>1, <1>2, ExceptSeq
  <2> QED BY <1>1, <2>1, <2>2, EmptySeq
<1>5. CASE part.kind \notin {"new", "more"}
  BY <1>5 DEF Added
<1> QED BY <1>3, <1>4, <1>5

\* So what is printed for them are lines of text.
LEMMA PrintedType ==
  ASSUME NEW parts, Parts(parts), NEW n \in Nat, n <= Len(parts)
  PROVE  Printed(parts)[n] \in Seq(Text) /\ Printed(parts)[n] # <<>>
<1> DEFINE Good(k) == Printed(parts)[k] \in Seq(Text) /\ Printed(parts)[k] # <<>>
           S == {k \in Nat : k <= n /\ ~Good(k)}
<1>0. Len(parts) \in Nat
  BY DEF Parts
<1> SUFFICES ASSUME S # {} PROVE FALSE
  OBVIOUS
<1>1. PICK m \in S : \A k \in S : m <= k
  BY Smallest
<1>2. m # 0
  <2>1. <<<<>>>> \in Seq(Text) /\ <<<<>>>> # <<>>
    BY DEF Text
  <2> QED BY <1>0, <1>1, <2>1, PrintedUnfolds
<1>3. m - 1 \in Nat /\ m \in 1..Len(parts)
  BY <1>0, <1>1, <1>2
<1>4. Good(m - 1)
  BY <1>1, <1>3
<1>5. Printed(parts)[m] = Added(Printed(parts)[m - 1], parts[m])
  BY <1>0, <1>3, PrintedUnfolds
<1>6. Good(m)
  BY <1>3, <1>4, <1>5, AddedType DEF Parts
<1> QED BY <1>1, <1>6

\* One part more.
LEMMA AssembleNext ==
  ASSUME NEW parts, NEW longer, Len(parts) \in Nat, Len(longer) = Len(parts) + 1,
         \A k \in 1..Len(parts) : longer[k] = parts[k]
  PROVE  Assemble(longer) = Added(Assemble(parts), longer[Len(longer)])
<1>1. Printed(longer)[Len(parts)] = Printed(parts)[Len(parts)]
  BY PrintedPrefix
<1>2. Printed(longer)[Len(longer)] = Added(Printed(longer)[Len(longer) - 1], longer[Len(longer)])
  BY PrintedUnfolds
<1>3. Len(longer) - 1 = Len(parts)
  OBVIOUS
<1> QED BY <1>1, <1>2, <1>3 DEF Assemble

\* Another last part.
LEMMA AssembleLast ==
  ASSUME NEW parts, NEW others, Parts(parts), Len(parts) > 0, Len(others) = Len(parts),
         \A k \in 1..(Len(parts) - 1) : others[k] = parts[k]
  PROVE  \E lines \in Seq(Text) : /\ lines # <<>>
                                  /\ Assemble(parts) = Added(lines, parts[Len(parts)])
                                  /\ Assemble(others) = Added(lines, others[Len(parts)])
<1> DEFINE n == Len(parts) - 1
<1>1. n \in Nat /\ n <= Len(parts) /\ Len(parts) \in 1..Len(parts) /\ Len(parts) \in Nat
  BY DEF Parts
<1>2. Printed(others)[n] = Printed(parts)[n]
  BY <1>1, PrintedPrefix
<1>3. Assemble(parts) = Added(Printed(parts)[n], parts[Len(parts)])
  BY <1>1, PrintedUnfolds DEF Assemble
<1>4. Assemble(others) = Added(Printed(others)[n], others[Len(parts)])
  BY <1>1, PrintedUnfolds DEF Assemble
<1>5. Printed(parts)[n] \in Seq(Text) /\ Printed(parts)[n] # <<>>
  BY <1>1, PrintedType
<1> QED BY <1>2, <1>3, <1>4, <1>5

\* The last line goes on with a fragment.
Extended(lines, f) == [lines EXCEPT ![Len(lines)] = Append(@, f)]

\* The last fragment of a text that is appended.
LEMMA ConcatFragment ==
  ASSUME NEW x \in Text, NEW y \in Text, NEW f \in Fragment
  PROVE  x \o Append(y, f) = Append(x \o y, f)
<1>1. Append(y, f) \in Text /\ x \o y \in Text
  BY AppendProperties, ConcatProperties DEF Text
<1>2. /\ x \o Append(y, f) \in Text /\ Append(x \o y, f) \in Text
      /\ Len(x \o Append(y, f)) = Len(x) + Len(y) + 1 /\ Len(x) \in Nat /\ Len(y) \in Nat
      /\ Len(Append(x \o y, f)) = Len(x) + Len(y) + 1
  BY <1>1, AppendProperties, ConcatProperties, LenProperties DEF Text
<1>3. \A i \in 1..Len(x) + Len(y) + 1 : (x \o Append(y, f))[i] = Append(x \o y, f)[i]
  BY <1>1, <1>2, AppendProperties, ConcatProperties DEF Text
<1> QED BY <1>2, <1>3, SeqEqual DEF Text

\* The last line is replaced.
LEMMA ExceptLast ==
  ASSUME NEW lines \in Seq(Text), lines # <<>>, NEW e \in Text
  PROVE  /\ [lines EXCEPT ![Len(lines)] = e] \in Seq(Text)
         /\ Len([lines EXCEPT ![Len(lines)] = e]) = Len(lines)
         /\ [lines EXCEPT ![Len(lines)] = e][Len(lines)] = e
<1>1. Len(lines) \in 1..Len(lines)
  BY EmptySeq
<1> QED BY <1>1, ExceptSeq

\* A fragment more in the last part.
LEMMA LongerPart ==
  ASSUME NEW lines \in Seq(Text), lines # <<>>, NEW part, NEW longer, NEW f \in Fragment,
         part.kind \in {"new", "more"}, longer.kind = part.kind, part.text \in Text,
         longer.text = Append(part.text, f)
  PROVE  Added(lines, longer) = Extended(Added(lines, part), f)
<1> DEFINE n == Len(lines)
<1>0. n \in 1..n /\ n \in Nat /\ lines[n] \in Text
  BY EmptySeq, ElementOfSeq
<1>1. Append(part.text, f) \in Text
  BY AppendProperties DEF Text
<1>2. CASE part.kind = "new"
  <2>1. Added(lines, part) = Append(lines, part.text) /\ Added(lines, longer) = Append(lines, longer.text)
    BY <1>2 DEF Added
  <2> DEFINE A == Append(lines, part.text)
             B == Append(lines, longer.text)
  <2>2. /\ A \in Seq(Text) /\ Len(A) = n + 1 /\ A[n + 1] = part.text
        /\ \A j \in 1..n : A[j] = lines[j]
        /\ B \in Seq(Text) /\ Len(B) = n + 1 /\ B[n + 1] = longer.text
        /\ \A j \in 1..n : B[j] = lines[j]
    BY <1>1, AppendProperties
  <2>3. Extended(A, f) = [A EXCEPT ![n + 1] = Append(part.text, f)]
    BY <2>2 DEF Extended
  <2>4. /\ Extended(A, f) \in Seq(Text) /\ Len(Extended(A, f)) = n + 1
        /\ \A j \in 1..(n + 1) : Extended(A, f)[j] = IF j = n + 1 THEN Append(part.text, f) ELSE A[j]
    <3> HIDE DEF A, B, n
    <3>1. n + 1 \in 1..Len(A) /\ Len(A) = n + 1
      BY <1>0, <2>2
    <3>2. /\ [A EXCEPT ![n + 1] = Append(part.text, f)] \in Seq(Text)
          /\ Len([A EXCEPT ![n + 1] = Append(part.text, f)]) = Len(A)
          /\ \A j \in 1..Len(A) : [A EXCEPT ![n + 1] = Append(part.text, f)][j]
                                    = IF j = n + 1 THEN Append(part.text, f) ELSE A[j]
      BY <1>1, <2>2, <3>1, ExceptSeq
    <3> QED BY <2>3, <3>1, <3>2
  <2> HIDE DEF A, B, n
  <2>5. ASSUME NEW j \in 1..(n + 1) PROVE B[j] = Extended(A, f)[j]
    <3>1. CASE j = n + 1
      BY <2>2, <2>4, <3>1
    <3>2. CASE j # n + 1
      <4>1. j \in 1..n
        BY <1>0, <3>2
      <4> QED BY <2>2, <2>4, <3>2, <4>1
    <3> QED BY <3>1, <3>2
  <2>6. B = Extended(A, f)
    BY <2>2, <2>4, <2>5, SeqEqual
  <2> QED BY <2>1, <2>6 DEF A, B
<1>3. CASE part.kind = "more"
  <2>1. lines[n] \o longer.text = Append(lines[n] \o part.text, f)
    BY <1>0, ConcatFragment
  <2>2. /\ Added(lines, part) = [lines EXCEPT ![n] = lines[n] \o part.text]
        /\ Added(lines, longer) = [lines EXCEPT ![n] = lines[n] \o longer.text]
    BY <1>3 DEF Added
  <2> DEFINE A == [lines EXCEPT ![n] = lines[n] \o part.text]
  <2>3. Len(A) = n /\ A[n] = lines[n] \o part.text
    <3>1. lines[n] \o part.text \in Text
      BY <1>0, ConcatProperties DEF Text
    <3> QED BY <3>1, ExceptLast
  <2>4. Extended(A, f) = [A EXCEPT ![n] = Append(lines[n] \o part.text, f)]
    BY <2>3 DEF Extended
  <2>5. [A EXCEPT ![n] = Append(lines[n] \o part.text, f)]
          = [lines EXCEPT ![n] = Append(lines[n] \o part.text, f)]
    OBVIOUS
  <2> QED BY <2>1, <2>2, <2>4, <2>5
<1> QED BY <1>2, <1>3

-----------------------------------------------------------------------------
(* The lines of a subject *)

Line == [mark : {"DBG-LOG>", "---", "%", "#", ">", "|"}, subject : Nat, text : Text]
Hearing == [frag : Fragment, gap : BOOLEAN]

\* What mulog-subject.py makes of a log, and whether a subject has a line in it.
Script(s, lines) == Assemble(PartsOf(s, lines))
Seen(s, lines) == \E j \in 1..Len(lines) : lines[j].subject = s

\* There is a part for every line.
LEMMA PartsShape ==
  ASSUME NEW s, NEW lines \in Seq(Line)
  PROVE  /\ Len(PartsOf(s, lines)) = Len(lines) /\ Len(lines) \in Nat
         /\ Parts(PartsOf(s, lines))
         /\ \A k \in 1..Len(lines) :
              PartsOf(s, lines)[k] = [kind |-> KindOf(s, lines, k), text |-> lines[k].text]
<1>1. Len(lines) \in Nat /\ \A k \in 1..Len(lines) : lines[k] \in Line
  BY ElementOfSeq
<1>2. Len(PartsOf(s, lines)) = Len(lines)
  BY <1>1 DEF PartsOf
<1>3. \A k \in 1..Len(lines) :
        PartsOf(s, lines)[k] = [kind |-> KindOf(s, lines, k), text |-> lines[k].text]
  BY DEF PartsOf
<1>4. Parts(PartsOf(s, lines))
  <2>1. ASSUME NEW k \in 1..Len(lines) PROVE PartsOf(s, lines)[k].text \in Text
    <3>0. PartsOf(s, lines)[k] = [kind |-> KindOf(s, lines, k), text |-> lines[k].text]
      BY <1>3
    <3>1. PartsOf(s, lines)[k].text = lines[k].text
      BY <3>0
    <3> QED BY <1>1, <3>1 DEF Line
  <2> QED BY <1>1, <1>2, <2>1 DEF Parts
<1> QED BY <1>1, <1>2, <1>3, <1>4

\* What is printed are lines of text.
LEMMA ScriptType ==
  ASSUME NEW s, NEW lines \in Seq(Line)
  PROVE  Script(s, lines) \in Seq(Text) /\ Script(s, lines) # <<>>
  BY PartsShape, PrintedType DEF Script, Assemble

\* A line more in the log.
LEMMA ScriptAppend ==
  ASSUME NEW s, NEW lines \in Seq(Line), NEW line \in Line
  PROVE  /\ line.subject # s => Script(s, Append(lines, line)) = Script(s, lines)
         /\ line.subject = s =>
              Script(s, Append(lines, line)) =
                Added(Script(s, lines),
                      [kind |-> IF line.mark # ">" /\ Seen(s, lines) THEN "new" ELSE "more",
                       text |-> line.text])
         /\ Seen(s, Append(lines, line)) <=> Seen(s, lines) \/ line.subject = s
<1> DEFINE longer == Append(lines, line)
           n == Len(lines)
<1>1. /\ longer \in Seq(Line) /\ Len(longer) = n + 1 /\ n \in Nat
      /\ \A k \in 1..n : longer[k] = lines[k]
      /\ longer[n + 1] = line
  BY AppendProperties, LenProperties
<1> HIDE DEF longer, n
<1>2. \A k \in 1..n : PartsOf(s, longer)[k] = PartsOf(s, lines)[k]
  <2> SUFFICES ASSUME NEW k \in 1..n PROVE PartsOf(s, longer)[k] = PartsOf(s, lines)[k]
    OBVIOUS
  <2>1. k \in 1..Len(longer) /\ longer[k] = lines[k] /\ \A j \in 1..(k - 1) : longer[j] = lines[j]
    BY <1>1
  <2>2. is_first_line(s, longer, k) <=> is_first_line(s, lines, k)
    BY <2>1 DEF is_first_line
  <2>3. KindOf(s, longer, k) = KindOf(s, lines, k)
    BY <2>1, <2>2 DEF KindOf
  <2>4. PartsOf(s, longer)[k] = [kind |-> KindOf(s, longer, k), text |-> longer[k].text]
    BY <1>1, <2>1, PartsShape
  <2>5. PartsOf(s, lines)[k] = [kind |-> KindOf(s, lines, k), text |-> lines[k].text]
    BY PartsShape DEF n
  <2> QED BY <2>1, <2>3, <2>4, <2>5
<1>3. Script(s, longer) = Added(Script(s, lines), PartsOf(s, longer)[n + 1])
  <2>1. Len(PartsOf(s, longer)) = n + 1 /\ Len(PartsOf(s, lines)) = n
    BY <1>1, PartsShape DEF n
  <2> QED BY <1>1, <1>2, <2>1, AssembleNext DEF Script
<1>4. is_first_line(s, longer, n + 1) <=> ~Seen(s, lines)
  BY <1>1 DEF is_first_line, Seen, n
<1>5. /\ PartsOf(s, longer)[n + 1].text = line.text
      /\ PartsOf(s, longer)[n + 1].kind =
           IF line.subject # s THEN "skip"
           ELSE IF line.mark # ">" /\ Seen(s, lines) THEN "new" ELSE "more"
  <2>1. PartsOf(s, longer)[n + 1] = [kind |-> KindOf(s, longer, n + 1), text |-> longer[n + 1].text]
    BY <1>1, PartsShape
  <2>2. KindOf(s, longer, n + 1) = IF line.subject # s THEN "skip"
                                   ELSE IF line.mark # ">" /\ Seen(s, lines) THEN "new" ELSE "more"
    BY <1>1, <1>4 DEF KindOf, starts_line
  <2> QED BY <1>1, <2>1, <2>2
<1>6. Seen(s, longer) <=> Seen(s, lines) \/ line.subject = s
  BY <1>1 DEF Seen, n
<1>7. PartsOf(s, longer)[n + 1].kind = "skip" => Script(s, longer) = Script(s, lines)
  BY <1>3 DEF Added
<1>8. line.subject = s =>
        PartsOf(s, longer)[n + 1] =
          [kind |-> IF line.mark # ">" /\ Seen(s, lines) THEN "new" ELSE "more", text |-> line.text]
  <2>1. PartsOf(s, longer)[n + 1] = [kind |-> KindOf(s, longer, n + 1), text |-> longer[n + 1].text]
    BY <1>1, PartsShape
  <2>2. PartsOf(s, longer)[n + 1].kind = KindOf(s, longer, n + 1)
    BY <2>1
  <2> QED BY <1>1, <1>5, <2>1, <2>2
<1> QED BY <1>3, <1>5, <1>6, <1>7, <1>8 DEF longer

\* The last line of the log goes on with a fragment.
LEMMA LongerLine ==
  ASSUME NEW lines \in Seq(Line), lines # <<>>, NEW f \in Fragment
  PROVE  LET n == Len(lines)
             longer == [lines EXCEPT ![Len(lines)].text = Append(@, f)]
         IN  /\ longer \in Seq(Line) /\ Len(longer) = n
             /\ \A k \in 1..(n - 1) : longer[k] = lines[k]
             /\ longer[n].subject = lines[n].subject /\ longer[n].mark = lines[n].mark
             /\ longer[n].text = Append(lines[n].text, f)
<1> DEFINE n == Len(lines)
           last == [lines[n] EXCEPT !.text = Append(@, f)]
<1>1. n \in Nat /\ n \in 1..n /\ n > 0 /\ lines[n] \in Line /\ n = Len(lines)
  BY EmptySeq, ElementOfSeq
<1>2. /\ last \in Line /\ last.subject = lines[n].subject /\ last.mark = lines[n].mark
      /\ last.text = Append(lines[n].text, f)
  <2>1. lines[n].text \in Text
    BY <1>1 DEF Line
  <2>2. Append(lines[n].text, f) \in Text
    BY <2>1, AppendProperties DEF Text
  <2> QED BY <1>1, <2>2 DEF Line
<1> DEFINE longer == [lines EXCEPT ![n] = last]
<1>3. longer = [lines EXCEPT ![Len(lines)].text = Append(@, f)]
  OBVIOUS
<1> HIDE DEF last, n
<1>4. /\ longer \in Seq(Line) /\ Len(longer) = n
      /\ \A k \in 1..n : longer[k] = IF k = n THEN last ELSE lines[k]
  BY <1>1, <1>2, ExceptSeq
<1> HIDE DEF longer
<1>5. \A k \in 1..(n - 1) : longer[k] = lines[k]
  BY <1>1, <1>4
<1>6. longer[n] = last
  BY <1>1, <1>4
<1> QED BY <1>1, <1>2, <1>3, <1>4, <1>5, <1>6, Zenon

\* For the script the subject of that line goes on with its last line; the others do not notice.
LEMMA ScriptExtend ==
  ASSUME NEW s, NEW lines \in Seq(Line), lines # <<>>, NEW f \in Fragment, NEW longer \in Seq(Line),
         Len(longer) = Len(lines), \A k \in 1..(Len(lines) - 1) : longer[k] = lines[k],
         longer[Len(lines)].subject = lines[Len(lines)].subject,
         longer[Len(lines)].mark = lines[Len(lines)].mark,
         longer[Len(lines)].text = Append(lines[Len(lines)].text, f)
  PROVE  /\ Seen(s, longer) <=> Seen(s, lines)
         /\ lines[Len(lines)].subject = s => Script(s, longer) = Extended(Script(s, lines), f)
         /\ lines[Len(lines)].subject # s => Script(s, longer) = Script(s, lines)
<1> DEFINE n == Len(lines)
<1>1. n \in Nat /\ n \in 1..n /\ n > 0 /\ lines[n] \in Line
  BY EmptySeq, ElementOfSeq
<1>4. Len(longer) = n /\ \A k \in 1..n : k # n => longer[k] = lines[k]
  BY <1>1
<1>2. /\ longer[n].subject = lines[n].subject /\ longer[n].mark = lines[n].mark
      /\ longer[n].text = Append(lines[n].text, f)
  OBVIOUS
<1> HIDE DEF n
<1>5. \A k \in 1..n : longer[k].subject = lines[k].subject /\ longer[k].mark = lines[k].mark
  BY <1>2, <1>4
<1>6. Seen(s, longer) <=> Seen(s, lines)
  BY <1>4, <1>5 DEF Seen, n
<1>7. \A k \in 1..n : KindOf(s, longer, k) = KindOf(s, lines, k)
  <2>1. \A k \in 1..n : is_first_line(s, longer, k) <=> is_first_line(s, lines, k)
    BY <1>1, <1>5 DEF is_first_line
  <2> QED BY <1>5, <2>1 DEF KindOf
<1>8. /\ Len(PartsOf(s, lines)) = n /\ Len(PartsOf(s, longer)) = n /\ Parts(PartsOf(s, lines))
      /\ \A k \in 1..n : PartsOf(s, lines)[k] = [kind |-> KindOf(s, lines, k), text |-> lines[k].text]
      /\ \A k \in 1..n : PartsOf(s, longer)[k] = [kind |-> KindOf(s, lines, k), text |-> longer[k].text]
  <2>1. /\ Len(PartsOf(s, lines)) = n /\ Parts(PartsOf(s, lines))
        /\ \A k \in 1..n : PartsOf(s, lines)[k] = [kind |-> KindOf(s, lines, k), text |-> lines[k].text]
    BY PartsShape DEF n
  <2>2. /\ Len(PartsOf(s, longer)) = n
        /\ \A k \in 1..n :
             PartsOf(s, longer)[k] = [kind |-> KindOf(s, longer, k), text |-> longer[k].text]
    BY <1>4, PartsShape, Zenon
  <2> QED BY <1>7, <2>1, <2>2
<1>9. PICK acc \in Seq(Text) : /\ acc # <<>>
                               /\ Script(s, lines) = Added(acc, PartsOf(s, lines)[n])
                               /\ Script(s, longer) = Added(acc, PartsOf(s, longer)[n])
  <2>1. \A k \in 1..(n - 1) : PartsOf(s, longer)[k] = PartsOf(s, lines)[k]
    BY <1>1, <1>4, <1>8
  <2> DEFINE P == PartsOf(s, lines)
             Q == PartsOf(s, longer)
  <2>2. Parts(P) /\ Len(P) = n /\ Len(Q) = n /\ \A k \in 1..(n - 1) : Q[k] = P[k]
    BY <1>8, <2>1
  <2> HIDE DEF P, Q
  <2>3. \E acc \in Seq(Text) : acc # <<>> /\ Assemble(P) = Added(acc, P[n]) /\ Assemble(Q) = Added(acc, Q[n])
    BY <1>1, <2>2, AssembleLast
  <2> QED BY <2>3 DEF Script, P, Q
<1>10. CASE lines[n].subject # s
  <2>1. Script(s, lines) = acc /\ Script(s, longer) = acc
    <3>1. PartsOf(s, lines)[n].kind = "skip" /\ PartsOf(s, longer)[n].kind = "skip"
      BY <1>1, <1>8, <1>10 DEF KindOf
    <3> QED BY <1>9, <3>1 DEF Added
  <2> QED BY <1>1, <1>4, <1>5, <1>6, <1>10, <2>1 DEF n
<1>11. CASE lines[n].subject = s
  <2>1. lines[n].text \in Text
    BY <1>1 DEF Line
  <2>2. Script(s, longer) = Extended(Script(s, lines), f)
    <3>1. /\ PartsOf(s, lines)[n].kind \in {"new", "more"}
          /\ PartsOf(s, longer)[n].kind = PartsOf(s, lines)[n].kind
      BY <1>1, <1>8, <1>11 DEF KindOf
    <3>2. /\ PartsOf(s, lines)[n].text = lines[n].text
          /\ PartsOf(s, longer)[n].text = Append(lines[n].text, f)
      BY <1>1, <1>2, <1>4, <1>8
    <3> DEFINE P == PartsOf(s, lines)[n]
               Q == PartsOf(s, longer)[n]
    <3>3. P.kind \in {"new", "more"} /\ Q.kind = P.kind /\ P.text \in Text /\ Q.text = Append(P.text, f)
      BY <2>1, <3>1, <3>2
    <3> HIDE DEF P, Q
    <3>4. Added(acc, Q) = Extended(Added(acc, P), f)
      BY <1>9, <3>3, LongerPart
    <3> QED BY <1>9, <3>4 DEF P, Q
  <2> QED BY <1>1, <1>4, <1>5, <1>6, <1>11, <2>2 DEF n
<1> QED BY <1>10, <1>11

\* What the server got, with a fragment more.
LEMMA LinesAppend ==
  ASSUME NEW h \in Seq(Hearing), NEW x \in Hearing
  PROVE  Lines(Append(h, x)) =
           IF h # <<>> /\ (x.gap \/ h[Len(h)].frag.LF) THEN Append(Lines(h), <<x.frag>>)
           ELSE [Lines(h) EXCEPT ![Len(Lines(h))] = @ \o <<x.frag>>]
<1> DEFINE longer == Append(h, x)
           n == Len(h)
<1>1. /\ longer \in Seq(Hearing) /\ Len(longer) = n + 1 /\ n \in Nat
      /\ \A k \in 1..n : longer[k] = h[k]
      /\ longer[n + 1] = x /\ (h # <<>> <=> n > 0)
  BY AppendProperties, LenProperties, EmptySeq
<1> HIDE DEF longer
<1>2. Len(Pieces(h)) = n /\ Len(Pieces(longer)) = n + 1
  BY <1>1 DEF Pieces
<1>3. ASSUME NEW k \in 1..n PROVE Pieces(longer)[k] = Pieces(h)[k]
  <2>1. k \in 1..Len(longer) /\ longer[k] = h[k] /\ (k > 1 => longer[k - 1] = h[k - 1])
    BY <1>1
  <2> QED BY <2>1 DEF Pieces
<1>4. Lines(longer) = Added(Lines(h), Pieces(longer)[n + 1])
  BY <1>1, <1>2, <1>3, AssembleNext DEF Lines
<1>5. /\ Pieces(longer)[n + 1].text = <<x.frag>>
      /\ Pieces(longer)[n + 1].kind = IF n > 0 /\ (x.gap \/ h[n].frag.LF) THEN "new" ELSE "more"
  <2>1. n + 1 \in 1..Len(longer) /\ (n > 0 => longer[n + 1 - 1] = h[n])
    BY <1>1
  <2>2. n + 1 > 1 <=> n > 0
    BY <1>1
  <2> QED BY <1>1, <2>1, <2>2 DEF Pieces
<1> QED BY <1>1, <1>4, <1>5 DEF Added, longer

\* Without a fragment there is an empty line.
LEMMA LinesEmpty == Lines(<<>>) = <<<<>>>>
<1>1. Len(Pieces(<<>>)) = 0
  BY DEF Pieces
<1> QED BY <1>1, PrintedUnfolds DEF Lines, Assemble

-----------------------------------------------------------------------------
(* The invariant *)

Buffer == [Cache : Fragment \cup {Null}, Epoch : Nat, RC : Nat, Message_Incomplete : BOOLEAN,
           Overrun_Occurred : BOOLEAN, New_Epoch_Occurred : BOOLEAN, Enabled : BOOLEAN]
Channel == [Epoch : Nat, data : Text]

LogType ==
  /\ channel \in [Subject_Buffer_Range -> Channel]
  /\ buffer \in [Subject_Buffer_Range -> Buffer]
  /\ Is_Idle \in BOOLEAN /\ Last_Subject \in Subject_Buffer_Range
  /\ out \in Seq(Line) /\ out # <<>>
  /\ writes \in Nat /\ Schedule_Start \in [Subject_Buffer_Range -> Nat]
  /\ heard \in [Subject_Buffer_Range -> Seq(Hearing)]

\* Of the fragments f and g of a channel none was written between them.
Apart(c, f, g) ==
  f.epoch = g.epoch /\ f.epoch = c.Epoch /\ f.seq < g.seq =>
    \A k \in 1..Len(c.data) : ~(f.seq < c.data[k].seq /\ c.data[k].seq < g.seq)

\* A channel has the fragments of its epoch in the order they were written.
Written(c, w) ==
  /\ \A k \in 1..Len(c.data) : c.data[k].seq < w /\ c.data[k].epoch = c.Epoch
  /\ \A j, k \in 1..Len(c.data) : j < k => c.data[j].seq < c.data[k].seq

\* The reader is at most at the end of the channel, and what it has passed is not newer
\* than the message in the buffer.
Cursor(b, c, w) ==
  /\ b.Epoch <= c.Epoch /\ (b.Epoch = c.Epoch => b.RC <= Len(c.data))
  /\ b.Cache # Null =>
       /\ b.Cache.epoch <= b.Epoch /\ b.Cache.seq < w
       /\ b.Cache.epoch = c.Epoch => \A k \in 1..b.RC : c.data[k].seq <= b.Cache.seq

\* Unless a gap is noted, the reader goes on after the fragment f it printed last.
Following(b, c, f, w) ==
  /\ f.epoch <= b.Epoch /\ f.seq < w
  /\ ~b.Overrun_Occurred /\ ~b.New_Epoch_Occurred =>
       /\ b.Cache # Null => Apart(c, f, b.Cache)
       /\ b.Cache = Null /\ f.epoch = c.Epoch => \A k \in 1..b.RC : c.data[k].seq <= f.seq

\* A line without a gap in it.
Whole(line, c, w) ==
  /\ \A j \in 1..Len(line) : line[j].epoch <= c.Epoch /\ line[j].seq < w
  /\ \A j \in 1..(Len(line) - 1) : Apart(c, line[j], line[j + 1])

\* The lines of what was heard end with what was heard last.
EndsWith(lines, f) ==
  LET line == lines[Len(lines)] IN line # <<>> /\ line[Len(line)] = f

Kept(b, c, h, w) ==
  /\ Written(c, w) /\ Cursor(b, c, w)
  /\ Lines(h) \in Seq(Text) /\ Lines(h) # <<>>
  /\ \A i \in 1..Len(Lines(h)) : Whole(Lines(h)[i], c, w)
  /\ h # <<>> => /\ Following(b, c, h[Len(h)].frag, w)
                 /\ EndsWith(Lines(h), h[Len(h)].frag)

\* The script is given what was heard, and the server knows whether the message goes on.
Told(s, lines, b, h) ==
  /\ Script(s, lines) = Lines(h)
  /\ Seen(s, lines) <=> h # <<>>
  /\ b.Message_Incomplete <=> h # <<>> /\ ~h[Len(h)].frag.LF

\* A line that may be continued is the last one.
LastLine == ~Is_Idle /\ heard[Last_Subject] # <<>> => out[Len(out)].subject = Last_Subject

\* What a subject wrote later has no earlier stamp.
Held(b, c) == {c.data[k] : k \in 1..Len(c.data)} \cup ({b.Cache} \ {Null})
Stamped ==
  \A s \in Subject_Buffer_Range :
    \A f \in Held(buffer[s], channel[s]) :
      /\ f.time <= Schedule_Start[s]
      /\ \A g \in Held(buffer[s], channel[s]) : f.seq < g.seq => f.time <= g.time

LogInv ==
  /\ LogType /\ LastLine /\ Stamped
  /\ \A s \in Subject_Buffer_Range : /\ Kept(buffer[s], channel[s], heard[s], writes)
                                     /\ Told(s, out, buffer[s], heard[s])

-----------------------------------------------------------------------------
(* The channel and the buffer of a subject *)

\* A fragment has its time, Null has none.
LEMMA NullNoFragment == Null \notin Fragment
  BY DEF Null, Fragment

\* The types of what a channel and a buffer hold.
LEMMA HeldTypes ==
  ASSUME NEW b \in Buffer, NEW c \in Channel
  PROVE  /\ b.Epoch \in Nat /\ b.RC \in Nat /\ c.Epoch \in Nat /\ Len(c.data) \in Nat
         /\ b.Overrun_Occurred \in BOOLEAN /\ b.New_Epoch_Occurred \in BOOLEAN
         /\ \A k \in 1..Len(c.data) : /\ c.data[k] \in Fragment /\ c.data[k] # Null
                                      /\ c.data[k].seq \in Nat /\ c.data[k].epoch \in Nat
                                      /\ c.data[k].time \in Nat
         /\ b.Cache # Null => /\ b.Cache \in Fragment
                              /\ b.Cache.seq \in Nat /\ b.Cache.epoch \in Nat
                              /\ b.Cache.time \in Nat
<1>1. c.data \in Seq(Fragment) /\ c.Epoch \in Nat
  BY DEF Channel, Text
<1>2. Len(c.data) \in Nat /\ \A k \in 1..Len(c.data) : c.data[k] \in Fragment
  BY <1>1, ElementOfSeq, LenProperties
<1>3. \A f \in Fragment : f.seq \in Nat /\ f.time \in Nat /\ f.epoch \in Nat
  BY DEF Fragment
<1>4. /\ b.Epoch \in Nat /\ b.RC \in Nat /\ b.Cache \in Fragment \cup {Null}
      /\ b.Overrun_Occurred \in BOOLEAN /\ b.New_Epoch_Occurred \in BOOLEAN
  BY DEF Buffer
<1> QED BY <1>1, <1>2, <1>3, <1>4, NullNoFragment

\* What a read of the channel does to the buffer.
LEMMA UpdateCases ==
  ASSUME NEW b \in Buffer, NEW c \in Channel, NEW restarted \in BOOLEAN, Cursor(b, c, writes),
         b.Cache = Null, NEW u, u = Update_Message_Buffer(b, c, restarted), NEW r,
         r = IF b.Epoch # c.Epoch THEN 0 ELSE b.RC
  PROVE  /\ u \in Buffer /\ u.Message_Incomplete = b.Message_Incomplete /\ u.Enabled = b.Enabled
         /\ u.Epoch = c.Epoch /\ r \in Nat /\ r <= Len(c.data)
         /\ u.New_Epoch_Occurred = (b.New_Epoch_Occurred \/ restarted)
         /\ \/ u.Cache = Null /\ u.RC = r /\ u.Overrun_Occurred = b.Overrun_Occurred
            \/ u.Cache = Null /\ u.RC = Len(c.data) /\ u.Overrun_Occurred
            \/ /\ r < Len(c.data) /\ u.Cache = c.data[r + 1] /\ u.RC = r + 1
               /\ u.Overrun_Occurred = b.Overrun_Occurred
         /\ restarted => u.Cache = Null
<1> DEFINE y == Synchronized(b, c)
           q == IF restarted THEN "epoch_changed" ELSE Read_Result(y, c)
<1>0. /\ r \in Nat /\ r <= Len(c.data)
  BY HeldTypes DEF Cursor
<1>1. /\ y \in Buffer /\ y.Epoch = c.Epoch /\ y.RC = r /\ y.Cache = Null
      /\ y.Message_Incomplete = b.Message_Incomplete /\ y.Enabled = b.Enabled
      /\ y.Overrun_Occurred = b.Overrun_Occurred /\ y.New_Epoch_Occurred = b.New_Epoch_Occurred
  BY HeldTypes DEF Synchronized, Buffer
<1>2. /\ q \in {"epoch_changed", "inactive", "no_data", "overrun_detected", "success"}
      /\ q = "epoch_changed" <=> restarted
      /\ q = "success" => r < Len(c.data)
  BY <1>0, <1>1, HeldTypes DEF Read_Result
<1>3. u = [y EXCEPT !.RC = CASE q = "overrun_detected" -> Len(c.data)
                             [] q = "success" -> @ + 1 [] OTHER -> @,
                    !.New_Epoch_Occurred = @ \/ q = "epoch_changed",
                    !.Overrun_Occurred = @ \/ q = "overrun_detected",
                    !.Cache = IF q = "success" THEN c.data[y.RC + 1] ELSE Null]
  BY DEF Update_Message_Buffer
<1> HIDE DEF y, q
<1>4. q = "success" => c.data[r + 1] \in Fragment
  BY <1>0, <1>2, HeldTypes
<1>5. /\ u.RC = CASE q = "overrun_detected" -> Len(c.data) [] q = "success" -> r + 1 [] OTHER -> r
      /\ u.New_Epoch_Occurred = (b.New_Epoch_Occurred \/ q = "epoch_changed")
      /\ u.Overrun_Occurred = (b.Overrun_Occurred \/ q = "overrun_detected")
      /\ u.Cache = IF q = "success" THEN c.data[r + 1] ELSE Null
      /\ u.Message_Incomplete = b.Message_Incomplete /\ u.Enabled = b.Enabled
      /\ u.Epoch = c.Epoch
  BY <1>1, <1>3 DEF Buffer
<1>6. u \in Buffer
  <2>1. u.RC \in Nat /\ u.Cache \in Fragment \cup {Null}
    BY <1>0, <1>2, <1>4, <1>5, HeldTypes
  <2>2. u = [y EXCEPT !.RC = u.RC, !.New_Epoch_Occurred = u.New_Epoch_Occurred,
                      !.Overrun_Occurred = u.Overrun_Occurred, !.Cache = u.Cache]
    BY <1>1, <1>3 DEF Buffer
  <2>3. u.New_Epoch_Occurred \in BOOLEAN /\ u.Overrun_Occurred \in BOOLEAN
    BY <1>5, HeldTypes
  <2> QED BY <1>1, <2>1, <2>2, <2>3 DEF Buffer
<1>7. u.New_Epoch_Occurred = (b.New_Epoch_Occurred \/ restarted)
  BY <1>2, <1>5
<1>8. CASE q = "success"
  BY <1>0, <1>2, <1>5, <1>6, <1>7, <1>8, HeldTypes
<1>9. CASE q = "overrun_detected"
  BY <1>0, <1>2, <1>5, <1>6, <1>7, <1>9, HeldTypes
<1>10. CASE q \notin {"success", "overrun_detected"}
  BY <1>0, <1>2, <1>5, <1>6, <1>7, <1>10, HeldTypes
<1> QED BY <1>8, <1>9, <1>10

\* A read keeps the fragments in order and notes what it passes over.
LEMMA KeptUpdate ==
  ASSUME NEW b \in Buffer, NEW c \in Channel, NEW h \in Seq(Hearing), writes \in Nat,
         Kept(b, c, h, writes), b.Cache = Null, NEW restarted \in BOOLEAN, NEW u,
         u = Update_Message_Buffer(b, c, restarted)
  PROVE  /\ u \in Buffer /\ u.Message_Incomplete = b.Message_Incomplete
         /\ Kept(u, c, h, writes) /\ Held(u, c) \subseteq Held(b, c)
         /\ restarted => u.Cache = Null
<1> DEFINE r == IF b.Epoch # c.Epoch THEN 0 ELSE b.RC
<1>0. Written(c, writes) /\ Cursor(b, c, writes)
  BY DEF Kept
<1>1. /\ u \in Buffer /\ u.Message_Incomplete = b.Message_Incomplete
      /\ u.Epoch = c.Epoch /\ r \in Nat /\ r <= Len(c.data)
      /\ u.New_Epoch_Occurred = (b.New_Epoch_Occurred \/ restarted)
      /\ \/ u.Cache = Null /\ u.RC = r /\ u.Overrun_Occurred = b.Overrun_Occurred
         \/ u.Cache = Null /\ u.RC = Len(c.data) /\ u.Overrun_Occurred
         \/ /\ r < Len(c.data) /\ u.Cache = c.data[r + 1] /\ u.RC = r + 1
            /\ u.Overrun_Occurred = b.Overrun_Occurred
      /\ restarted => u.Cache = Null
  BY <1>0, UpdateCases
<1>2. b.Epoch = c.Epoch => r = b.RC
  OBVIOUS
<1> HIDE DEF r
<1>3. u.Cache # Null => /\ r + 1 \in 1..Len(c.data) /\ u.Cache = c.data[r + 1] /\ u.RC = r + 1
                        /\ u.Cache.epoch = c.Epoch /\ u.Cache.seq < writes /\ u.Cache.seq \in Nat
                        /\ \A k \in 1..Len(c.data) : k <= r + 1 <=> c.data[k].seq <= u.Cache.seq
  <2> SUFFICES ASSUME u.Cache # Null
               PROVE  /\ r + 1 \in 1..Len(c.data) /\ u.Cache = c.data[r + 1] /\ u.RC = r + 1
                      /\ u.Cache.epoch = c.Epoch /\ u.Cache.seq < writes /\ u.Cache.seq \in Nat
                      /\ \A k \in 1..Len(c.data) : k <= r + 1 <=> c.data[k].seq <= u.Cache.seq
    OBVIOUS
  <2>1. r + 1 \in 1..Len(c.data) /\ u.Cache = c.data[r + 1] /\ u.RC = r + 1
    BY <1>1, HeldTypes
  <2>2. u.Cache.epoch = c.Epoch /\ u.Cache.seq < writes /\ u.Cache.seq \in Nat
    BY <1>0, <2>1, HeldTypes DEF Written
  <2>3. ASSUME NEW k \in 1..Len(c.data) PROVE k <= r + 1 <=> c.data[k].seq <= u.Cache.seq
    <3>1. c.data[k].seq \in Nat /\ k \in Nat /\ r + 1 \in Nat
      BY <1>1, HeldTypes
    <3>2. /\ k < r + 1 => c.data[k].seq < c.data[r + 1].seq
          /\ r + 1 < k => c.data[r + 1].seq < c.data[k].seq
      BY <1>0, <2>1 DEF Written
    <3> DEFINE x == c.data[k].seq
               y == u.Cache.seq
               n == r + 1
    <3>3. /\ k = n => x = y
          /\ k < n => x < y
          /\ n < k => y < x
          /\ x \in Nat /\ y \in Nat /\ n \in Nat /\ k \in Nat
      BY <2>1, <2>2, <3>1, <3>2
    <3> HIDE DEF x, y, n
    <3>4. k <= n <=> x <= y
      BY <3>3
    <3> QED BY <3>4 DEF x, y, n
  <2> QED BY <2>1, <2>2, <2>3
<1>4. Cursor(u, c, writes)
  <2>1. u.Epoch <= c.Epoch /\ u.RC <= Len(c.data)
    BY <1>1, HeldTypes
  <2>2. u.Cache # Null => \A k \in 1..u.RC : c.data[k].seq <= u.Cache.seq
    BY <1>3, <1>1, HeldTypes
  <2> QED BY <1>1, <1>3, <2>1, <2>2, HeldTypes DEF Cursor
<1>5. ASSUME h # <<>> PROVE Following(u, c, h[Len(h)].frag, writes)
  <2> DEFINE f == h[Len(h)].frag
  <2>0. Following(b, c, f, writes) /\ f \in Fragment
    <3>1. h[Len(h)] \in Hearing
      BY <1>5, EmptySeq, ElementOfSeq
    <3> QED BY <1>5, <3>1 DEF Kept, Hearing
  <2> HIDE DEF f
  <2>1. f.epoch \in Nat /\ f.seq \in Nat /\ f.epoch <= b.Epoch /\ f.seq < writes /\ b.Epoch <= c.Epoch
    BY <1>0, <2>0 DEF Fragment, Following, Cursor
  <2>2. f.epoch <= u.Epoch
    BY <1>1, <2>1, HeldTypes
  <2>3. f.epoch = c.Epoch => b.Epoch = c.Epoch
    BY <2>1, HeldTypes
  <2>4. ASSUME ~u.Overrun_Occurred, ~u.New_Epoch_Occurred, f.epoch = c.Epoch
        PROVE  r = b.RC /\ \A k \in 1..r : c.data[k].seq <= f.seq
    BY <1>1, <1>2, <2>0, <2>3, <2>4, HeldTypes DEF Following
  <2>5. ASSUME ~u.Overrun_Occurred, ~u.New_Epoch_Occurred, u.Cache = Null, f.epoch = c.Epoch,
               NEW k \in 1..u.RC
        PROVE  c.data[k].seq <= f.seq
    <3>1. u.RC = r
      BY <1>1, <1>3, <2>5, NullNoFragment, HeldTypes
    <3> QED BY <2>4, <2>5, <3>1
  <2>6. ASSUME ~u.Overrun_Occurred, ~u.New_Epoch_Occurred, u.Cache # Null
        PROVE  Apart(c, f, u.Cache)
    <3> SUFFICES ASSUME f.epoch = c.Epoch, NEW k \in 1..Len(c.data), f.seq < c.data[k].seq,
                        c.data[k].seq < u.Cache.seq
                 PROVE  FALSE
      BY DEF Apart
    <3>1. c.data[k].seq \in Nat /\ k \in Nat
      BY HeldTypes
    <3>2. k <= r + 1 /\ k # r + 1
      <4>1. c.data[k].seq <= u.Cache.seq /\ c.data[k].seq # u.Cache.seq
        BY <1>3, <2>6, <3>1
      <4>2. k <= r + 1
        BY <1>3, <2>6, <4>1
      <4>3. k # r + 1
        BY <1>3, <2>6, <4>1
      <4> QED BY <4>2, <4>3
    <3>3. k \in 1..r
      BY <1>1, <3>1, <3>2
    <3>4. c.data[k].seq <= f.seq
      BY <2>4, <2>6, <3>3
    <3> QED BY <2>1, <3>1, <3>4
  <2>7. Following(u, c, f, writes)
    BY <2>1, <2>2, <2>5, <2>6 DEF Following
  <2> QED BY <2>7 DEF f
<1>6. Kept(u, c, h, writes)
  BY <1>4, <1>5 DEF Kept
<1>7. Held(u, c) \subseteq Held(b, c)
  BY <1>3 DEF Held
<1> QED BY <1>1, <1>6, <1>7

\* A subject that starts over empties its channel.
LEMMA KeptStart ==
  ASSUME NEW b \in Buffer, NEW c \in Channel, NEW h \in Seq(Hearing), writes \in Nat,
         Kept(b, c, h, writes), NEW d, d = [Epoch |-> c.Epoch + 1, data |-> <<>>]
  PROVE  d \in Channel /\ Kept(b, d, h, writes) /\ Held(b, d) \subseteq Held(b, c)
<1>1. d \in Channel /\ d.Epoch = c.Epoch + 1 /\ Len(d.data) = 0 /\ c.Epoch \in Nat /\ b.Epoch \in Nat
  BY HeldTypes DEF Channel, Text
<1>2. Written(d, writes)
  BY <1>1 DEF Written
<1>3. Cursor(b, d, writes)
  BY <1>1, HeldTypes DEF Kept, Cursor
<1>4. ASSUME NEW f, NEW g, f.epoch \in Nat, f.epoch <= c.Epoch PROVE Apart(d, f, g)
  BY <1>1, <1>4 DEF Apart
<1>5. ASSUME NEW i \in 1..Len(Lines(h)) PROVE Whole(Lines(h)[i], d, writes)
  <2> DEFINE line == Lines(h)[i]
  <2>1. line \in Text
    BY ElementOfSeq DEF Kept
  <2>2. Len(line) \in Nat /\ \A j \in 1..Len(line) : line[j] \in Fragment
    BY <2>1, ElementOfSeq, LenProperties DEF Text
  <2>3. Whole(line, c, writes)
    BY DEF Kept
  <2> HIDE DEF line
  <2>4. \A j \in 1..Len(line) : line[j].epoch \in Nat /\ line[j].epoch <= c.Epoch /\ line[j].seq < writes
    BY <2>2, <2>3 DEF Whole, Fragment
  <2>5. \A j \in 1..Len(line) : line[j].epoch <= d.Epoch
    <3> SUFFICES ASSUME NEW j \in 1..Len(line) PROVE line[j].epoch <= d.Epoch
      OBVIOUS
    <3>1. line[j].epoch \in Nat /\ line[j].epoch <= c.Epoch
      BY <2>4
    <3>2. c.Epoch \in Nat /\ d.Epoch = c.Epoch + 1
      BY <1>1
    <3> DEFINE e == line[j].epoch
               n == c.Epoch
    <3> HIDE DEF e, n
    <3>3. e <= n + 1
      BY <3>1, <3>2 DEF e, n
    <3> QED BY <3>2, <3>3 DEF e, n
  <2>6. \A j \in 1..(Len(line) - 1) : Apart(d, line[j], line[j + 1])
    <3> SUFFICES ASSUME NEW j \in 1..(Len(line) - 1) PROVE Apart(d, line[j], line[j + 1])
      OBVIOUS
    <3>1. j \in 1..Len(line)
      BY <2>2
    <3>2. line[j].epoch \in Nat /\ line[j].epoch <= c.Epoch
      BY <2>4, <3>1
    <3> QED BY <1>4, <3>2
  <2>7. Whole(line, d, writes)
    BY <2>4, <2>5, <2>6 DEF Whole
  <2> QED BY <2>7 DEF line
<1>6. ASSUME h # <<>> PROVE Following(b, d, h[Len(h)].frag, writes)
  <2> DEFINE f == h[Len(h)].frag
  <2>0. Following(b, c, f, writes) /\ f \in Fragment
    <3>1. h[Len(h)] \in Hearing
      BY <1>6, EmptySeq, ElementOfSeq
    <3> QED BY <1>6, <3>1 DEF Kept, Hearing
  <2> HIDE DEF f
  <2>1. f.epoch \in Nat /\ f.epoch <= b.Epoch /\ b.Epoch <= c.Epoch /\ f.seq < writes
    BY <2>0 DEF Fragment, Following, Kept, Cursor
  <2>2. f.epoch # d.Epoch /\ f.epoch <= c.Epoch
    BY <1>1, <2>1
  <2>3. Following(b, d, f, writes)
    BY <1>4, <2>1, <2>2 DEF Following
  <2> QED BY <2>3 DEF f
<1>7. Held(b, d) \subseteq Held(b, c)
  BY <1>1 DEF Held
<1> QED BY <1>1, <1>2, <1>3, <1>5, <1>6, <1>7 DEF Kept

\* A fragment that is written is the newest.
LEMMA KeptWrite ==
  ASSUME NEW b \in Buffer, NEW c \in Channel, NEW h \in Seq(Hearing), writes \in Nat,
         Kept(b, c, h, writes), NEW x \in Fragment, x.seq = writes, x.epoch = c.Epoch,
         NEW d, d = [c EXCEPT !.data = Append(@, x)]
  PROVE  /\ d \in Channel /\ Kept(b, d, h, writes + 1)
         /\ Held(b, d) = Held(b, c) \cup {x}
         /\ \A y \in Held(b, c) : y.seq < writes
<1> DEFINE n == Len(c.data)
<1>0. c.data \in Seq(Fragment) /\ n \in Nat
  BY HeldTypes DEF Channel, Text
<1>1. /\ d.Epoch = c.Epoch /\ d.data = Append(c.data, x) /\ d.data \in Text
      /\ d = [Epoch |-> d.Epoch, data |-> d.data] /\ d.Epoch \in Nat
  BY <1>0, AppendProperties DEF Channel, Text
<1>2. d \in Channel
  BY <1>1 DEF Channel
<1>3. Len(d.data) = n + 1 /\ d.data[n + 1] = x /\ \A k \in 1..n : d.data[k] = c.data[k]
  BY <1>0, <1>1, AppendProperties
<1> HIDE DEF n
<1>4. \A k \in 1..n : c.data[k].seq \in Nat /\ c.data[k].seq < writes /\ c.data[k].epoch = c.Epoch
  BY HeldTypes DEF Kept, Written, n
<1>5. Written(d, writes + 1)
  <2>1. \A k \in 1..Len(d.data) : d.data[k].seq < writes + 1 /\ d.data[k].epoch = d.Epoch
    <3> SUFFICES ASSUME NEW k \in 1..(n + 1)
                 PROVE  d.data[k].seq < writes + 1 /\ d.data[k].epoch = d.Epoch
      BY <1>3
    <3>1. CASE k = n + 1
      BY <1>1, <1>3, <3>1
    <3>2. CASE k # n + 1
      <4>1. k \in 1..n
        BY <1>0, <3>2
      <4> QED BY <1>1, <1>3, <1>4, <4>1
    <3> QED BY <3>1, <3>2
  <2>2. ASSUME NEW j \in 1..(n + 1), NEW k \in 1..(n + 1), j < k
        PROVE  d.data[j].seq < d.data[k].seq
    <3>1. j \in 1..n
      BY <1>0, <2>2
    <3>2. CASE k = n + 1
      BY <1>3, <1>4, <3>1, <3>2
    <3>3. CASE k # n + 1
      <4>1. k \in 1..n
        BY <1>0, <3>3
      <4> QED BY <1>3, <2>2, <3>1, <4>1 DEF Kept, Written, n
    <3> QED BY <3>2, <3>3
  <2> QED BY <1>3, <2>1, <2>2 DEF Written
<1>6. ASSUME NEW f, NEW g, Apart(c, f, g), g.seq \in Nat, g.seq < writes PROVE Apart(d, f, g)
  <2> SUFFICES ASSUME f.epoch = g.epoch, f.epoch = c.Epoch, f.seq < g.seq, NEW k \in 1..(n + 1),
                      f.seq < d.data[k].seq, d.data[k].seq < g.seq
               PROVE  FALSE
    BY <1>1, <1>3 DEF Apart
  <2>1. CASE k = n + 1
    BY <1>3, <1>6, <2>1
  <2>2. CASE k # n + 1
    <3>1. k \in 1..n
      BY <1>0, <2>2
    <3> QED BY <1>3, <1>6, <3>1 DEF Apart, n
  <2> QED BY <2>1, <2>2
<1>7. Cursor(b, c, writes) /\ b.RC \in Nat /\ b.Epoch \in Nat /\ c.Epoch \in Nat
  BY HeldTypes DEF Kept
<1>8. b.Epoch = c.Epoch => \A k \in 1..b.RC : k \in 1..n /\ d.data[k] = c.data[k]
  BY <1>0, <1>3, <1>7 DEF Cursor, n
<1>9. Cursor(b, d, writes + 1)
  <2>1. b.Epoch <= d.Epoch /\ (b.Epoch = d.Epoch => b.RC <= Len(d.data))
    BY <1>0, <1>1, <1>3, <1>7 DEF Cursor, n
  <2>2. ASSUME b.Cache # Null
        PROVE  /\ b.Cache.epoch <= b.Epoch /\ b.Cache.seq < writes + 1
               /\ b.Cache.epoch = d.Epoch => \A k \in 1..b.RC : d.data[k].seq <= b.Cache.seq
    <3>1. b.Cache.seq \in Nat /\ b.Cache.epoch \in Nat
      BY <2>2, HeldTypes
    <3>2. b.Cache.epoch <= b.Epoch /\ b.Cache.seq < writes /\ b.Epoch <= c.Epoch
      BY <1>7, <2>2 DEF Cursor
    <3>3. b.Cache.epoch = c.Epoch => b.Epoch = c.Epoch /\ \A k \in 1..b.RC : c.data[k].seq <= b.Cache.seq
      BY <1>7, <2>2, <3>1, <3>2 DEF Cursor
    <3>4. b.Cache.seq < writes + 1
      BY <3>1, <3>2
    <3> QED BY <1>1, <1>8, <3>2, <3>3, <3>4
  <2> QED BY <2>1, <2>2 DEF Cursor
<1>10. ASSUME NEW i \in 1..Len(Lines(h)) PROVE Whole(Lines(h)[i], d, writes + 1)
  <2> DEFINE line == Lines(h)[i]
  <2>1. line \in Text
    BY ElementOfSeq DEF Kept
  <2>2. Len(line) \in Nat /\ \A j \in 1..Len(line) : line[j] \in Fragment
    BY <2>1, ElementOfSeq, LenProperties DEF Text
  <2>3. Whole(line, c, writes)
    BY DEF Kept
  <2> HIDE DEF line
  <2>4. ASSUME NEW j \in 1..Len(line)
        PROVE  /\ line[j].epoch <= d.Epoch /\ line[j].seq \in Nat /\ line[j].seq < writes
               /\ line[j].seq < writes + 1
    <3>1. line[j].epoch <= c.Epoch /\ line[j].seq \in Nat /\ line[j].seq < writes
      BY <2>2, <2>3 DEF Whole, Fragment
    <3> QED BY <1>1, <3>1
  <2>5. ASSUME NEW j \in 1..(Len(line) - 1) PROVE Apart(d, line[j], line[j + 1])
    <3>1. j + 1 \in 1..Len(line)
      BY <2>2
    <3>2. Apart(c, line[j], line[j + 1])
      BY <2>3 DEF Whole
    <3> QED BY <1>6, <2>4, <3>1, <3>2
  <2>6. Whole(line, d, writes + 1)
    BY <2>4, <2>5 DEF Whole
  <2> QED BY <2>6 DEF line
<1>11. ASSUME h # <<>> PROVE Following(b, d, h[Len(h)].frag, writes + 1)
  <2> DEFINE f == h[Len(h)].frag
  <2>0. Following(b, c, f, writes) /\ f \in Fragment
    <3>1. h[Len(h)] \in Hearing
      BY <1>11, EmptySeq, ElementOfSeq
    <3> QED BY <1>11, <3>1 DEF Kept, Hearing
  <2> HIDE DEF f
  <2>1. f.epoch \in Nat /\ f.seq \in Nat /\ f.epoch <= b.Epoch /\ f.seq < writes
    BY <2>0 DEF Fragment, Following
  <2>2. f.seq < writes + 1
    BY <2>1
  <2>3. f.epoch = c.Epoch => b.Epoch = c.Epoch
    BY <1>7, <2>1 DEF Cursor
  <2>4. ASSUME ~b.Overrun_Occurred, ~b.New_Epoch_Occurred, b.Cache # Null PROVE Apart(d, f, b.Cache)
    <3>1. Apart(c, f, b.Cache) /\ b.Cache.seq < writes /\ b.Cache.seq \in Nat
      BY <1>7, <2>0, <2>4, HeldTypes DEF Following, Cursor
    <3> QED BY <1>6, <3>1
  <2>5. ASSUME ~b.Overrun_Occurred, ~b.New_Epoch_Occurred, b.Cache = Null, f.epoch = d.Epoch
        PROVE  \A k \in 1..b.RC : d.data[k].seq <= f.seq
    BY <1>1, <1>8, <2>0, <2>3, <2>5 DEF Following
  <2>6. Following(b, d, f, writes + 1)
    BY <2>1, <2>2, <2>4, <2>5 DEF Following
  <2> QED BY <2>6 DEF f
<1>12. Kept(b, d, h, writes + 1)
  BY <1>5, <1>9, <1>10, <1>11 DEF Kept
<1>13. Held(b, d) = Held(b, c) \cup {x}
  <2>1. ASSUME NEW y PROVE (\E k \in 1..(n + 1) : y = d.data[k]) <=> (y = x \/ \E k \in 1..n : y = c.data[k])
    <3>1. ASSUME NEW k \in 1..(n + 1), y = d.data[k] PROVE y = x \/ \E l \in 1..n : y = c.data[l]
      <4>1. k = n + 1 \/ k \in 1..n
        BY <1>0
      <4> QED BY <1>3, <3>1, <4>1
    <3>2. y = x => \E k \in 1..(n + 1) : y = d.data[k]
      BY <1>0, <1>3
    <3>3. ASSUME NEW k \in 1..n, y = c.data[k] PROVE \E l \in 1..(n + 1) : y = d.data[l]
      BY <1>0, <1>3, <3>3
    <3> QED BY <3>1, <3>2, <3>3
  <2>2. {d.data[k] : k \in 1..(n + 1)} = {c.data[k] : k \in 1..n} \cup {x}
    BY <2>1
  <2> QED BY <1>3, <2>2 DEF Held, n
<1>14. \A y \in Held(b, c) : y.seq < writes
  BY <1>4, <1>7 DEF Held, Cursor, n
<1> QED BY <1>2, <1>12, <1>13, <1>14

\* A command enables a buffer, disables it, or has its channel read again.
LEMMA KeptCommand ==
  ASSUME NEW b \in Buffer, NEW c \in Channel, NEW h \in Seq(Hearing), writes \in Nat,
         Kept(b, c, h, writes), NEW d \in Buffer,
         d.Cache = b.Cache, d.Epoch = b.Epoch, d.RC = b.RC \/ d.RC = 0,
         d.Overrun_Occurred = b.Overrun_Occurred, d.New_Epoch_Occurred = b.New_Epoch_Occurred
  PROVE  Kept(d, c, h, writes) /\ Held(d, c) = Held(b, c)
<1>1. Cursor(d, c, writes)
  BY HeldTypes DEF Kept, Cursor
<1>2. h # <<>> => Following(d, c, h[Len(h)].frag, writes)
  BY HeldTypes DEF Kept, Following
<1>3. Held(d, c) = Held(b, c)
  BY DEF Held
<1> QED BY <1>1, <1>2, <1>3 DEF Kept

\* The lines of what was heard, with the message of the buffer.
LEMMA LinesPrinted ==
  ASSUME NEW b \in Buffer, NEW c \in Channel, NEW h \in Seq(Hearing), writes \in Nat,
         Kept(b, c, h, writes), b.Cache # Null, NEW x \in Hearing, x.frag = b.Cache,
         x.gap = (b.Overrun_Occurred \/ b.New_Epoch_Occurred)
  PROVE  LET lines == Lines(Append(h, x))
         IN  /\ lines \in Seq(Text) /\ lines # <<>>
             /\ \A i \in 1..Len(lines) : Whole(lines[i], c, writes)
             /\ EndsWith(lines, b.Cache)
<1> DEFINE L == Lines(h)
           n == Len(L)
           f == b.Cache
           M == Lines(Append(h, x))
<1>1. L \in Seq(Text) /\ L # <<>> /\ n \in Nat /\ n \in 1..n /\ L[n] \in Text
  BY EmptySeq, ElementOfSeq DEF Kept
<1>2. /\ f \in Fragment /\ f.epoch \in Nat /\ f.seq \in Nat /\ f.epoch <= c.Epoch /\ f.seq < writes
      /\ <<f>> \in Text
  <2>1. /\ f \in Fragment /\ f.epoch \in Nat /\ f.seq \in Nat
        /\ f.epoch <= b.Epoch /\ f.seq < writes /\ b.Epoch <= c.Epoch /\ b.Epoch \in Nat /\ c.Epoch \in Nat
    BY HeldTypes DEF Kept, Cursor
  <2>2. <<f>> \in Text
    BY <2>1 DEF Text
  <2> HIDE DEF f
  <2> QED BY <2>1, <2>2
<1>3. \A i \in 1..n : Whole(L[i], c, writes)
  BY DEF Kept
<1>4. M = IF h # <<>> /\ (x.gap \/ h[Len(h)].frag.LF) THEN Append(L, <<f>>)
          ELSE [L EXCEPT ![n] = L[n] \o <<f>>]
  BY LinesAppend
<1>5. ASSUME h # <<>> PROVE EndsWith(L, h[Len(h)].frag) /\ Following(b, c, h[Len(h)].frag, writes)
  BY <1>5 DEF Kept
<1>6. h = <<>> => L = <<<<>>>>
  BY LinesEmpty
<1> HIDE DEF M, L, n, f
<1>7. CASE h # <<>> /\ (x.gap \/ h[Len(h)].frag.LF)
  <2>1. M = Append(L, <<f>>)
    BY <1>4, <1>7
  <2>2. M \in Seq(Text) /\ Len(M) = n + 1 /\ M[n + 1] = <<f>> /\ \A i \in 1..n : M[i] = L[i]
    BY <1>1, <1>2, <2>1, AppendProperties DEF n
  <2>3. M # <<>>
    BY <1>1, <2>2, EmptySeq
  <2>4. Whole(<<f>>, c, writes)
    BY <1>2 DEF Whole
  <2>5. ASSUME NEW i \in 1..(n + 1) PROVE Whole(M[i], c, writes)
    <3>1. i = n + 1 \/ i \in 1..n
      BY <1>1
    <3> QED BY <1>3, <2>2, <2>4, <3>1
  <2>6. EndsWith(M, f)
    BY <2>2 DEF EndsWith
  <2> QED BY <2>2, <2>3, <2>5, <2>6 DEF M, f
<1>8. CASE ~(h # <<>> /\ (x.gap \/ h[Len(h)].frag.LF))
  <2> DEFINE l == L[n]
             m == l \o <<f>>
             p == Len(l)
  <2>1. l \in Seq(Fragment) /\ p \in Nat /\ \A j \in 1..p : l[j] \in Fragment
    BY <1>1, ElementOfSeq, LenProperties DEF Text
  <2>2. m \in Text /\ Len(m) = p + 1 /\ m[p + 1] = f /\ \A j \in 1..p : m[j] = l[j]
    <3>1. l \in Seq(Fragment) /\ <<f>> \in Seq(Fragment) /\ Len(<<f>>) = 1 /\ <<f>>[1] = f
      BY <1>2, <2>1 DEF Text
    <3>2. /\ m \in Seq(Fragment) /\ Len(m) = p + 1
          /\ \A j \in 1..(p + 1) : m[j] = IF j <= p THEN l[j] ELSE <<f>>[j - p]
      BY <3>1, ConcatProperties
    <3>3. \A j \in 1..p : m[j] = l[j]
      BY <2>1, <3>2
    <3>4. m[p + 1] = f
      <4>1. p + 1 \in 1..(p + 1) /\ ~(p + 1 <= p) /\ p + 1 - p = 1
        BY <2>1
      <4> QED BY <3>1, <3>2, <4>1
    <3> QED BY <3>2, <3>3, <3>4 DEF Text
  <2>3. M = [L EXCEPT ![n] = m]
    BY <1>4, <1>8
  <2>4. Whole(l, c, writes)
    BY <1>1, <1>3
  <2> HIDE DEF l, m, p
  <2>5. M \in Seq(Text) /\ Len(M) = n /\ \A i \in 1..n : M[i] = IF i = n THEN m ELSE L[i]
    BY <1>1, <2>2, <2>3, ExceptSeq DEF n
  <2>6. p > 0 => Apart(c, l[p], f)
    <3> SUFFICES ASSUME p > 0 PROVE Apart(c, l[p], f)
      OBVIOUS
    <3>1. h # <<>>
      <4>1. L = <<<<>>>> => p = 0
        <5>1. ASSUME L = <<<<>>>> PROVE n = 1 /\ L[1] = <<>>
          BY <5>1 DEF n
        <5> QED BY <5>1 DEF l, p
      <4> QED BY <1>6, <4>1, <2>1
    <3>2. l[p] = h[Len(h)].frag
      BY <1>5, <3>1 DEF EndsWith, l, p, n
    <3>3. ~x.gap
      BY <1>8, <3>1
    <3>4. ~b.Overrun_Occurred /\ ~b.New_Epoch_Occurred
      BY <3>3
    <3> QED BY <1>5, <3>1, <3>2, <3>4 DEF Following, f
  <2>7. Whole(m, c, writes)
    <3>1. ASSUME NEW j \in 1..(p + 1) PROVE m[j].epoch <= c.Epoch /\ m[j].seq < writes
      <4>1. j = p + 1 \/ j \in 1..p
        BY <2>1
      <4> QED BY <1>2, <2>2, <2>4, <4>1 DEF Whole, p
    <3>2. ASSUME NEW j \in 1..p PROVE Apart(c, m[j], m[j + 1])
      <4>1. CASE j = p
        <5>1. p > 0 /\ m[j] = l[p] /\ m[j + 1] = f
          BY <2>1, <2>2, <4>1
        <5> QED BY <2>6, <5>1
      <4>2. CASE j # p
        <5>1. j \in 1..(p - 1) /\ j + 1 \in 1..p
          BY <2>1, <4>2
        <5>2. Apart(c, l[j], l[j + 1])
          BY <2>4, <5>1 DEF Whole, p
        <5> QED BY <2>2, <5>1, <5>2
      <4> QED BY <4>1, <4>2
    <3>3. Len(m) - 1 = p
      BY <2>1, <2>2
    <3> QED BY <2>2, <3>1, <3>2, <3>3 DEF Whole
  <2>8. \A i \in 1..n : Whole(M[i], c, writes)
    BY <1>3, <2>5, <2>7
  <2>9. EndsWith(M, f)
    <3>1. M[Len(M)] = m /\ Len(m) = p + 1 /\ m[p + 1] = f
      BY <1>1, <2>2, <2>5
    <3>2. m # <<>>
      BY <2>1, <2>2, EmptySeq
    <3> QED BY <3>1, <3>2 DEF EndsWith
  <2>10. M # <<>>
    BY <1>1, <2>5, EmptySeq
  <2> QED BY <2>5, <2>8, <2>9, <2>10 DEF M, f
<1> QED BY <1>7, <1>8

\* The message is printed.
LEMMA KeptPrint ==
  ASSUME NEW b \in Buffer, NEW c \in Channel, NEW h \in Seq(Hearing), writes \in Nat,
         Kept(b, c, h, writes), b.Cache # Null, NEW x \in Hearing, x.frag = b.Cache,
         x.gap = (b.Overrun_Occurred \/ b.New_Epoch_Occurred),
         NEW d \in Buffer, d.Cache = Null, d.Epoch = b.Epoch, d.RC = b.RC
  PROVE  Kept(d, c, Append(h, x), writes) /\ Held(d, c) \subseteq Held(b, c)
<1> DEFINE g == Append(h, x)
<1>1. g \in Seq(Hearing) /\ g # <<>> /\ g[Len(g)] = x
  BY AppendProperties, LenProperties
<1>2. Cursor(d, c, writes)
  BY DEF Kept, Cursor
<1>3. Following(d, c, b.Cache, writes)
  BY DEF Kept, Cursor, Following
<1>4. /\ Lines(g) \in Seq(Text) /\ Lines(g) # <<>>
      /\ \A i \in 1..Len(Lines(g)) : Whole(Lines(g)[i], c, writes)
      /\ EndsWith(Lines(g), b.Cache)
  BY LinesPrinted
<1>5. Held(d, c) \subseteq Held(b, c)
  BY DEF Held
<1> HIDE DEF g
<1>6. Kept(d, c, g, writes)
  BY <1>1, <1>2, <1>3, <1>4 DEF Kept
<1> QED BY <1>5, <1>6 DEF g

-----------------------------------------------------------------------------
(* What the script is told *)

\* A message is printed on a line of its own: the script continues the subject's last line
\* with it just where the message goes on.
LEMMA ToldPrefix ==
  ASSUME NEW s \in Subject_Buffer_Range, NEW lines \in Seq(Line), NEW f \in Fragment, NEW b,
         NEW h \in Seq(Hearing), Told(s, lines, b, h), NEW x \in Hearing, x.frag = f,
         NEW line \in Line, line.subject = s, line.text = <<f>>,
         line.mark = ">" <=> ~x.gap /\ b.Message_Incomplete,
         NEW d, d.Message_Incomplete <=> ~f.LF
  PROVE  Told(s, Append(lines, line), d, Append(h, x))
<1> DEFINE longer == Append(lines, line)
           g == Append(h, x)
           S == Script(s, lines)
<1>1. g # <<>> /\ g[Len(g)] = x
  BY AppendProperties, LenProperties
<1>2. /\ S = Lines(h) /\ (Seen(s, lines) <=> h # <<>>)
      /\ b.Message_Incomplete <=> h # <<>> /\ ~h[Len(h)].frag.LF
  BY DEF Told
<1> DEFINE part == [kind |-> IF line.mark # ">" /\ Seen(s, lines) THEN "new" ELSE "more",
                    text |-> line.text]
<1>3. Script(s, longer) = Added(S, part) /\ Seen(s, longer)
  BY ScriptAppend
<1>4. Lines(g) = IF h # <<>> /\ (x.gap \/ h[Len(h)].frag.LF) THEN Append(Lines(h), <<f>>)
                 ELSE [Lines(h) EXCEPT ![Len(Lines(h))] = @ \o <<f>>]
  BY LinesAppend
<1>5. line.mark # ">" /\ Seen(s, lines) <=> h # <<>> /\ (x.gap \/ h[Len(h)].frag.LF)
  BY <1>2
<1> HIDE DEF longer, g, S
<1>6. Script(s, longer) = Lines(g)
  <2>1. CASE h # <<>> /\ (x.gap \/ h[Len(h)].frag.LF)
    BY <1>2, <1>3, <1>4, <1>5, <2>1 DEF Added
  <2>2. CASE ~(h # <<>> /\ (x.gap \/ h[Len(h)].frag.LF))
    BY <1>2, <1>3, <1>4, <1>5, <2>2 DEF Added
  <2> QED BY <2>1, <2>2
<1>7. d.Message_Incomplete <=> g # <<>> /\ ~g[Len(g)].frag.LF
  BY <1>1
<1> QED BY <1>1, <1>3, <1>6, <1>7 DEF Told, longer, g

\* A message is printed on the line of the one it goes on with.
LEMMA ToldMore ==
  ASSUME NEW s \in Subject_Buffer_Range, NEW lines \in Seq(Line), lines # <<>>,
         NEW f \in Fragment, NEW b, NEW h \in Seq(Hearing), Told(s, lines, b, h),
         NEW x \in Hearing, x.frag = f, ~x.gap, b.Message_Incomplete,
         lines[Len(lines)].subject = s, NEW longer \in Seq(Line), Len(longer) = Len(lines),
         \A k \in 1..(Len(lines) - 1) : longer[k] = lines[k],
         longer[Len(lines)].subject = lines[Len(lines)].subject,
         longer[Len(lines)].mark = lines[Len(lines)].mark,
         longer[Len(lines)].text = Append(lines[Len(lines)].text, f),
         NEW d, d.Message_Incomplete <=> ~f.LF
  PROVE  Told(s, longer, d, Append(h, x))
<1> DEFINE g == Append(h, x)
           L == Lines(h)
           n == Len(L)
<1>2. g # <<>> /\ g[Len(g)] = x
  BY AppendProperties, LenProperties
<1>3. Script(s, lines) = L /\ (Seen(s, lines) <=> h # <<>>) /\ h # <<>> /\ ~h[Len(h)].frag.LF
  BY DEF Told
<1>4. L \in Seq(Text) /\ L # <<>>
  BY <1>3, ScriptType
<1>5. L[n] \in Text
  BY <1>4, EmptySeq, ElementOfSeq
<1>6. Append(L[n], f) = L[n] \o <<f>>
  BY <1>5, AppendIsConcat DEF Text
<1>7. Lines(g) = [L EXCEPT ![n] = L[n] \o <<f>>]
  BY <1>3, LinesAppend
<1>8. Script(s, longer) = [L EXCEPT ![n] = Append(L[n], f)] /\ Seen(s, longer)
  <2>1. Script(s, longer) = Extended(Script(s, lines), f) /\ (Seen(s, longer) <=> Seen(s, lines))
    BY ScriptExtend
  <2> QED BY <1>3, <2>1 DEF Extended
<1> HIDE DEF g, L, n
<1>9. d.Message_Incomplete <=> g # <<>> /\ ~g[Len(g)].frag.LF
  BY <1>2
<1> QED BY <1>2, <1>6, <1>7, <1>8, <1>9 DEF Told, g

\* What is not printed for a subject does not tell its script anything.
LEMMA ToldOther ==
  ASSUME NEW s \in Subject_Buffer_Range, NEW lines \in Seq(Line), NEW b, NEW h, Told(s, lines, b, h),
         NEW line \in Line, line.subject # s, NEW d, d.Message_Incomplete = b.Message_Incomplete
  PROVE  Told(s, Append(lines, line), d, h)
  BY ScriptAppend DEF Told

\* Nor does what goes on with the line of another subject.
LEMMA ToldOtherMore ==
  ASSUME NEW s \in Subject_Buffer_Range, NEW lines \in Seq(Line), lines # <<>>, NEW b, NEW h,
         Told(s, lines, b, h), NEW f \in Fragment, lines[Len(lines)].subject # s,
         NEW longer \in Seq(Line), Len(longer) = Len(lines),
         \A k \in 1..(Len(lines) - 1) : longer[k] = lines[k],
         longer[Len(lines)].subject = lines[Len(lines)].subject,
         longer[Len(lines)].mark = lines[Len(lines)].mark,
         longer[Len(lines)].text = Append(lines[Len(lines)].text, f),
         NEW d, d.Message_Incomplete = b.Message_Incomplete
  PROVE  Told(s, longer, d, h)
  BY ScriptExtend DEF Told

-----------------------------------------------------------------------------
(* A call of Run *)

\* The buffers b and the channels ch when the channels have been read.
Read(b, ch) ==
  /\ b \in [Subject_Buffer_Range -> Buffer] /\ ch \in [Subject_Buffer_Range -> Channel]
  /\ \A s \in Subject_Buffer_Range :
       /\ Kept(b[s], ch[s], heard[s], writes)
       /\ b[s].Message_Incomplete = buffer[s].Message_Incomplete
       /\ Held(b[s], ch[s]) \subseteq Held(buffer[s], channel[s])

\* Reading the channels, some of which restart, keeps the fragments in order.
LEMMA ReadChannels ==
  ASSUME LogInv, NEW R \in SUBSET {s \in Subject_Buffer_Range : ~Is_Message_Present(buffer[s])},
         NEW b, b = Update_Message_Buffers(R), NEW ch,
         ch = [s \in Subject_Buffer_Range |->
                 IF s \in R THEN [Epoch |-> channel[s].Epoch + 1, data |-> <<>>] ELSE channel[s]]
  PROVE  Read(b, ch)
<1>1. ASSUME NEW s \in Subject_Buffer_Range
      PROVE  /\ b[s] \in Buffer /\ ch[s] \in Channel
             /\ Kept(b[s], ch[s], heard[s], writes)
             /\ b[s].Message_Incomplete = buffer[s].Message_Incomplete
             /\ Held(b[s], ch[s]) \subseteq Held(buffer[s], channel[s])
  <2>1. /\ buffer[s] \in Buffer /\ channel[s] \in Channel /\ heard[s] \in Seq(Hearing)
        /\ writes \in Nat /\ Kept(buffer[s], channel[s], heard[s], writes)
    BY DEF LogInv, LogType
  <2>2. /\ b[s] \in Buffer /\ b[s].Message_Incomplete = buffer[s].Message_Incomplete
        /\ Kept(b[s], channel[s], heard[s], writes)
        /\ Held(b[s], channel[s]) \subseteq Held(buffer[s], channel[s])
        /\ s \in R => b[s].Cache = Null
    <3>1. CASE buffer[s].Enabled /\ ~Is_Message_Present(buffer[s])
      <4>1. b[s] = Update_Message_Buffer(buffer[s], channel[s], s \in R)
        BY <3>1 DEF Update_Message_Buffers
      <4>2. buffer[s].Cache = Null
        BY <3>1 DEF Is_Message_Present
      <4> DEFINE r == s \in R
      <4>3. r \in BOOLEAN /\ b[s] = Update_Message_Buffer(buffer[s], channel[s], r)
        BY <4>1
      <4> HIDE DEF r
      <4>4. /\ b[s] \in Buffer /\ b[s].Message_Incomplete = buffer[s].Message_Incomplete
            /\ Kept(b[s], channel[s], heard[s], writes)
            /\ Held(b[s], channel[s]) \subseteq Held(buffer[s], channel[s])
            /\ r => b[s].Cache = Null
        BY <2>1, <4>2, <4>3, KeptUpdate
      <4> QED BY <4>4 DEF r
    <3>2. CASE ~(buffer[s].Enabled /\ ~Is_Message_Present(buffer[s]))
      <4>1. b[s] = buffer[s]
        BY <3>2 DEF Update_Message_Buffers
      <4> QED BY <2>1, <4>1 DEF Is_Message_Present
    <3> QED BY <3>1, <3>2
  <2>3. CASE s \notin R
    <3>1. ch[s] = channel[s]
      BY <2>3
    <3> QED BY <2>1, <2>2, <3>1
  <2>4. CASE s \in R
    <3>1. ch[s] = [Epoch |-> channel[s].Epoch + 1, data |-> <<>>]
      BY <2>4
    <3>2. /\ ch[s] \in Channel /\ Kept(b[s], ch[s], heard[s], writes)
          /\ Held(b[s], ch[s]) \subseteq Held(b[s], channel[s])
      BY <2>1, <2>2, <3>1, KeptStart
    <3> QED BY <2>2, <3>2
  <2> QED BY <2>3, <2>4
<1>2. b = [s \in Subject_Buffer_Range |-> b[s]] /\ ch = [s \in Subject_Buffer_Range |-> ch[s]]
  BY DEF Update_Message_Buffers
<1> QED BY <1>1, <1>2 DEF Read

\* As long as no fragment is written, the stamps stay in order.
LEMMA HeldLess ==
  ASSUME Stamped, Schedule_Start' = Schedule_Start, \A s \in Subject_Buffer_Range :
                        Held(buffer'[s], channel'[s]) \subseteq Held(buffer[s], channel[s])
  PROVE  Stamped'
  BY DEF Stamped

\* The prefix of a line.
LEMMA PrefixLine ==
  ASSUME NEW b, NEW s \in Subject_Buffer_Range, b[s] \in Buffer, b[s].Cache \in Fragment
  PROVE  /\ Add_Line_Prefix(b, s) \in Line /\ Add_Line_Prefix(b, s).subject = s
         /\ Add_Line_Prefix(b, s).text = <<b[s].Cache>>
         /\ Add_Line_Prefix(b, s).mark = ">" <=> /\ ~(b[s].Overrun_Occurred \/ b[s].New_Epoch_Occurred)
                                                 /\ b[s].Message_Incomplete
<1> DEFINE mark == Add_Line_Prefix(b, s).mark
           o == b[s].Overrun_Occurred
           n == b[s].New_Epoch_Occurred
           i == b[s].Message_Incomplete
<1>1. <<b[s].Cache>> \in Text /\ s \in Nat
  BY DEF Text, Subject_Buffer_Range
<1>2. o \in BOOLEAN /\ n \in BOOLEAN /\ i \in BOOLEAN
  BY DEF Buffer
<1>3. /\ mark = IF n THEN "%" ELSE IF o THEN "#" ELSE IF i THEN ">" ELSE "|"
      /\ Add_Line_Prefix(b, s).text = <<b[s].Cache>> /\ Add_Line_Prefix(b, s).subject = s
      /\ Add_Line_Prefix(b, s) = [mark |-> mark, subject |-> s, text |-> <<b[s].Cache>>]
  BY DEF Add_Line_Prefix
<1> HIDE DEF mark, o, n, i
<1>4. mark \in {"%", "#", ">", "|"} /\ (mark = ">" <=> ~(o \/ n) /\ i)
  BY <1>2, <1>3
<1>5. Add_Line_Prefix(b, s) \in Line
  BY <1>1, <1>3, <1>4 DEF Line
<1> QED BY <1>3, <1>4, <1>5 DEF mark, o, n, i

\* The message of s is printed: its buffer is empty, and the line it is on is the last one.
LEMMA MessageLogged ==
  ASSUME LogInv, NEW b, NEW ch, Read(b, ch), NEW s \in Subject_Buffer_Range, b[s].Cache # Null,
         Log_Message(b, s)
  PROVE  /\ b[s].Cache \in Fragment
         /\ buffer' \in [Subject_Buffer_Range -> Buffer]
         /\ heard' \in [Subject_Buffer_Range -> Seq(Hearing)]
         /\ \A t \in Subject_Buffer_Range \ {s} : buffer'[t] = b[t] /\ heard'[t] = heard[t]
         /\ buffer'[s].Cache = Null /\ buffer'[s].Epoch = b[s].Epoch /\ buffer'[s].RC = b[s].RC
         /\ buffer'[s].Message_Incomplete = ~b[s].Cache.LF
         /\ \E x \in Hearing : /\ heard'[s] = Append(heard[s], x) /\ x.frag = b[s].Cache
                               /\ x.gap = (b[s].Overrun_Occurred \/ b[s].New_Epoch_Occurred)
<1> DEFINE d == [b[s] EXCEPT !.Message_Incomplete = ~b[s].Cache.LF, !.Cache = Null,
                             !.Overrun_Occurred = FALSE, !.New_Epoch_Occurred = FALSE]
           x == [frag |-> b[s].Cache, gap |-> b[s].Overrun_Occurred \/ b[s].New_Epoch_Occurred]
<1>1. b \in [Subject_Buffer_Range -> Buffer] /\ b[s] \in Buffer
  BY DEF Read
<1>2. b[s].Cache \in Fragment /\ b[s].Cache.LF \in BOOLEAN
  BY <1>1 DEF Buffer, Fragment
<1>3. buffer' = [b EXCEPT ![s] = d]
  BY <1>1 DEF Log_Message
<1>4. /\ d \in Buffer /\ d.Cache = Null /\ d.Epoch = b[s].Epoch /\ d.RC = b[s].RC
      /\ d.Message_Incomplete = ~b[s].Cache.LF
  BY <1>1, <1>2 DEF Buffer
<1>5. x \in Hearing /\ x.frag = b[s].Cache /\ x.gap = (b[s].Overrun_Occurred \/ b[s].New_Epoch_Occurred)
  BY <1>1, <1>2 DEF Buffer, Hearing
<1>6. heard' = [heard EXCEPT ![s] = Append(heard[s], x)]
  BY DEF Log_Message
<1>7. heard \in [Subject_Buffer_Range -> Seq(Hearing)]
  BY DEF LogInv, LogType
<1> HIDE DEF d, x
<1>8. Append(heard[s], x) \in Seq(Hearing)
  BY <1>5, <1>7, AppendProperties
<1> QED BY <1>1, <1>2, <1>3, <1>4, <1>5, <1>6, <1>7, <1>8

\* The lines after a message was printed, and what the scripts make of them.
LEMMA MessageTold ==
  ASSUME LogInv, NEW b, NEW ch, Read(b, ch), NEW s \in Subject_Buffer_Range, b[s].Cache # Null,
         Log_Message(b, s)
  PROVE  /\ out' \in Seq(Line) /\ out' # <<>> /\ out'[Len(out')].subject = s
         /\ \A t \in Subject_Buffer_Range : Told(t, out', buffer'[t], heard'[t])
<1>1. /\ b[s].Cache \in Fragment /\ buffer'[s].Message_Incomplete = ~b[s].Cache.LF
      /\ \A t \in Subject_Buffer_Range \ {s} : buffer'[t] = b[t] /\ heard'[t] = heard[t]
  BY MessageLogged
<1>2. PICK x \in Hearing : /\ heard'[s] = Append(heard[s], x) /\ x.frag = b[s].Cache
                           /\ x.gap = (b[s].Overrun_Occurred \/ b[s].New_Epoch_Occurred)
  BY MessageLogged
<1>3. /\ out \in Seq(Line) /\ out # <<>> /\ heard[s] \in Seq(Hearing)
      /\ Told(s, out, buffer[s], heard[s])
  BY DEF LogInv, LogType
<1>4. /\ b[s] \in Buffer
      /\ \A t \in Subject_Buffer_Range : b[t].Message_Incomplete = buffer[t].Message_Incomplete
  BY DEF Read
<1>5. CASE Needs_Prefix(b, s)
  <2> DEFINE line == Add_Line_Prefix(b, s)
  <2>1. /\ line \in Line /\ line.subject = s /\ line.text = <<b[s].Cache>>
        /\ line.mark = ">" <=> ~x.gap /\ b[s].Message_Incomplete
    <3>1. /\ line \in Line /\ line.subject = s /\ line.text = <<b[s].Cache>>
          /\ line.mark = ">" <=> /\ ~(b[s].Overrun_Occurred \/ b[s].New_Epoch_Occurred)
                                 /\ b[s].Message_Incomplete
      BY <1>1, <1>4, PrefixLine
    <3> HIDE DEF line
    <3> QED BY <1>2, <3>1
  <2>2. out' = Append(out, line)
    BY <1>5 DEF Log_Message
  <2> HIDE DEF line
  <2>3. /\ out' \in Seq(Line) /\ Len(out') = Len(out) + 1 /\ Len(out) \in Nat
        /\ out'[Len(out) + 1] = line
    BY <1>3, <2>1, <2>2, AppendProperties, LenProperties
  <2>4. Told(s, out', buffer'[s], heard'[s])
    <3>1. line.mark = ">" <=> ~x.gap /\ buffer[s].Message_Incomplete
      BY <1>4, <2>1
    <3>2. buffer'[s].Message_Incomplete <=> ~b[s].Cache.LF
      BY <1>1
    <3> DEFINE f == b[s].Cache
               d == buffer'[s]
               h == heard[s]
    <3>3. Told(s, Append(out, line), d, Append(h, x))
      <4>1. /\ f \in Fragment /\ h \in Seq(Hearing) /\ x.frag = f /\ line.text = <<f>>
            /\ Told(s, out, buffer[s], h) /\ (d.Message_Incomplete <=> ~f.LF)
        BY <1>1, <1>2, <1>3, <2>1, <3>2
      <4> HIDE DEF f, d, h
      <4> QED BY <1>3, <2>1, <3>1, <4>1, ToldPrefix
    <3> QED BY <1>2, <2>2, <3>3
  <2>5. ASSUME NEW t \in Subject_Buffer_Range, t # s PROVE Told(t, out', buffer'[t], heard'[t])
    <3>1. Told(t, out, buffer[t], heard[t])
      BY DEF LogInv
    <3>2. buffer'[t].Message_Incomplete = buffer[t].Message_Incomplete /\ heard'[t] = heard[t]
      BY <1>1, <1>4, <2>5
    <3>3. Told(t, Append(out, line), buffer'[t], heard[t])
      BY <1>3, <2>1, <2>5, <3>1, <3>2, ToldOther
    <3> QED BY <2>2, <3>2, <3>3
  <2>6. out' # <<>> /\ out'[Len(out')].subject = s
    BY <2>1, <2>3, EmptySeq
  <2> QED BY <2>3, <2>4, <2>5, <2>6
<1>6. CASE ~Needs_Prefix(b, s)
  <2>1. /\ b[s].Message_Incomplete /\ Last_Subject = s /\ ~Is_Idle
        /\ ~b[s].Overrun_Occurred /\ ~b[s].New_Epoch_Occurred
    BY <1>6 DEF Needs_Prefix
  <2>2. buffer[s].Message_Incomplete /\ ~x.gap
    BY <1>2, <1>4, <2>1
  <2>3. out[Len(out)].subject = s
    <3>1. heard[s] # <<>>
      BY <1>3, <2>2 DEF Told
    <3> QED BY <2>1, <3>1 DEF LogInv, LastLine
  <2>4. out' = [out EXCEPT ![Len(out)].text = Append(@, b[s].Cache)]
    BY <1>6 DEF Log_Message
  <2>5. /\ out' \in Seq(Line) /\ Len(out') = Len(out)
        /\ \A k \in 1..(Len(out) - 1) : out'[k] = out[k]
        /\ out'[Len(out)].subject = out[Len(out)].subject /\ out'[Len(out)].mark = out[Len(out)].mark
        /\ out'[Len(out)].text = Append(out[Len(out)].text, b[s].Cache)
    BY <1>1, <1>3, <2>4, LongerLine
  <2>6. Told(s, out', buffer'[s], heard'[s])
    <3> DEFINE f == b[s].Cache
               d == buffer'[s]
               h == heard[s]
               longer == out'
    <3>1. /\ f \in Fragment /\ h \in Seq(Hearing) /\ x.frag = f
          /\ Told(s, out, buffer[s], h) /\ (d.Message_Incomplete <=> ~f.LF)
          /\ longer \in Seq(Line) /\ Len(longer) = Len(out)
          /\ \A k \in 1..(Len(out) - 1) : longer[k] = out[k]
          /\ longer[Len(out)].subject = out[Len(out)].subject
          /\ longer[Len(out)].mark = out[Len(out)].mark
          /\ longer[Len(out)].text = Append(out[Len(out)].text, f)
      BY <1>1, <1>2, <1>3, <2>5
    <3> HIDE DEF f, d, h, longer
    <3>2. Told(s, longer, d, Append(h, x))
      BY <1>3, <2>2, <2>3, <3>1, ToldMore
    <3> QED BY <1>2, <3>2 DEF d, h, longer
  <2>7. ASSUME NEW t \in Subject_Buffer_Range, t # s PROVE Told(t, out', buffer'[t], heard'[t])
    <3>1. Told(t, out, buffer[t], heard[t])
      BY DEF LogInv
    <3>2. buffer'[t].Message_Incomplete = buffer[t].Message_Incomplete /\ heard'[t] = heard[t]
      BY <1>1, <1>4, <2>7
    <3>3. Told(t, out', buffer'[t], heard[t])
      BY <1>1, <1>3, <2>3, <2>5, <2>7, <3>1, <3>2, ToldOtherMore
    <3> QED BY <3>2, <3>3
  <2>8. out' # <<>> /\ out'[Len(out')].subject = s
    BY <1>3, <2>3, <2>5, EmptySeq
  <2> QED BY <2>5, <2>6, <2>7, <2>8
<1> QED BY <1>5, <1>6

\* A message is printed.
LEMMA LogPrint ==
  ASSUME LogInv, NEW b, NEW ch, Read(b, ch), NEW s \in Subject_Buffer_Range, b[s].Cache # Null,
         Log_Message(b, s), channel' = ch, writes' = writes, Schedule_Start' = Schedule_Start
  PROVE  LogInv'
<1>1. /\ b[s].Cache \in Fragment
      /\ buffer' \in [Subject_Buffer_Range -> Buffer]
      /\ heard' \in [Subject_Buffer_Range -> Seq(Hearing)]
      /\ \A t \in Subject_Buffer_Range \ {s} : buffer'[t] = b[t] /\ heard'[t] = heard[t]
      /\ buffer'[s].Cache = Null /\ buffer'[s].Epoch = b[s].Epoch /\ buffer'[s].RC = b[s].RC
  BY MessageLogged
<1>2. PICK x \in Hearing : /\ heard'[s] = Append(heard[s], x) /\ x.frag = b[s].Cache
                           /\ x.gap = (b[s].Overrun_Occurred \/ b[s].New_Epoch_Occurred)
  BY MessageLogged
<1>3. /\ out' \in Seq(Line) /\ out' # <<>> /\ out'[Len(out')].subject = s
      /\ \A t \in Subject_Buffer_Range : Told(t, out', buffer'[t], heard'[t])
  BY MessageTold
<1>4. Last_Subject' = s /\ Is_Idle' = FALSE
  BY DEF Log_Message
<1>5. /\ ch \in [Subject_Buffer_Range -> Channel] /\ heard \in [Subject_Buffer_Range -> Seq(Hearing)]
      /\ b \in [Subject_Buffer_Range -> Buffer] /\ writes \in Nat
      /\ Schedule_Start \in [Subject_Buffer_Range -> Nat]
  BY DEF Read, LogInv, LogType
<1>6. LogType' /\ LastLine'
  BY <1>1, <1>3, <1>4, <1>5 DEF LogType, LastLine
<1>7. ASSUME NEW t \in Subject_Buffer_Range
      PROVE  /\ Kept(buffer'[t], ch[t], heard'[t], writes)
             /\ Held(buffer'[t], ch[t]) \subseteq Held(buffer[t], channel[t])
  <2>1. Kept(b[t], ch[t], heard[t], writes) /\ Held(b[t], ch[t]) \subseteq Held(buffer[t], channel[t])
    BY DEF Read
  <2>2. CASE t # s
    BY <1>1, <2>1, <2>2
  <2>3. CASE t = s
    <3> DEFINE d == buffer'[s]
    <3>1. d \in Buffer /\ d.Cache = Null /\ d.Epoch = b[s].Epoch /\ d.RC = b[s].RC
      BY <1>1
    <3>2. b[s] \in Buffer /\ ch[s] \in Channel /\ heard[s] \in Seq(Hearing)
      BY <1>5
    <3>3. Kept(b[s], ch[s], heard[s], writes)
      BY <2>1, <2>3
    <3> HIDE DEF d
    <3>4. Kept(d, ch[s], Append(heard[s], x), writes) /\ Held(d, ch[s]) \subseteq Held(b[s], ch[s])
      BY <1>2, <1>5, <3>1, <3>2, <3>3, KeptPrint
    <3>5. Kept(d, ch[s], heard'[s], writes) /\ Held(d, ch[s]) \subseteq Held(buffer[s], channel[s])
      BY <1>2, <2>1, <2>3, <3>4
    <3> QED BY <2>3, <3>5 DEF d
  <2> QED BY <2>2, <2>3
<1>8. Stamped'
  BY <1>7, HeldLess DEF LogInv
<1> QED BY <1>3, <1>6, <1>7, <1>8 DEF LogInv

\* No message is printed.
LEMMA LogQuiet ==
  ASSUME LogInv, NEW b, NEW ch, Read(b, ch), buffer' = b, channel' = ch, writes' = writes,
         Schedule_Start' = Schedule_Start,
         UNCHANGED <<Last_Subject, heard>>, UNCHANGED <<out, Is_Idle>> \/ Idle_Mark
  PROVE  LogInv'
<1>1. /\ b \in [Subject_Buffer_Range -> Buffer] /\ ch \in [Subject_Buffer_Range -> Channel]
      /\ \A s \in Subject_Buffer_Range :
           /\ Kept(b[s], ch[s], heard[s], writes)
           /\ b[s].Message_Incomplete = buffer[s].Message_Incomplete
           /\ Held(b[s], ch[s]) \subseteq Held(buffer[s], channel[s])
  BY DEF Read
<1>2. /\ out \in Seq(Line) /\ out # <<>> /\ LogType /\ LastLine /\ Stamped
      /\ \A s \in Subject_Buffer_Range : Told(s, out, buffer[s], heard[s])
  BY DEF LogInv, LogType
<1>3. Stamped'
  BY <1>1, <1>2, HeldLess
<1>4. /\ out' \in Seq(Line) /\ out' # <<>> /\ Is_Idle' \in BOOLEAN
      /\ LastLine'
      /\ \A s \in Subject_Buffer_Range : Told(s, out', b[s], heard[s])
  <2>1. CASE UNCHANGED <<out, Is_Idle>>
    <3>1. \A s \in Subject_Buffer_Range : Told(s, out, b[s], heard[s])
      BY <1>1, <1>2 DEF Told
    <3> QED BY <1>2, <2>1, <3>1 DEF LogType, LastLine
  <2>2. CASE Idle_Mark
    <3> DEFINE line == Idle_Entry
    <3>1. line \in Line /\ line.subject = 0
      BY DEF Idle_Entry, Line, Text
    <3>2. out' = Append(out, line) /\ Is_Idle' = TRUE
      BY <2>2 DEF Idle_Mark
    <3> HIDE DEF line
    <3>3. Append(out, line) \in Seq(Line) /\ Append(out, line) # <<>>
      BY <1>2, <3>1, AppendProperties, LenProperties
    <3>4. ASSUME NEW s \in Subject_Buffer_Range PROVE Told(s, out', b[s], heard[s])
      <4>1. line.subject # s
        BY <3>1 DEF Subject_Buffer_Range
      <4> QED BY <1>1, <1>2, <3>1, <3>2, <4>1, ToldOther
    <3> QED BY <3>2, <3>3, <3>4 DEF LastLine
  <2> QED BY <2>1, <2>2
<1>5. LogType'
  BY <1>1, <1>2, <1>4 DEF LogType
<1> QED BY <1>1, <1>3, <1>4, <1>5 DEF LogInv

\* The subject with the oldest message has one, and no other has an older one: of the
\* smallest stamps it is the one with the smallest number.
LEMMA OldestFound ==
  ASSUME NEW b \in [Subject_Buffer_Range -> Buffer],
         \E s \in Subject_Buffer_Range : Is_Message_Present(b[s])
  PROVE  LET s == Find_Oldest_Message(b)
         IN  /\ s \in Subject_Buffer_Range /\ b[s].Cache # Null
             /\ \A t \in Subject_Buffer_Range : b[t].Cache # Null => Before(b[s].Cache, s, b[t].Cache, t)
<1> DEFINE P == {t \in Subject_Buffer_Range : Is_Message_Present(b[t])}
           S == {b[t].Cache.time : t \in P}
<1>1. \A t \in P : b[t].Cache.time \in Nat /\ t \in Nat
  <2> SUFFICES ASSUME NEW t \in P PROVE b[t].Cache.time \in Nat /\ t \in Nat
    OBVIOUS
  <2>1. b[t].Cache \in Fragment
    BY DEF Is_Message_Present, Buffer
  <2> QED BY <2>1 DEF Fragment, Subject_Buffer_Range
<1>2. S \in SUBSET Nat /\ S # {}
  BY <1>1
<1> HIDE DEF S
<1>3. PICK m \in S : \A n \in S : m <= n
  BY <1>2, Smallest
<1> DEFINE Q == {t \in P : b[t].Cache.time = m}
<1>4. Q \in SUBSET Nat /\ Q # {}
  BY <1>1, <1>3 DEF S
<1>5. PICK s \in Q : \A t \in Q : s <= t
  <2> HIDE DEF Q
  <2> QED BY <1>4, Smallest
<1> DEFINE Oldest(u) == \A t \in Subject_Buffer_Range : Is_Message_Present(b[t]) => Before(b[u].Cache, u, b[t].Cache, t)
           o == CHOOSE u \in P : Oldest(u)
<1>6. s \in P /\ Oldest(s)
  <2> SUFFICES ASSUME NEW t \in P PROVE Before(b[s].Cache, s, b[t].Cache, t)
    BY <1>5
  <2>1. m <= b[t].Cache.time /\ m \in Nat /\ b[t].Cache.time \in Nat /\ b[s].Cache.time = m
    BY <1>1, <1>2, <1>3, <1>5 DEF S
  <2>2. b[t].Cache.time = m => s <= t
    BY <1>5
  <2> HIDE DEF P, Q
  <2> QED BY <2>1, <2>2 DEF Before
<1>7. o \in P /\ Oldest(o)
  <2> HIDE DEF Oldest, P
  <2> QED BY <1>6
<1>8. Find_Oldest_Message(b) = o
  BY DEF Find_Oldest_Message
<1> HIDE DEF o
<1> QED BY <1>7, <1>8 DEF Is_Message_Present

\* The steps of the debug server keep the invariant.
LEMMA RunKeeps ==
  ASSUME LogInv, Run_Buffers
  PROVE  LogInv'
<1>1. PICK R \in SUBSET {s \in Subject_Buffer_Range : channel[s].Epoch # Null_Epoch
                           /\ buffer[s].Enabled /\ ~Is_Message_Present(buffer[s])} :
        /\ Run(R)
        /\ channel' = [s \in Subject_Buffer_Range |->
             IF s \in R THEN [Epoch |-> channel[s].Epoch + 1, data |-> <<>>] ELSE channel[s]]
  BY DEF Run_Buffers
<1>2. writes' = writes /\ Schedule_Start' = Schedule_Start
  BY DEF Run_Buffers, inputs
<1> DEFINE b == Update_Message_Buffers(R)
           ch == [s \in Subject_Buffer_Range |->
                    IF s \in R THEN [Epoch |-> channel[s].Epoch + 1, data |-> <<>>] ELSE channel[s]]
<1>3. R \in SUBSET {s \in Subject_Buffer_Range : ~Is_Message_Present(buffer[s])}
  BY <1>1
<1>4. Read(b, ch)
  BY <1>3, ReadChannels
<1>5. channel' = ch
  BY <1>1
<1>6. \/ (\E s \in Subject_Buffer_Range : Is_Message_Present(b[s])) /\ Log_Message(b, Find_Oldest_Message(b))
      \/ Idle_Mark /\ buffer' = b /\ UNCHANGED <<Last_Subject, heard>>
      \/ buffer' = b /\ UNCHANGED <<Last_Subject, heard, out, Is_Idle>>
  BY <1>1 DEF Run
<1> HIDE DEF b, ch
<1>7. CASE (\E s \in Subject_Buffer_Range : Is_Message_Present(b[s])) /\ Log_Message(b, Find_Oldest_Message(b))
  <2> DEFINE s == Find_Oldest_Message(b)
  <2>1. s \in Subject_Buffer_Range /\ b[s].Cache # Null
    BY <1>4, <1>7, OldestFound DEF Read
  <2>2. Log_Message(b, s)
    BY <1>7
  <2> HIDE DEF s
  <2> QED BY <1>2, <1>4, <1>5, <2>1, <2>2, LogPrint
<1>8. CASE /\ buffer' = b /\ UNCHANGED <<Last_Subject, heard>>
           /\ UNCHANGED <<out, Is_Idle>> \/ Idle_Mark
  BY <1>2, <1>4, <1>5, <1>8, LogQuiet
<1> QED BY <1>6, <1>7, <1>8

-----------------------------------------------------------------------------
(* The subjects and the console *)

\* What was written stays in order when another subject writes.
LEMMA KeptLater ==
  ASSUME NEW b \in Buffer, NEW c \in Channel, NEW h \in Seq(Hearing), writes \in Nat,
         Kept(b, c, h, writes)
  PROVE  Kept(b, c, h, writes + 1)
<1>1. Written(c, writes + 1)
  <2>1. Written(c, writes)
    BY DEF Kept
  <2>2. ASSUME NEW k \in 1..Len(c.data) PROVE c.data[k].seq < writes + 1 /\ c.data[k].epoch = c.Epoch
    <3>1. c.data[k].seq \in Nat
      BY HeldTypes
    <3>2. c.data[k].seq < writes /\ c.data[k].epoch = c.Epoch
      BY <2>1 DEF Written
    <3> QED BY <3>1, <3>2
  <2> QED BY <2>1, <2>2 DEF Written
<1>2. Cursor(b, c, writes + 1)
  BY HeldTypes DEF Kept, Cursor
<1>3. ASSUME NEW i \in 1..Len(Lines(h)) PROVE Whole(Lines(h)[i], c, writes + 1)
  <2> DEFINE line == Lines(h)[i]
  <2>1. line \in Text /\ Whole(line, c, writes)
    BY ElementOfSeq DEF Kept
  <2> HIDE DEF line
  <2>2. \A j \in 1..Len(line) : line[j] \in Fragment
    BY <2>1, ElementOfSeq DEF Text
  <2>3. ASSUME NEW j \in 1..Len(line) PROVE line[j].epoch <= c.Epoch /\ line[j].seq < writes + 1
    BY <2>1, <2>2 DEF Whole, Fragment
  <2>4. Whole(line, c, writes + 1)
    BY <2>1, <2>3 DEF Whole
  <2> QED BY <2>4 DEF line
<1>4. ASSUME h # <<>> PROVE Following(b, c, h[Len(h)].frag, writes + 1)
  <2> DEFINE f == h[Len(h)].frag
  <2>1. Following(b, c, f, writes) /\ f \in Fragment
    <3>1. h[Len(h)] \in Hearing
      BY <1>4, EmptySeq, ElementOfSeq
    <3> QED BY <1>4, <3>1 DEF Kept, Hearing
  <2> HIDE DEF f
  <2>2. Following(b, c, f, writes + 1)
    BY <2>1 DEF Following, Fragment
  <2> QED BY <2>2 DEF f
<1> QED BY <1>1, <1>2, <1>3, <1>4 DEF Kept

\* A subject starts or is reset.
LEMMA StartKeeps ==
  ASSUME LogInv, NEW s \in Subject_Buffer_Range, Start(s)
  PROVE  LogInv'
<1> DEFINE d == [Epoch |-> channel[s].Epoch + 1, data |-> <<>>]
<1>1. /\ buffer[s] \in Buffer /\ channel[s] \in Channel /\ heard[s] \in Seq(Hearing)
      /\ writes \in Nat /\ Kept(buffer[s], channel[s], heard[s], writes)
      /\ channel \in [Subject_Buffer_Range -> Channel]
  BY DEF LogInv, LogType
<1>2. /\ d \in Channel /\ Kept(buffer[s], d, heard[s], writes)
      /\ Held(buffer[s], d) \subseteq Held(buffer[s], channel[s])
  BY <1>1, KeptStart
<1>3. channel' = [channel EXCEPT ![s] = d]
  BY DEF Start
<1> HIDE DEF d
<1>4. /\ channel' \in [Subject_Buffer_Range -> Channel] /\ channel'[s] = d
      /\ \A t \in Subject_Buffer_Range \ {s} : channel'[t] = channel[t]
  BY <1>1, <1>2, <1>3
<1>5. UNCHANGED <<buffer, Is_Idle, Last_Subject, out, writes, heard, Schedule_Start>>
  BY DEF Start, server, inputs
<1>6. LogType' /\ LastLine'
  BY <1>4, <1>5 DEF LogInv, LogType, LastLine
<1>7. \A t \in Subject_Buffer_Range :
        /\ Kept(buffer'[t], channel'[t], heard'[t], writes') /\ Told(t, out', buffer'[t], heard'[t])
        /\ Held(buffer'[t], channel'[t]) \subseteq Held(buffer[t], channel[t])
  BY <1>2, <1>4, <1>5 DEF LogInv
<1>8. Stamped'
  BY <1>5, <1>7, HeldLess DEF LogInv
<1> QED BY <1>6, <1>7, <1>8 DEF LogInv

\* A subject writes a fragment.
LEMMA FragmentWritten ==
  ASSUME LogInv, NEW s \in Subject_Buffer_Range, NEW x \in Fragment, x.seq = writes,
         x.epoch = channel[s].Epoch, Schedule_Start[s] <= x.time,
         channel' = [channel EXCEPT ![s].data = Append(@, x)],
         Schedule_Start' = [Schedule_Start EXCEPT ![s] = x.time],
         writes' = writes + 1, UNCHANGED <<buffer, Is_Idle, Last_Subject, out, heard>>
  PROVE  LogInv'
<1> DEFINE d == [channel[s] EXCEPT !.data = Append(@, x)]
<1>1. \A t \in Subject_Buffer_Range :
        /\ buffer[t] \in Buffer /\ channel[t] \in Channel /\ heard[t] \in Seq(Hearing)
        /\ Kept(buffer[t], channel[t], heard[t], writes)
  BY DEF LogInv, LogType
<1>2. /\ writes \in Nat /\ channel \in [Subject_Buffer_Range -> Channel]
      /\ Schedule_Start \in [Subject_Buffer_Range -> Nat]
  BY DEF LogInv, LogType
<1>3. x.time \in Nat
  BY DEF Fragment
<1>4. channel' = [channel EXCEPT ![s] = d]
  BY <1>2
<1>5. /\ d \in Channel /\ Kept(buffer[s], d, heard[s], writes + 1)
      /\ Held(buffer[s], d) = Held(buffer[s], channel[s]) \cup {x}
  BY <1>1, <1>2, <1>3, KeptWrite
<1> HIDE DEF d
<1>6. /\ channel' \in [Subject_Buffer_Range -> Channel] /\ channel'[s] = d
      /\ \A t \in Subject_Buffer_Range \ {s} : channel'[t] = channel[t]
  BY <1>2, <1>4, <1>5
<1>7. writes' = writes + 1 /\ UNCHANGED <<buffer, Is_Idle, Last_Subject, out, heard>>
  OBVIOUS
<1>8. LogType' /\ LastLine'
  <2>1. writes' \in Nat /\ Schedule_Start' \in [Subject_Buffer_Range -> Nat]
    BY <1>2, <1>3, <1>7
  <2> QED BY <1>6, <1>7, <2>1 DEF LogInv, LogType, LastLine
<1>9. ASSUME NEW t \in Subject_Buffer_Range
      PROVE  Kept(buffer'[t], channel'[t], heard'[t], writes') /\ Told(t, out', buffer'[t], heard'[t])
  <2>1. Told(t, out', buffer'[t], heard'[t])
    BY <1>7 DEF LogInv
  <2>2. Kept(buffer[t], channel[t], heard[t], writes + 1)
    BY <1>1, <1>2, KeptLater
  <2>3. Kept(buffer[t], channel'[t], heard[t], writes + 1)
    BY <1>5, <1>6, <2>2
  <2> QED BY <1>7, <2>1, <2>3
<1>10. Stamped'
  <2>1. /\ x.time \in Nat /\ Schedule_Start[s] \in Nat /\ Schedule_Start[s] <= x.time
        /\ \A y \in Held(buffer[s], channel[s]) : y.seq \in Nat /\ y.seq < writes /\ y.time \in Nat
    <3>1. ASSUME NEW y \in Held(buffer[s], channel[s]) PROVE y.seq \in Nat /\ y.seq < writes /\ y.time \in Nat
      BY <1>1, HeldTypes DEF Held, Kept, Written, Cursor
    <3> QED BY <1>2, <1>3, <3>1
  <2>2. /\ \A t \in Subject_Buffer_Range \ {s} :
             Held(buffer'[t], channel'[t]) = Held(buffer[t], channel[t]) /\ Schedule_Start'[t] = Schedule_Start[t]
        /\ Held(buffer'[s], channel'[s]) = Held(buffer[s], channel[s]) \cup {x} /\ Schedule_Start'[s] = x.time
    BY <1>2, <1>5, <1>6, <1>7
  <2>3. ASSUME NEW f \in Held(buffer'[s], channel'[s])
        PROVE  /\ f.time <= x.time
               /\ \A g \in Held(buffer'[s], channel'[s]) : f.seq < g.seq => f.time <= g.time
    <3>1. \A y \in Held(buffer[s], channel[s]) :
            /\ y.time <= Schedule_Start[s]
            /\ \A z \in Held(buffer[s], channel[s]) : y.seq < z.seq => y.time <= z.time
      BY DEF LogInv, Stamped
    <3>2. \A y \in Held(buffer[s], channel[s]) : y.time <= x.time
      BY <2>1, <3>1
    <3>3. f \in Held(buffer[s], channel[s]) \/ f = x
      BY <2>2
    <3>4. f.time <= x.time
      BY <2>1, <3>2, <3>3
    <3>5. ASSUME NEW g \in Held(buffer'[s], channel'[s]), f.seq < g.seq PROVE f.time <= g.time
      <4>1. g \in Held(buffer[s], channel[s]) \/ g = x
        BY <2>2
      <4>2. CASE g = x
        BY <3>4, <4>2
      <4>3. CASE g \in Held(buffer[s], channel[s])
        <5>1. f # x
          BY <1>2, <1>3, <2>1, <3>5, <4>3
        <5> QED BY <3>1, <3>3, <3>5, <4>3, <5>1
      <4> QED BY <4>1, <4>2, <4>3
    <3> QED BY <3>4, <3>5
  <2> QED BY <2>2, <2>3 DEF LogInv, Stamped
<1> QED BY <1>8, <1>9, <1>10 DEF LogInv

LEMMA FlushKeeps ==
  ASSUME LogInv, NEW s \in Subject_Buffer_Range, NEW lf \in BOOLEAN, Flush(s, lf)
  PROVE  LogInv'
<1>1. PICK t \in Schedule_Start[s]..MaxInputs :
        /\ Schedule_Start' = [Schedule_Start EXCEPT ![s] = t]
        /\ channel' = [channel EXCEPT ![s].data =
             Append(@, [subject |-> s, epoch |-> channel[s].Epoch, seq |-> writes, time |-> t, LF |-> lf])]
  BY DEF Flush
<1> DEFINE x == [subject |-> s, epoch |-> channel[s].Epoch, seq |-> writes, time |-> t, LF |-> lf]
<1>2. writes' = writes + 1 /\ UNCHANGED <<buffer, Is_Idle, Last_Subject, out, heard>>
  BY DEF Flush, server
<1>3. Schedule_Start[s] \in Nat /\ writes \in Nat /\ channel[s].Epoch \in Nat
  BY DEF LogInv, LogType, Channel
<1>4. t \in Nat /\ Schedule_Start[s] <= t
  BY <1>1, <1>3, SizesAssumption
<1>5. /\ x \in Fragment /\ x.seq = writes /\ x.epoch = channel[s].Epoch /\ x.time = t
      /\ channel' = [channel EXCEPT ![s].data = Append(@, x)]
  BY <1>1, <1>3, <1>4 DEF Fragment
<1> HIDE DEF x
<1> QED BY <1>1, <1>2, <1>4, <1>5, FragmentWritten

\* A console command.
LEMMA CommandKeeps ==
  ASSUME LogInv, Command, buffer' \in [Subject_Buffer_Range -> Buffer],
         \A t \in Subject_Buffer_Range :
           /\ buffer'[t].Cache = buffer[t].Cache /\ buffer'[t].Epoch = buffer[t].Epoch
           /\ buffer'[t].RC = buffer[t].RC \/ buffer'[t].RC = 0
           /\ buffer'[t].Overrun_Occurred = buffer[t].Overrun_Occurred
           /\ buffer'[t].New_Epoch_Occurred = buffer[t].New_Epoch_Occurred
           /\ buffer'[t].Message_Incomplete = buffer[t].Message_Incomplete
  PROVE  LogInv'
<1>1. UNCHANGED <<channel, Is_Idle, Last_Subject, out, writes, heard, Schedule_Start>>
  BY DEF Command
<1>2. LogType' /\ LastLine'
  BY <1>1 DEF LogInv, LogType, LastLine
<1>3. ASSUME NEW t \in Subject_Buffer_Range
      PROVE  /\ Kept(buffer'[t], channel[t], heard[t], writes)
             /\ Held(buffer'[t], channel[t]) = Held(buffer[t], channel[t])
             /\ Told(t, out, buffer'[t], heard[t])
  <2>1. /\ buffer[t] \in Buffer /\ channel[t] \in Channel /\ heard[t] \in Seq(Hearing)
        /\ writes \in Nat /\ Kept(buffer[t], channel[t], heard[t], writes)
        /\ Told(t, out, buffer[t], heard[t])
    BY DEF LogInv, LogType
  <2>2. Told(t, out, buffer'[t], heard[t])
    BY <2>1 DEF Told
  <2> DEFINE d == buffer'[t]
  <2>3. /\ d \in Buffer /\ d.Cache = buffer[t].Cache /\ d.Epoch = buffer[t].Epoch
        /\ d.RC = buffer[t].RC \/ d.RC = 0
        /\ d.Overrun_Occurred = buffer[t].Overrun_Occurred
        /\ d.New_Epoch_Occurred = buffer[t].New_Epoch_Occurred
    OBVIOUS
  <2> HIDE DEF d
  <2>4. Kept(d, channel[t], heard[t], writes) /\ Held(d, channel[t]) = Held(buffer[t], channel[t])
    BY <2>1, <2>3, KeptCommand
  <2> QED BY <2>2, <2>4 DEF d
<1>4. Stamped'
  BY <1>1, <1>3, HeldLess DEF LogInv
<1> QED BY <1>1, <1>2, <1>3, <1>4 DEF LogInv

\* The invariant holds at the start: only the banner is printed, which is nobody's.
LEMMA LogStart ==
  ASSUME Init
  PROVE  LogInv
<1> DEFINE line == Banner
<1>1. line \in Line /\ line.subject = 0
  BY DEF Banner, Line, Text
<1>2. out = <<line>> /\ writes = 0 /\ Is_Idle = FALSE /\ Last_Subject = 1
  BY DEF Init
<1> HIDE DEF line
<1>3. /\ Initialize_Subject \in Buffer /\ Initialize_Subject.Cache = Null
      /\ Initialize_Subject.Epoch = 0 /\ Initialize_Subject.RC = 0
      /\ Initialize_Subject.Message_Incomplete = FALSE
  BY DEF Initialize_Subject, Buffer, Null_Epoch
<1>4. ASSUME NEW s \in Subject_Buffer_Range
      PROVE  /\ buffer[s] = Initialize_Subject /\ heard[s] = <<>>
             /\ channel[s] \in Channel /\ channel[s].Epoch = 0 /\ channel[s].data = <<>>
  BY DEF Init, Null_Epoch, Channel, Text
<1>5. out \in Seq(Line) /\ out # <<>> /\ Len(out) = 1 /\ out[1] = line
  BY <1>1, <1>2
<1>6. LogType
  <2>1. Last_Subject \in Subject_Buffer_Range
    BY <1>2, SizesAssumption DEF Subject_Buffer_Range
  <2>2. /\ channel \in [Subject_Buffer_Range -> Channel]
        /\ buffer \in [Subject_Buffer_Range -> Buffer]
        /\ heard \in [Subject_Buffer_Range -> Seq(Hearing)]
        /\ Schedule_Start \in [Subject_Buffer_Range -> Nat]
    BY <1>3, <1>4 DEF Init
  <2> QED BY <1>2, <1>5, <2>1, <2>2 DEF LogType
<1>7. LastLine
  BY <1>4, <1>6 DEF LastLine, LogType
<1>8. ASSUME NEW s \in Subject_Buffer_Range PROVE Held(buffer[s], channel[s]) = {}
  BY <1>3, <1>4 DEF Held
<1>9. Stamped
  BY <1>8 DEF Stamped
<1>10. ASSUME NEW s \in Subject_Buffer_Range PROVE Kept(buffer[s], channel[s], heard[s], writes)
  <2>1. /\ Lines(heard[s]) = <<<<>>>> /\ Lines(heard[s]) \in Seq(Text) /\ Lines(heard[s]) # <<>>
        /\ Len(Lines(heard[s])) = 1 /\ Lines(heard[s])[1] = <<>>
    <3>1. Lines(heard[s]) = <<<<>>>>
      BY <1>4, LinesEmpty
    <3>2. <<<<>>>> \in Seq(Text) /\ <<<<>>>> # <<>> /\ Len(<<<<>>>>) = 1 /\ <<<<>>>>[1] = <<>>
      BY DEF Text
    <3> QED BY <3>1, <3>2
  <2>2. Whole(<<>>, channel[s], writes)
    BY DEF Whole
  <2>3. Written(channel[s], writes) /\ Cursor(buffer[s], channel[s], writes)
    BY <1>3, <1>4 DEF Written, Cursor
  <2> QED BY <1>4, <2>1, <2>2, <2>3 DEF Kept
<1>11. ASSUME NEW s \in Subject_Buffer_Range PROVE Told(s, out, buffer[s], heard[s])
  <2>1. s # 0
    BY DEF Subject_Buffer_Range
  <2>2. ~Seen(s, out)
    BY <1>1, <1>5, <2>1 DEF Seen
  <2>3. Script(s, out) = <<<<>>>>
    <3>1. PartsOf(s, out)[1].kind = "skip" /\ Len(PartsOf(s, out)) = 1
      <4>1. /\ Len(PartsOf(s, out)) = 1
            /\ PartsOf(s, out)[1] = [kind |-> KindOf(s, out, 1), text |-> out[1].text]
        BY <1>5, PartsShape
      <4>2. KindOf(s, out, 1) = "skip"
        BY <1>1, <1>5, <2>1 DEF KindOf
      <4> QED BY <4>1, <4>2
    <3>2. /\ Printed(PartsOf(s, out))[0] = <<<<>>>>
          /\ Printed(PartsOf(s, out))[1] = Added(Printed(PartsOf(s, out))[0], PartsOf(s, out)[1])
      BY <3>1, PrintedUnfolds
    <3> QED BY <3>1, <3>2 DEF Script, Assemble, Added
  <2> QED BY <1>3, <1>4, <2>2, <2>3, LinesEmpty DEF Told
<1> QED BY <1>6, <1>7, <1>9, <1>10, <1>11 DEF LogInv

\* Every step keeps it.
LEMMA LogStep ==
  ASSUME LogInv, [Next]_vars
  PROVE  LogInv'
<1>0. buffer \in [Subject_Buffer_Range -> Buffer]
  BY DEF LogInv, LogType
<1>1. CASE Run_Buffers
  BY <1>1, RunKeeps
<1>2. CASE Run_Sink
  BY <1>2 DEF Run_Sink, inputs, LogInv, LogType, LastLine, Stamped
<1>3. ASSUME NEW s \in Subject_Buffer_Range, Start(s) PROVE LogInv'
  BY <1>3, StartKeeps
<1>4. ASSUME NEW s \in Subject_Buffer_Range, NEW lf \in BOOLEAN, Flush(s, lf) PROVE LogInv'
  BY <1>4, FlushKeeps
<1>5. ASSUME NEW s \in Subject_Buffer_Range, Log_Toggle(s) PROVE LogInv'
  <2>1. Command /\ buffer' = [buffer EXCEPT ![s].Enabled = ~@]
    BY <1>5 DEF Log_Toggle
  <2>2. buffer' \in [Subject_Buffer_Range -> Buffer]
    BY <1>0, <2>1 DEF Buffer
  <2> QED BY <1>0, <2>1, <2>2, CommandKeeps DEF Buffer
<1>6. ASSUME NEW e \in BOOLEAN, Set_All_Log_Buffer_State(e) PROVE LogInv'
  <2>1. Command /\ buffer' = [s \in Subject_Buffer_Range |-> [buffer[s] EXCEPT !.Enabled = e]]
    BY <1>6 DEF Set_All_Log_Buffer_State
  <2>2. buffer' \in [Subject_Buffer_Range -> Buffer]
    BY <1>0, <1>6, <2>1 DEF Buffer
  <2> QED BY <1>0, <2>1, <2>2, CommandKeeps DEF Buffer
<1>7. CASE Stream_Reset
  <2>1. Command /\ buffer' = [s \in Subject_Buffer_Range |-> [buffer[s] EXCEPT !.RC = 0]]
    BY <1>7 DEF Stream_Reset
  <2>2. buffer' \in [Subject_Buffer_Range -> Buffer]
    BY <1>0, <2>1 DEF Buffer
  <2> QED BY <1>0, <2>1, <2>2, CommandKeeps DEF Buffer
<1>8. CASE UNCHANGED vars
  BY <1>8 DEF vars, server, inputs, LogInv, LogType, LastLine, Stamped
<1>9. CASE Handle_Normal_Input
  BY <1>9 DEF Handle_Normal_Input, server, LogInv, LogType, LastLine, Stamped
<1> QED BY <1>1, <1>2, <1>3, <1>4, <1>5, <1>6, <1>7, <1>8, <1>9 DEF Next

-----------------------------------------------------------------------------
(* The device *)

Entry == [mark : {"DBG-LOG>", "---", "%", "#", ">", "|", "none", "prompt"}, subject : Nat, text : Text]

\* Every fragment without a prefix goes on with what stands before it.
Continued(w) ==
  \A k \in 1..Len(w) : w[k].mark = "none" /\ w[k].subject # 0 => Unfinished(w, k - 1, w[k].subject)

\* What was sent and what waits in the output queue.  When the server takes a message for
\* unfinished, its last fragment is the last one there.
Wire == device \o queue

WireInv ==
  /\ device \in Seq(Entry) /\ queue \in Seq(Entry) /\ console \in Seq({Echo, Prompt})
  /\ Continued(Wire)
  /\ buffer[Last_Subject].Message_Incomplete /\ ~Is_Idle => Unfinished(Wire, Len(Wire), Last_Subject)

\* v has m entries of the console after the first l entries of w.
Inserted(w, v, l, m, n) ==
  /\ l <= n /\ Len(w) = n /\ Len(v) = n + m
  /\ \A k \in 1..l : v[k] = w[k]
  /\ \A k \in (l + 1)..(l + m) : Of_Console(v[k])
  /\ \A k \in (l + 1)..n : v[k + m] = w[k]

\* What is unfinished stays so when the console's entries come after it.
LEMMA UnfinishedInserted ==
  ASSUME NEW w, NEW v, NEW l \in Nat, NEW m \in Nat, NEW n \in Nat, Inserted(w, v, l, m, n),
         NEW s, NEW p \in 0..n, Unfinished(w, p, s)
  PROVE  /\ p <= l => Unfinished(v, p, s)
         /\ p >= l => Unfinished(v, p + m, s)
<1>1. PICK j \in 1..p : /\ w[j].subject = s /\ ~w[j].text[1].LF
                        /\ \A i \in (j + 1)..p : Of_Console(w[i])
  BY DEF Unfinished
<1>0. /\ l <= n /\ \A k \in 1..l : v[k] = w[k]
      /\ \A k \in (l + 1)..(l + m) : Of_Console(v[k])
      /\ \A k \in (l + 1)..n : v[k + m] = w[k]
  BY DEF Inserted
<1>2. ASSUME p <= l PROVE Unfinished(v, p, s)
  <2>1. j \in 1..l /\ \A i \in (j + 1)..p : i \in 1..l
    BY <1>2
  <2>2. v[j] = w[j] /\ \A i \in (j + 1)..p : v[i] = w[i]
    BY <1>0, <2>1
  <2> QED BY <1>1, <2>2 DEF Unfinished
<1>3. ASSUME p >= l PROVE Unfinished(v, p + m, s)
  <2> DEFINE h == IF j <= l THEN j ELSE j + m
  <2>1. h \in 1..(p + m) /\ v[h] = w[j]
    <3>1. CASE j <= l
      BY <1>0, <1>3, <3>1
    <3>2. CASE j > l
      <4>1. j \in (l + 1)..n
        BY <3>2
      <4> QED BY <1>0, <3>2, <4>1
    <3> QED BY <3>1, <3>2
  <2>2. ASSUME NEW i \in (h + 1)..(p + m) PROVE Of_Console(v[i])
    <3>0. i \in Nat /\ h \in Nat /\ j <= h
      BY <2>1
    <3>1. CASE i <= l
      <4>1. i \in 1..l /\ i \in (j + 1)..p
        BY <1>3, <2>2, <3>0, <3>1
      <4> QED BY <1>0, <1>1, <4>1
    <3>2. CASE l < i /\ i <= l + m
      BY <1>0, <3>0, <3>2
    <3>3. CASE l + m < i
      <4>1. i - m \in (l + 1)..n /\ i - m \in (j + 1)..p /\ (i - m) + m = i
        BY <1>3, <2>2, <3>0, <3>3
      <4>2. v[i] = w[i - m]
        BY <1>0, <4>1
      <4> QED BY <1>1, <4>1, <4>2
    <3> QED BY <3>0, <3>1, <3>2, <3>3
  <2> HIDE DEF h
  <2> QED BY <1>1, <2>1, <2>2 DEF Unfinished
<1> QED BY <1>2, <1>3

\* What the console says, wherever the sink puts it, leaves the fragments continued.
LEMMA ConsoleInserted ==
  ASSUME NEW w, NEW v, NEW l \in Nat, NEW m \in Nat, NEW n \in Nat, Inserted(w, v, l, m, n),
         Continued(w)
  PROVE  /\ Continued(v)
         /\ \A s : Unfinished(w, n, s) => Unfinished(v, n + m, s)
<1>0. /\ l <= n /\ Len(w) = n /\ Len(v) = n + m
      /\ \A k \in 1..l : v[k] = w[k]
      /\ \A k \in (l + 1)..(l + m) : Of_Console(v[k])
      /\ \A k \in (l + 1)..n : v[k + m] = w[k]
  BY DEF Inserted
<1>1. ASSUME NEW s, Unfinished(w, n, s) PROVE Unfinished(v, n + m, s)
  <2>1. n \in 0..n /\ n >= l
    BY <1>0
  <2> QED BY <1>1, <2>1, UnfinishedInserted
<1>2. ASSUME NEW k \in 1..(n + m), v[k].mark = "none", v[k].subject # 0
      PROVE  Unfinished(v, k - 1, v[k].subject)
  <2>1. CASE k <= l
    <3>1. k \in 1..l /\ k \in 1..n /\ k - 1 \in 0..n /\ k - 1 <= l
      BY <1>0, <2>1
    <3>2. v[k] = w[k]
      BY <1>0, <3>1
    <3>3. Unfinished(w, k - 1, v[k].subject)
      BY <1>0, <1>2, <3>1, <3>2 DEF Continued
    <3> QED BY <3>1, <3>3, UnfinishedInserted
  <2>2. CASE l < k /\ k <= l + m
    <3>1. Of_Console(v[k])
      BY <1>0, <2>2
    <3> QED BY <1>2, <3>1 DEF Of_Console, Echo, Prompt
  <2>3. CASE l + m < k
    <3>1. k - m \in (l + 1)..n /\ k - m \in 1..n /\ (k - m) + m = k
      BY <2>3
    <3>2. v[k] = w[k - m]
      BY <1>0, <3>1
    <3>3. Unfinished(w, (k - m) - 1, v[k].subject)
      BY <1>0, <1>2, <3>1, <3>2 DEF Continued
    <3>4. (k - m) - 1 \in 0..n /\ (k - m) - 1 >= l /\ ((k - m) - 1) + m = k - 1
      BY <2>3
    <3> DEFINE p == (k - m) - 1
    <3>5. p \in 0..n /\ p >= l /\ p + m = k - 1 /\ Unfinished(w, p, v[k].subject)
      BY <3>3, <3>4
    <3> HIDE DEF p
    <3>6. Unfinished(v, p + m, v[k].subject)
      BY <3>5, UnfinishedInserted
    <3> QED BY <3>5, <3>6
  <2> QED BY <2>1, <2>2, <2>3
<1> QED BY <1>0, <1>1, <1>2 DEF Continued

\* The server puts an entry into the output queue.
LEMMA WireAppend ==
  ASSUME NEW d \in Seq(Entry), NEW q \in Seq(Entry), NEW e \in Entry, Continued(d \o q),
         e.mark = "none" /\ e.subject # 0 => Unfinished(d \o q, Len(d \o q), e.subject)
  PROVE  /\ Continued(d \o Append(q, e)) /\ Append(q, e) \in Seq(Entry)
         /\ e.subject # 0 /\ ~e.text[1].LF =>
              Unfinished(d \o Append(q, e), Len(d \o Append(q, e)), e.subject)
<1> DEFINE w == d \o q
           v == d \o Append(q, e)
           n == Len(w)
<1>1. /\ Append(q, e) \in Seq(Entry) /\ Len(Append(q, e)) = Len(q) + 1 /\ Len(d) \in Nat /\ Len(q) \in Nat
      /\ \A k \in 1..Len(q) : Append(q, e)[k] = q[k]
      /\ Append(q, e)[Len(q) + 1] = e
  BY AppendProperties, LenProperties
<1>2. /\ n = Len(d) + Len(q) /\ Len(v) = n + 1
      /\ \A k \in 1..n : w[k] = IF k <= Len(d) THEN d[k] ELSE q[k - Len(d)]
      /\ \A k \in 1..(n + 1) : v[k] = IF k <= Len(d) THEN d[k] ELSE Append(q, e)[k - Len(d)]
  <2> DEFINE r == Append(q, e)
  <2>1. /\ n = Len(d) + Len(q)
        /\ \A k \in 1..n : w[k] = IF k <= Len(d) THEN d[k] ELSE q[k - Len(d)]
    BY ConcatProperties
  <2>2. r \in Seq(Entry) /\ Len(r) = Len(q) + 1
    BY <1>1
  <2> HIDE DEF r
  <2>3. /\ Len(d \o r) = Len(d) + Len(r)
        /\ \A k \in 1..(Len(d) + Len(r)) : (d \o r)[k] = IF k <= Len(d) THEN d[k] ELSE r[k - Len(d)]
    BY <2>2, ConcatProperties
  <2>4. Len(d) + Len(r) = n + 1
    BY <1>1, <2>1, <2>2
  <2> QED BY <2>1, <2>3, <2>4 DEF r
<1>3. n \in Nat /\ v[n + 1] = e /\ \A k \in 1..n : v[k] = w[k]
  <2>1. ASSUME NEW k \in 1..n PROVE v[k] = w[k]
    <3>1. CASE k <= Len(d)
      BY <1>1, <1>2, <3>1
    <3>2. CASE k > Len(d)
      <4>1. k - Len(d) \in 1..Len(q)
        BY <1>1, <1>2, <3>2
      <4>2. v[k] = Append(q, e)[k - Len(d)] /\ w[k] = q[k - Len(d)]
        BY <1>1, <1>2, <3>2
      <4> QED BY <1>1, <4>1, <4>2
    <3> QED BY <1>1, <1>2, <3>1, <3>2
  <2> HIDE DEF w, v
  <2>2. v[n + 1] = e
    BY <1>1, <1>2
  <2> QED BY <1>1, <1>2, <2>1, <2>2
<1> HIDE DEF w, v, n
<1>4. ASSUME NEW p \in 0..n, NEW s, Unfinished(w, p, s) PROVE Unfinished(v, p, s)
  <2>1. \A k \in 1..p : v[k] = w[k]
    BY <1>3
  <2>2. PICK j \in 1..p : /\ w[j].subject = s /\ ~w[j].text[1].LF
                          /\ \A i \in (j + 1)..p : Of_Console(w[i])
    BY <1>4 DEF Unfinished
  <2>3. \A i \in (j + 1)..p : i \in 1..p
    OBVIOUS
  <2> QED BY <2>1, <2>2, <2>3 DEF Unfinished
<1>5. Continued(v)
  <2> SUFFICES ASSUME NEW k \in 1..(n + 1), v[k].mark = "none", v[k].subject # 0
               PROVE  Unfinished(v, k - 1, v[k].subject)
    BY <1>2 DEF Continued
  <2>1. CASE k = n + 1
    <3>1. Unfinished(w, n, e.subject)
      BY <1>3, <2>1 DEF w, n
    <3>2. k - 1 = n /\ n \in 0..n /\ v[k] = e
      BY <1>3, <2>1
    <3> QED BY <1>4, <3>1, <3>2
  <2>2. CASE k # n + 1
    <3>1. k \in 1..n /\ v[k] = w[k] /\ k - 1 \in 0..n
      BY <1>3, <2>2
    <3>2. Unfinished(w, k - 1, v[k].subject)
      BY <3>1 DEF Continued, w, n
    <3> QED BY <1>4, <3>1, <3>2
  <2> QED BY <2>1, <2>2
<1>6. e.subject # 0 /\ ~e.text[1].LF => Unfinished(v, n + 1, e.subject)
  <2>1. n + 1 \in 1..(n + 1) /\ \A i \in ((n + 1) + 1)..(n + 1) : FALSE
    BY <1>3
  <2> QED BY <1>3, <2>1 DEF Unfinished
<1> QED BY <1>1, <1>2, <1>5, <1>6 DEF v

\* The entries of two sequences, one after the other.
LEMMA EntriesJoined ==
  ASSUME NEW x \in Seq(Entry), NEW y \in Seq(Entry)
  PROVE  /\ Len(x \o y) = Len(x) + Len(y)
         /\ \A i \in 1..(Len(x) + Len(y)) : (x \o y)[i] = IF i <= Len(x) THEN x[i] ELSE y[i - Len(x)]
  BY ConcatProperties

\* The sink sends n entries of the output queue and m of the console's.
Sends(n, m) ==
  /\ n \in 0..Len(queue) /\ m \in 0..Len(console)
  /\ device' = device \o SubSeq(queue, 1, n) \o SubSeq(console, 1, m)
  /\ queue' = SubSeq(queue, n + 1, Len(queue))
  /\ console' = SubSeq(console, m + 1, Len(console))
  /\ UNCHANGED <<buffer, Is_Idle, Last_Subject>>

LEMMA WireSent ==
  ASSUME WireInv, NEW n, NEW m, Sends(n, m)
  PROVE  WireInv'
<1> DEFINE d == device
           q == queue
           c == console
           e == device'
           r == queue'
<1>a. /\ d \in Seq(Entry) /\ q \in Seq(Entry) /\ c \in Seq({Echo, Prompt}) /\ Continued(d \o q)
      /\ n \in 0..Len(q) /\ m \in 0..Len(c)
      /\ e = d \o SubSeq(q, 1, n) \o SubSeq(c, 1, m) /\ r = SubSeq(q, n + 1, Len(q))
      /\ console' = SubSeq(c, m + 1, Len(c))
  BY DEF WireInv, Wire, Sends
<1> HIDE DEF d, q, c, e, r
<1> DEFINE a == SubSeq(q, 1, n)
           b == SubSeq(c, 1, m)
           w == d \o q
           v == e \o r
           l == Len(d) + n
           t == Len(d) + Len(q)
<1>0. /\ Len(d) \in Nat /\ Len(q) \in Nat /\ Len(c) \in Nat
      /\ n \in Nat /\ m \in Nat /\ n <= Len(q) /\ m <= Len(c)
      /\ \A i \in 1..Len(q) : q[i] \in Entry
      /\ \A i \in 1..Len(c) : c[i] \in {Echo, Prompt}
  BY <1>a, LenProperties, ElementOfSeq
<1>1. {Echo, Prompt} \subseteq Entry
  BY DEF Echo, Prompt, Entry, Text
<1>2. a \in Seq(Entry) /\ Len(a) = n /\ \A i \in 1..n : a[i] = q[i]
  <2>1. \A i \in 1..n : q[i] \in Entry
    BY <1>0
  <2>2. /\ a \in Seq(Entry) /\ Len(a) = IF 1 <= n THEN n - 1 + 1 ELSE 0
        /\ \A i \in 1..(n - 1 + 1) : a[i] = q[1 + i - 1]
    BY <1>0, <2>1, SubSeqProperties
  <2> HIDE DEF a
  <2> QED BY <1>0, <2>2
<1>3. b \in Seq(Entry) /\ Len(b) = m /\ \A i \in 1..m : b[i] = c[i] /\ Of_Console(b[i])
  <2>1. \A i \in 1..m : c[i] \in Entry /\ Of_Console(c[i])
    BY <1>0, <1>1 DEF Of_Console
  <2>2. /\ b \in Seq(Entry) /\ Len(b) = IF 1 <= m THEN m - 1 + 1 ELSE 0
        /\ \A i \in 1..(m - 1 + 1) : b[i] = c[1 + i - 1]
    BY <1>0, <2>1, SubSeqProperties
  <2> HIDE DEF b
  <2> QED BY <1>0, <2>1, <2>2
<1>4. r \in Seq(Entry) /\ Len(r) = Len(q) - n /\ \A i \in 1..(Len(q) - n) : r[i] = q[n + i]
  <2>1. \A i \in (n + 1)..Len(q) : q[i] \in Entry
    BY <1>0
  <2>2. /\ r \in Seq(Entry) /\ Len(r) = IF n + 1 <= Len(q) THEN Len(q) - (n + 1) + 1 ELSE 0
        /\ \A i \in 1..(Len(q) - (n + 1) + 1) : r[i] = q[(n + 1) + i - 1]
    BY <1>a, <1>0, <2>1, SubSeqProperties
  <2> QED BY <1>0, <2>2
<1>5. SubSeq(c, m + 1, Len(c)) \in Seq({Echo, Prompt})
  <2>1. \A i \in (m + 1)..Len(c) : c[i] \in {Echo, Prompt}
    BY <1>0
  <2> QED BY <1>0, <2>1, SubSeqProperties
<1> HIDE DEF a, b
<1>6. /\ d \o a \in Seq(Entry) /\ Len(d \o a) = l
      /\ \A i \in 1..l : (d \o a)[i] = IF i <= Len(d) THEN d[i] ELSE a[i - Len(d)]
  BY <1>a, <1>2, ConcatProperties
<1> DEFINE f == d \o a
<1> HIDE DEF f
<1>7. /\ e \in Seq(Entry) /\ Len(e) = l + m
      /\ \A i \in 1..(l + m) : e[i] = IF i <= l THEN f[i] ELSE b[i - l]
  <2>1. e = f \o b
    BY <1>a DEF f, a, b
  <2>2. f \in Seq(Entry) /\ Len(f) = l
    BY <1>6 DEF f
  <2>3. /\ f \o b \in Seq(Entry) /\ Len(f \o b) = Len(f) + Len(b)
        /\ \A i \in 1..(Len(f) + Len(b)) : (f \o b)[i] = IF i <= Len(f) THEN f[i] ELSE b[i - Len(f)]
    BY <1>3, <2>2, ConcatProperties
  <2> HIDE DEF l
  <2> QED BY <1>3, <2>1, <2>2, <2>3
<1>8. /\ Len(w) = t /\ \A i \in 1..t : w[i] = IF i <= Len(d) THEN d[i] ELSE q[i - Len(d)]
  BY <1>a, ConcatProperties
<1>9. /\ Len(v) = (l + m) + (Len(q) - n)
      /\ \A i \in 1..((l + m) + (Len(q) - n)) : v[i] = IF i <= l + m THEN e[i] ELSE r[i - (l + m)]
  <2>1. /\ Len(e \o r) = Len(e) + Len(r)
        /\ \A i \in 1..(Len(e) + Len(r)) : (e \o r)[i] = IF i <= Len(e) THEN e[i] ELSE r[i - Len(e)]
    <3>1. e \in Seq(Entry) /\ r \in Seq(Entry)
      BY <1>4, <1>7
    <3> QED BY <3>1, EntriesJoined, Zenon
  <2> HIDE DEF l
  <2> QED BY <1>4, <1>7, <2>1
<1> HIDE DEF w, v
<1>10. l \in Nat /\ t \in Nat /\ l <= t /\ (l + m) + (Len(q) - n) = t + m
  BY <1>0
<1>11. Inserted(w, v, l, m, t)
  <2>1. ASSUME NEW k \in 1..l PROVE v[k] = w[k]
    <3>1. k \in 1..t /\ k \in 1..(l + m) /\ k \in 1..(t + m) /\ k <= l /\ k <= l + m
      BY <1>0, <1>10
    <3>2. v[k] = IF k <= Len(d) THEN d[k] ELSE a[k - Len(d)]
      <4>1. v[k] = e[k] /\ e[k] = f[k]
        BY <1>7, <1>9, <1>10, <3>1
      <4> QED BY <1>6, <4>1 DEF f
    <3>3. w[k] = IF k <= Len(d) THEN d[k] ELSE q[k - Len(d)]
      BY <1>8, <3>1
    <3>4. k > Len(d) => k - Len(d) \in 1..n
      BY <1>0
    <3>5. k > Len(d) => a[k - Len(d)] = q[k - Len(d)]
      BY <1>2, <3>4
    <3>6. k > Len(d) <=> ~(k <= Len(d))
      BY <1>0, <3>1
    <3> QED BY <3>2, <3>3, <3>5, <3>6
  <2>2. ASSUME NEW k \in (l + 1)..(l + m) PROVE Of_Console(v[k])
    <3>1. k \in 1..(l + m) /\ k \in 1..(t + m) /\ ~(k <= l) /\ k <= l + m /\ k - l \in 1..m
      BY <1>0, <1>10
    <3>2. v[k] = b[k - l]
      BY <1>7, <1>9, <1>10, <3>1
    <3> QED BY <1>3, <3>1, <3>2
  <2>3. ASSUME NEW k \in (l + 1)..t PROVE v[k + m] = w[k]
    <3>1. /\ k + m \in 1..(t + m) /\ ~(k + m <= l + m) /\ k \in 1..t /\ ~(k <= Len(d))
          /\ (k + m) - (l + m) \in 1..(Len(q) - n) /\ n + ((k + m) - (l + m)) = k - Len(d)
      BY <1>0, <1>10
    <3>2. v[k + m] = r[(k + m) - (l + m)]
      BY <1>9, <1>10, <3>1
    <3>3. w[k] = q[k - Len(d)]
      BY <1>8, <3>1
    <3> DEFINE i == (k + m) - (l + m)
    <3>4. i \in 1..(Len(q) - n) /\ n + i = k - Len(d) /\ v[k + m] = r[i]
      BY <3>1, <3>2
    <3> HIDE DEF i
    <3>5. r[i] = q[n + i]
      BY <1>4, <3>4
    <3> QED BY <3>3, <3>4, <3>5
  <2> QED BY <1>8, <1>9, <1>10, <2>1, <2>2, <2>3 DEF Inserted
<1> HIDE DEF l, t
<1>12. Continued(w)
  BY <1>a DEF w
<1>13. Continued(v) /\ \A s : Unfinished(w, t, s) => Unfinished(v, t + m, s)
  BY <1>0, <1>10, <1>11, <1>12, ConsoleInserted
<1>14. Len(w) = t /\ Len(v) = t + m
  BY <1>11 DEF Inserted
<1>15. Wire = w /\ Wire' = v /\ console' \in Seq({Echo, Prompt})
  BY <1>a, <1>5 DEF w, v, d, q, e, r, Wire
<1>16. Unfinished(Wire, Len(Wire), Last_Subject) => Unfinished(Wire', Len(Wire'), Last_Subject)
  BY <1>13, <1>14, <1>15
<1>17. device' \in Seq(Entry) /\ queue' \in Seq(Entry)
  BY <1>4, <1>7 DEF e, r
<1> QED BY <1>13, <1>15, <1>16, <1>17 DEF WireInv, Sends

\* A message is printed: without a prefix only where the one before it is unfinished.
LEMMA WirePrint ==
  ASSUME LogInv, WireInv, NEW b, NEW ch, Read(b, ch), NEW s \in Subject_Buffer_Range, b[s].Cache # Null,
         Log_Message(b, s), UNCHANGED <<device, console>>
  PROVE  WireInv'
<1> DEFINE e == Add_Message(b, s)
<1>1. /\ b[s] \in Buffer /\ b[s].Cache \in Fragment
      /\ buffer'[s].Message_Incomplete = ~b[s].Cache.LF
      /\ b[s].Message_Incomplete = buffer[s].Message_Incomplete
  BY MessageLogged DEF Read
<1>2. Last_Subject' = s /\ queue' = Append(queue, e)
  BY DEF Log_Message
<1>3. /\ Add_Line_Prefix(b, s).mark \in {"%", "#", ">", "|"}
  BY DEF Add_Line_Prefix
<1>4. /\ e \in Entry /\ e.subject = s /\ e.text = <<b[s].Cache>>
      /\ e.mark = "none" => ~Needs_Prefix(b, s)
  <2> DEFINE mark == IF Needs_Prefix(b, s) THEN Add_Line_Prefix(b, s).mark ELSE "none"
  <2>1. e = [mark |-> mark, subject |-> s, text |-> <<b[s].Cache>>]
    BY DEF Add_Message
  <2>2. mark \in {"%", "#", ">", "|", "none"} /\ (mark = "none" => ~Needs_Prefix(b, s))
    BY <1>3
  <2>3. <<b[s].Cache>> \in Text /\ s \in Nat
    BY <1>1 DEF Text, Subject_Buffer_Range
  <2> HIDE DEF mark, e
  <2> QED BY <2>1, <2>2, <2>3 DEF Entry
<1> HIDE DEF e
<1>5. ~Needs_Prefix(b, s) => Unfinished(Wire, Len(Wire), s)
  <2>1. ~Needs_Prefix(b, s) => b[s].Message_Incomplete /\ Last_Subject = s /\ ~Is_Idle
    BY DEF Needs_Prefix
  <2> QED BY <1>1, <2>1 DEF WireInv
<1>6. device \in Seq(Entry) /\ queue \in Seq(Entry) /\ Continued(device \o queue)
  BY DEF WireInv, Wire
<1>7. e.mark = "none" /\ e.subject # 0 => Unfinished(device \o queue, Len(device \o queue), e.subject)
  BY <1>4, <1>5 DEF Wire
<1>8. /\ Continued(device \o Append(queue, e)) /\ Append(queue, e) \in Seq(Entry)
      /\ e.subject # 0 /\ ~e.text[1].LF =>
           Unfinished(device \o Append(queue, e), Len(device \o Append(queue, e)), e.subject)
  BY <1>4, <1>6, <1>7, WireAppend
<1>9. Wire' = device \o Append(queue, e)
  BY <1>2 DEF Wire
<1>10. buffer'[s].Message_Incomplete => Unfinished(Wire', Len(Wire'), s)
  <2>1. e.text[1] = b[s].Cache /\ s # 0
    BY <1>4 DEF Subject_Buffer_Range
  <2> QED BY <1>1, <1>4, <1>8, <1>9, <2>1
<1> QED BY <1>2, <1>8, <1>9, <1>10 DEF WireInv

\* The banner is the first thing in the queue.
LEMMA WireStart ==
  ASSUME Init
  PROVE  WireInv
<1>1. /\ device = <<>> /\ queue = <<Banner>> /\ console = <<>>
      /\ buffer[Last_Subject].Message_Incomplete = FALSE
  <2>1. Last_Subject \in Subject_Buffer_Range
    BY SizesAssumption DEF Init, Subject_Buffer_Range
  <2> QED BY <2>1 DEF Init, Initialize_Subject
<1>2. Banner \in Entry /\ Banner.mark = "DBG-LOG>"
  BY DEF Banner, Entry, Text
<1>3. device \in Seq(Entry) /\ queue \in Seq(Entry) /\ console \in Seq({Echo, Prompt})
  BY <1>1, <1>2
<1>4. Wire = <<Banner>>
  BY <1>1, <1>3, ConcatEmptySeq DEF Wire
<1>5. Continued(<<Banner>>)
  BY <1>2 DEF Continued
<1> QED BY <1>1, <1>3, <1>4, <1>5 DEF WireInv

\* A step that leaves the output queue, the device and the server's view alone.
LEMMA WireQuiet ==
  ASSUME WireInv, UNCHANGED <<device, queue, Is_Idle, Last_Subject>>,
         console' \in Seq({Echo, Prompt}),
         buffer'[Last_Subject].Message_Incomplete = buffer[Last_Subject].Message_Incomplete
  PROVE  WireInv'
<1>1. Wire' = Wire
  BY DEF Wire
<1> QED BY <1>1 DEF WireInv

\* Every step keeps it.
LEMMA WireStep ==
  ASSUME LogInv, WireInv, [Next]_vars
  PROVE  WireInv'
<1>0. /\ buffer \in [Subject_Buffer_Range -> Buffer] /\ Last_Subject \in Subject_Buffer_Range
      /\ console \in Seq({Echo, Prompt})
  BY DEF LogInv, LogType, WireInv
<1>1. CASE Run_Buffers
  <2>1. PICK R \in SUBSET {s \in Subject_Buffer_Range : channel[s].Epoch # Null_Epoch
                             /\ buffer[s].Enabled /\ ~Is_Message_Present(buffer[s])} : Run(R)
    BY <1>1 DEF Run_Buffers
  <2>2. UNCHANGED <<device, console>>
    BY <1>1 DEF Run_Buffers, sink
  <2> DEFINE b == Update_Message_Buffers(R)
             ch == [s \in Subject_Buffer_Range |->
                      IF s \in R THEN [Epoch |-> channel[s].Epoch + 1, data |-> <<>>] ELSE channel[s]]
  <2>3. R \in SUBSET {s \in Subject_Buffer_Range : ~Is_Message_Present(buffer[s])}
    BY <2>1
  <2>4. Read(b, ch)
    BY <2>3, ReadChannels
  <2>5. \/ (\E s \in Subject_Buffer_Range : Is_Message_Present(b[s])) /\ Log_Message(b, Find_Oldest_Message(b))
        \/ Idle_Mark /\ buffer' = b /\ UNCHANGED Last_Subject
        \/ buffer' = b /\ UNCHANGED <<Last_Subject, Is_Idle, queue>>
    BY <2>1 DEF Run
  <2> HIDE DEF b, ch
  <2>6. CASE (\E s \in Subject_Buffer_Range : Is_Message_Present(b[s])) /\ Log_Message(b, Find_Oldest_Message(b))
    <3> DEFINE s == Find_Oldest_Message(b)
    <3>1. s \in Subject_Buffer_Range /\ b[s].Cache # Null
      BY <2>4, <2>6, OldestFound DEF Read
    <3>2. Log_Message(b, s)
      BY <2>6
    <3> HIDE DEF s
    <3> QED BY <2>2, <2>4, <3>1, <3>2, WirePrint
  <2>7. CASE Idle_Mark
    <3>1. queue' = Append(queue, Idle_Entry) /\ Is_Idle' = TRUE
      BY <2>7 DEF Idle_Mark
    <3>2. Idle_Entry \in Entry /\ Idle_Entry.mark # "none"
      BY DEF Idle_Entry, Entry, Text
    <3>3. device \in Seq(Entry) /\ queue \in Seq(Entry) /\ Continued(device \o queue)
      BY DEF WireInv, Wire
    <3>4. Continued(device \o Append(queue, Idle_Entry)) /\ Append(queue, Idle_Entry) \in Seq(Entry)
      BY <3>2, <3>3, WireAppend
    <3>5. Wire' = device \o Append(queue, Idle_Entry)
      BY <2>2, <3>1 DEF Wire
    <3> QED BY <1>0, <2>2, <3>1, <3>3, <3>4, <3>5 DEF WireInv
  <2>8. CASE buffer' = b /\ UNCHANGED <<Last_Subject, Is_Idle, queue>>
    <3>1. buffer'[Last_Subject].Message_Incomplete = buffer[Last_Subject].Message_Incomplete
      BY <1>0, <2>4, <2>8 DEF Read
    <3> QED BY <1>0, <2>2, <2>8, <3>1, WireQuiet
  <2> QED BY <2>5, <2>6, <2>7, <2>8
<1>2. CASE Run_Sink
  <2>1. PICK n \in 0..Len(queue), m \in 0..Len(console) : Sends(n, m)
    BY <1>2 DEF Run_Sink, Sends
  <2> QED BY <2>1, WireSent
<1>3. ASSUME NEW s \in Subject_Buffer_Range, Start(s) \/ \E lf \in BOOLEAN : Flush(s, lf) PROVE WireInv'
  <2>1. UNCHANGED <<buffer, Is_Idle, Last_Subject, queue, device, console>>
    BY <1>3 DEF Start, Flush, server, sink
  <2> QED BY <1>0, <2>1, WireQuiet
<1>4. CASE Handle_Normal_Input
  <2>1. UNCHANGED <<buffer, Is_Idle, Last_Subject, queue, device>> /\ console' = Append(console, Echo)
    BY <1>4 DEF Handle_Normal_Input, server
  <2>2. console' \in Seq({Echo, Prompt})
    BY <1>0, <2>1, AppendProperties
  <2> QED BY <2>1, <2>2, WireQuiet
<1>5. ASSUME Command,
             \A t \in Subject_Buffer_Range : buffer'[t].Message_Incomplete = buffer[t].Message_Incomplete
      PROVE  WireInv'
  <2>1. UNCHANGED <<Is_Idle, Last_Subject, queue, device>> /\ console' = Append(console, Prompt)
    BY <1>5 DEF Command
  <2>2. console' \in Seq({Echo, Prompt})
    BY <1>0, <2>1, AppendProperties
  <2> QED BY <1>0, <1>5, <2>1, <2>2, WireQuiet
<1>6. ASSUME NEW s \in Subject_Buffer_Range, Log_Toggle(s) PROVE WireInv'
  <2>1. Command /\ buffer' = [buffer EXCEPT ![s].Enabled = ~@]
    BY <1>6 DEF Log_Toggle
  <2> QED BY <1>0, <1>5, <2>1 DEF Buffer
<1>7. ASSUME NEW e \in BOOLEAN, Set_All_Log_Buffer_State(e) PROVE WireInv'
  <2>1. Command /\ buffer' = [s \in Subject_Buffer_Range |-> [buffer[s] EXCEPT !.Enabled = e]]
    BY <1>7 DEF Set_All_Log_Buffer_State
  <2> QED BY <1>0, <1>5, <2>1 DEF Buffer
<1>8. CASE Stream_Reset
  <2>1. Command /\ buffer' = [s \in Subject_Buffer_Range |-> [buffer[s] EXCEPT !.RC = 0]]
    BY <1>8 DEF Stream_Reset
  <2> QED BY <1>0, <1>5, <2>1 DEF Buffer
<1>9. CASE UNCHANGED vars
  <2>1. UNCHANGED <<buffer, Is_Idle, Last_Subject, queue, device, console>>
    BY <1>9 DEF vars, server, sink
  <2> QED BY <1>0, <2>1, WireQuiet
<1> QED BY <1>1, <1>2, <1>3, <1>4, <1>6, <1>7, <1>8, <1>9 DEF Next

-----------------------------------------------------------------------------
(* The theorems *)

\* The channels, the buffers of the debug server and the printed lines agree (LogInv).
THEOREM LogInvariance == Safety => []LogInv
<1>1. Init => LogInv
  BY LogStart
<1>2. LogInv /\ [Next]_vars => LogInv'
  BY LogStep
<1> QED BY <1>1, <1>2, PTL DEF Safety

\* From what a sink without a console shows, mulog-subject.py gives back every message of
\* every subject, whatever the debug server (Dbg.Buffers) prints in between.
THEOREM MessagesReassembled == Safety => []Reassembled
<1>1. LogInv => Reassembled
  BY DEF LogInv, Told, Script, Reassembled, mulog_subject
<1> QED BY <1>1, LogInvariance, PTL

\* On a device with a console (Dbg.Non_Interfering_Output) a fragment without a prefix goes
\* on with the unfinished one before it, only the console's output between them.
THEOREM FragmentsAttributed == Safety => []Attributed
<1>1. Init => WireInv
  BY WireStart
<1>2. LogInv /\ WireInv /\ [Next]_vars => WireInv'
  BY WireStep
<1>3. ASSUME WireInv PROVE Attributed
  <2> SUFFICES ASSUME NEW k \in DOMAIN device, device[k].mark = "none", device[k].subject # 0
               PROVE  Unfinished(device, k - 1, device[k].subject)
    BY DEF Attributed
  <2>1. /\ device \in Seq(Entry) /\ queue \in Seq(Entry) /\ Len(device) \in Nat /\ Len(queue) \in Nat
        /\ k \in 1..Len(device)
    BY <1>3, LenProperties DEF WireInv
  <2>2. /\ Len(Wire) = Len(device) + Len(queue)
        /\ \A i \in 1..(Len(device) + Len(queue)) :
             Wire[i] = IF i <= Len(device) THEN device[i] ELSE queue[i - Len(device)]
    BY <2>1, ConcatProperties DEF Wire
  <2>3. \A i \in 1..Len(device) : i \in 1..Len(Wire) /\ Wire[i] = device[i]
    BY <2>1, <2>2
  <2>4. Unfinished(Wire, k - 1, device[k].subject)
    BY <1>3, <2>1, <2>3 DEF WireInv, Continued
  <2>5. PICK j \in 1..(k - 1) : /\ Wire[j].subject = device[k].subject /\ ~Wire[j].text[1].LF
                                /\ \A i \in (j + 1)..(k - 1) : Of_Console(Wire[i])
    BY <2>4 DEF Unfinished
  <2>6. j \in 1..Len(device) /\ \A i \in (j + 1)..(k - 1) : i \in 1..Len(device)
    BY <2>1
  <2> QED BY <2>3, <2>5, <2>6 DEF Unfinished
<1> QED BY <1>1, <1>2, <1>3, LogInvariance, PTL DEF Safety

\* Where the debug server lost fragments of a subject (Update_Message_Buffer), it does not
\* print what is before and what is after them as one message.
THEOREM NoGapHidden == Safety => []NoSilentGap
<1>1. ASSUME LogInv PROVE NoSilentGap
  <2> SUFFICES ASSUME NEW s \in Subject_Buffer_Range, NEW line \in ToSet(mulog_subject(s)),
                      NEW j \in 1..(Len(line) - 1),
                      line[j].epoch = line[j + 1].epoch, line[j].epoch = channel[s].Epoch,
                      line[j].seq < line[j + 1].seq, NEW y \in ToSet(channel[s].data),
                      line[j].seq < y.seq, y.seq < line[j + 1].seq
               PROVE  FALSE
    BY DEF NoSilentGap
  <2>1. /\ channel[s] \in Channel /\ mulog_subject(s) = Lines(heard[s])
        /\ Kept(buffer[s], channel[s], heard[s], writes)
    BY <1>1 DEF LogInv, LogType, Told, Script, mulog_subject
  <2>2. Lines(heard[s]) \in Seq(Text) /\ \A i \in 1..Len(Lines(heard[s])) : Whole(Lines(heard[s])[i], channel[s], writes)
    BY <2>1 DEF Kept
  <2>3. DOMAIN Lines(heard[s]) = 1..Len(Lines(heard[s]))
    BY <2>2, LenProperties
  <2>4. Whole(line, channel[s], writes)
    BY <2>1, <2>2, <2>3 DEF ToSet
  <2>5. Apart(channel[s], line[j], line[j + 1])
    BY <2>4 DEF Whole
  <2>6. channel[s].data \in Text
    BY <2>1 DEF Channel
  <2>7. DOMAIN channel[s].data = 1..Len(channel[s].data)
    BY <2>6, LenProperties DEF Text
  <2>8. PICK k \in 1..Len(channel[s].data) : y = channel[s].data[k]
    BY <2>7 DEF ToSet
  <2> QED BY <2>5, <2>8 DEF Apart
<1> QED BY <1>1, LogInvariance, PTL

\* Of the messages the debug server holds (Find_Oldest_Message) it prints the one with the
\* smallest time stamp, of equal ones the one of the smallest subject; the subjects it
\* holds a message of have no unread message with a smaller stamp either.
THEOREM OldestPrintedFirst == Safety => OldestFirst
<1>1. ASSUME LogInv, LogInv', [Next]_vars
      PROVE  [\A s \in Subject_Buffer_Range :
                heard'[s] # heard[s] =>
                  \A t \in Subject_Buffer_Range \ {s} :
                    Is_Message_Present(buffer'[t]) =>
                      LET f == Last(heard'[s]).frag
                          g == buffer'[t].Cache
                      IN  \A x \in {g} \cup {y \in ToSet(channel'[t].data) : y.seq > g.seq} :
                            Before(f, s, x, t)]_vars
  <2> SUFFICES ASSUME NEW s \in Subject_Buffer_Range, heard'[s] # heard[s],
                      NEW t \in Subject_Buffer_Range \ {s}, buffer'[t].Cache # Null, Next,
                      NEW y \in {buffer'[t].Cache} \cup {z \in ToSet(channel'[t].data) : z.seq > buffer'[t].Cache.seq}
               PROVE  Before(Last(heard'[s]).frag, s, y, t)
    BY <1>1 DEF vars, server, Is_Message_Present
  <2> USE <1>1
  <2>1. Run_Buffers
    <3>1. heard' # heard
      OBVIOUS
    <3>2. ~Run_Sink /\ ~Command /\ ~Handle_Normal_Input
      BY <3>1 DEF Run_Sink, Command, Handle_Normal_Input, server
    <3>3. \A u \in Subject_Buffer_Range : ~Start(u) /\ \A lf \in BOOLEAN : ~Flush(u, lf)
      BY <3>1 DEF Start, Flush, server
    <3> QED BY <3>2, <3>3 DEF Next, Log_Toggle, Stream_Reset, Set_All_Log_Buffer_State
  <2>2. PICK R \in SUBSET {u \in Subject_Buffer_Range : channel[u].Epoch # Null_Epoch
                             /\ buffer[u].Enabled /\ ~Is_Message_Present(buffer[u])} : Run(R)
    BY <2>1 DEF Run_Buffers
  <2> DEFINE b == Update_Message_Buffers(R)
             ch == [u \in Subject_Buffer_Range |->
                      IF u \in R THEN [Epoch |-> channel[u].Epoch + 1, data |-> <<>>] ELSE channel[u]]
             o == Find_Oldest_Message(b)
  <2>3. Read(b, ch)
    <3>1. R \in SUBSET {u \in Subject_Buffer_Range : ~Is_Message_Present(buffer[u])}
      BY <2>2
    <3> QED BY <3>1, ReadChannels
  <2>4. (\E u \in Subject_Buffer_Range : Is_Message_Present(b[u])) /\ Log_Message(b, o)
    BY <2>2 DEF Run
  <2> HIDE DEF b, ch
  <2>6. /\ o \in Subject_Buffer_Range /\ b[o].Cache # Null
        /\ \A u \in Subject_Buffer_Range : b[u].Cache # Null => Before(b[o].Cache, o, b[u].Cache, u)
    BY <2>3, <2>4, OldestFound DEF Read
  <2> HIDE DEF o
  <2>7. /\ b[o].Cache \in Fragment
        /\ \A u \in Subject_Buffer_Range \ {o} : heard'[u] = heard[u] /\ buffer'[u] = b[u]
        /\ \E x \in Hearing : heard'[o] = Append(heard[o], x) /\ x.frag = b[o].Cache
    BY <2>3, <2>4, <2>6, MessageLogged
  <2>8. s = o
    BY <2>7
  <2>9. Last(heard'[s]).frag = b[o].Cache
    <3>1. PICK x \in Hearing : heard'[o] = Append(heard[o], x) /\ x.frag = b[o].Cache
      BY <2>7
    <3>2. heard[o] \in Seq(Hearing)
      BY <2>6 DEF LogInv, LogType
    <3>3. Len(heard'[o]) = Len(heard[o]) + 1 /\ heard'[o][Len(heard[o]) + 1] = x
      BY <3>1, <3>2, AppendProperties
    <3> QED BY <2>8, <3>1, <3>3 DEF Last
  <2> DEFINE f == b[o].Cache
             g == buffer'[t].Cache
  <2>10. Before(f, s, g, t) /\ g # Null /\ f.time \in Nat
    BY <2>6, <2>7, <2>8 DEF Fragment
  <2>11. g \in Held(buffer'[t], channel'[t]) /\ g.time \in Nat
    <3>1. buffer'[t] \in Buffer
      BY DEF LogInv, LogType
    <3> QED BY <2>10, <3>1 DEF Held, Buffer, Fragment
  <2>12. CASE y = g
    BY <2>9, <2>10, <2>12
  <2>13. CASE y \in ToSet(channel'[t].data) /\ y.seq > g.seq
    <3>1. channel'[t] \in Channel /\ channel'[t].data \in Seq(Fragment)
      BY DEF LogInv, LogType, Channel, Text
    <3>2. PICK k \in 1..Len(channel'[t].data) : y = channel'[t].data[k]
      BY <2>13, <3>1, LenProperties DEF ToSet
    <3>3. y \in Held(buffer'[t], channel'[t]) /\ y.time \in Nat /\ y.seq \in Nat
      <4>1. y \in Fragment
        BY <3>1, <3>2, ElementOfSeq
      <4>2. y \in Held(buffer'[t], channel'[t])
        BY <3>2 DEF Held
      <4> QED BY <4>1, <4>2 DEF Fragment
    <3>4. g.seq \in Nat
      BY <2>10 DEF LogInv, LogType, Buffer, Fragment
    <3>5. g.seq < y.seq
      BY <2>13, <3>3, <3>4
    <3>6. g.time <= y.time
      BY <2>11, <3>3, <3>5 DEF LogInv, Stamped
    <3> HIDE DEF f, g
    <3>7. Before(f, s, y, t)
      BY <2>10, <2>11, <3>3, <3>6 DEF Before
    <3> QED BY <2>9, <3>7 DEF f
  <2> QED BY <2>12, <2>13
<1> QED BY <1>1, LogInvariance, PTL DEF Safety, OldestFirst

=============================================================================
