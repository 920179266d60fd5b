---------------------------- MODULE NamesProofs ----------------------------
(* Theorems about Names, for every set of users, whatever they type, every  *)
(* length and every capacity of at most 90.                                 *)
EXTENDS Names, FiniteSetTheorems, SequenceTheorems, WellFoundedInduction, TLAPS

-----------------------------------------------------------------------------
(* Induction, from the finite subsets of a set being well-founded.          *)

\* A set of naturals has a least element.
LEMMA Least ==
    ASSUME NEW T \in SUBSET Nat, T # {}
    PROVE  \E x \in T : \A y \in T : x <= y
  <1> DEFINE R == StrictSubsetOrdering(Nat)
             U == {0..n : n \in T}
  <1>1. ASSUME NEW n \in T PROVE 0..n \in FiniteSubsetsOf(Nat)
    <2>1. IsFiniteSet(0..n)
      BY FS_Interval
    <2>2. 0..n \subseteq Nat
      OBVIOUS
    <2> QED
      BY <2>1, <2>2 DEF FiniteSubsetsOf
  <1>2. U \subseteq FiniteSubsetsOf(Nat) /\ U # {}
    BY <1>1
  <1>3. IsWellFoundedOn(R, FiniteSubsetsOf(Nat))
    BY FS_StrictSubsetOrderingWellFounded
  <1>4. \E x \in U : \A y \in U : <<y, x>> \notin R
    <2> HIDE DEF R, U
    <2> QED
      BY <1>2, <1>3, WFMin
  <1>5. PICK n \in T : \A m \in T : <<0..m, 0..n>> \notin R
    BY <1>4
  <1>6. ASSUME NEW m \in T, m < n PROVE FALSE
    <2>1. 0..m \subseteq 0..n /\ n \in 0..n /\ n \notin 0..m
      BY <1>6
    <2>2. <<0..m, 0..n>> \in R
      BY <2>1 DEF StrictSubsetOrdering
    <2> QED
      BY <1>5, <2>2
  <1> QED
    BY <1>6

\* What holds of 0 and passes from a number to the next holds of all.
LEMMA Counting ==
    ASSUME NEW T, 0 \in T, \A n \in T \cap Nat : n + 1 \in T
    PROVE  Nat \subseteq T
  <1> SUFFICES ASSUME Nat \ T # {} PROVE FALSE
    OBVIOUS
  <1>1. PICK n \in Nat \ T : \A m \in Nat \ T : n <= m
    BY Least
  <1>2. n - 1 \in Nat /\ n - 1 \notin Nat \ T
    BY <1>1
  <1> QED
    BY <1>1, <1>2

\* What holds of <<>> and survives an appended element holds of all sequences.
LEMMA Growing ==
    ASSUME NEW S, NEW P, <<>> \in P, \A s \in P \cap Seq(S), x \in S : Append(s, x) \in P
    PROVE  Seq(S) \subseteq P
  <1> DEFINE T == {n \in Nat : \A s \in Seq(S) : Len(s) = n => s \in P}
  <1>1. 0 \in T
    OBVIOUS
  <1>2. ASSUME NEW n \in T PROVE n + 1 \in T
    <2> SUFFICES ASSUME NEW s \in Seq(S), Len(s) = n + 1 PROVE s \in P
      BY <1>2
    <2>1. PICK r \in Seq(S), x \in S : s = Append(r, x)
      BY SequenceEmptyOrAppend
    <2>2. Len(r) = n
      BY <2>1
    <2> QED
      BY <1>2, <2>1, <2>2
  <1> HIDE DEF T
  <1>3. Nat \subseteq T
    BY <1>1, <1>2, Counting
  <1> QED
    BY <1>3 DEF T

-----------------------------------------------------------------------------
(* What Fold computes.                                                      *)

\* What Fold may be given.
Step == [Text \X Characters -> Text]

\* What the prefixes of s fold to.
Traces(step, s) ==
    {g \in [0..Len(s) -> Text] : g[0] = <<>> /\ \A i \in 1..Len(s) : g[i] = step[<<g[i - 1], s[i]>>]}

\* What the prefixes of a text fold to, one character later.
LEMMA TraceGrows ==
    ASSUME NEW step \in Step, NEW s \in Text, NEW ch \in Characters, NEW g \in Traces(step, s)
    PROVE  \E h \in Traces(step, Append(s, ch)) : h[Len(s) + 1] = step[<<g[Len(s)], ch>>]
  <1> DEFINE n == Len(s)
             r == Append(s, ch)
             last == step[<<g[n], ch>>]
             h == [i \in 0..(n + 1) |-> IF i = n + 1 THEN last ELSE g[i]]
  <1>1. n \in Nat /\ Len(r) = n + 1 /\ r[n + 1] = ch /\ \A i \in 1..n : r[i] = s[i]
    BY DEF Text
  <1>2. /\ g \in [0..n -> Text] /\ g[0] = <<>>
        /\ \A i \in 1..n : g[i] = step[<<g[i - 1], s[i]>>]
    BY DEF Traces
  <1>3. last \in Text
    BY <1>1, <1>2 DEF Step
  <1> HIDE DEF last, r
  <1>4. h \in [0..(n + 1) -> Text] /\ h[0] = <<>> /\ h[n + 1] = last
    BY <1>1, <1>2, <1>3
  <1>5. ASSUME NEW i \in 1..(n + 1) PROVE h[i] = step[<<h[i - 1], r[i]>>]
    <2>1. CASE i \in 1..n
      BY <1>1, <1>2, <2>1
    <2>2. CASE i = n + 1
      BY <1>1, <2>2 DEF last
    <2> QED
      BY <1>1, <2>1, <2>2
  <1> HIDE DEF h
  <1>6. h \in Traces(step, r)
    BY <1>1, <1>4, <1>5 DEF Traces
  <1> QED
    BY <1>4, <1>6 DEF r, last

\* Every text has its trace.
LEMMA TraceExists ==
    ASSUME NEW step \in Step, NEW s \in Text
    PROVE  Traces(step, s) # {}
  <1> DEFINE P == {t \in Text : Traces(step, t) # {}}
  <1>1. <<>> \in P
    <2> DEFINE g == [i \in 0..0 |-> <<>>]
    <2>1. <<>> \in Text /\ Len(<<>>) = 0
      BY DEF Text
    <2>2. g \in Traces(step, <<>>)
      BY <2>1 DEF Traces
    <2> QED
      BY <2>1, <2>2
  <1>2. ASSUME NEW t \in P, NEW ch \in Characters PROVE Append(t, ch) \in P
    <2>1. Append(t, ch) \in Text
      BY DEF Text
    <2> QED
      BY <2>1, TraceGrows
  <1> HIDE DEF P
  <1>3. Text \subseteq P
    BY <1>1, <1>2, Growing DEF Text
  <1> QED
    BY <1>3 DEF P

\* They are what Fold computes.
LEMMA FoldTrace ==
    ASSUME NEW step, NEW s \in Text, NEW g \in Traces(step, s)
    PROVE  Fold(step, s) = g[Len(s)]
  <1> DEFINE Equation(h) ==
               h = [i \in 0..Len(s) |-> IF i = 0 THEN <<>> ELSE step[<<h[i - 1], s[i]>>]]
             done == CHOOSE h : Equation(h)
             T == {i \in Nat : i <= Len(s) => done[i] = g[i]}
  <1>1. Len(s) \in Nat
    BY DEF Text
  <1>2. /\ g \in [0..Len(s) -> Text] /\ g[0] = <<>>
        /\ \A i \in 1..Len(s) : g[i] = step[<<g[i - 1], s[i]>>]
    BY DEF Traces
  <1>3. Equation(g)
    BY <1>1, <1>2
  <1>4. Equation(done)
    BY <1>3
  <1>5. Fold(step, s) = done[Len(s)]
    BY DEF Fold
  <1> HIDE DEF done
  <1>6. done[0] = <<>> /\ \A i \in 1..Len(s) : done[i] = step[<<done[i - 1], s[i]>>]
    BY <1>1, <1>4
  <1>7. 0 \in T
    BY <1>2, <1>6
  <1>8. ASSUME NEW i \in T PROVE i + 1 \in T
    <2> SUFFICES ASSUME i + 1 <= Len(s) PROVE done[i + 1] = g[i + 1]
      OBVIOUS
    <2>1. i + 1 \in 1..Len(s) /\ (i + 1) - 1 = i /\ done[i] = g[i]
      BY <1>1
    <2>2. /\ done[i + 1] = step[<<done[(i + 1) - 1], s[i + 1]>>]
          /\ g[i + 1] = step[<<g[(i + 1) - 1], s[i + 1]>>]
      BY <1>2, <1>6, <2>1
    <2> QED
      BY <2>1, <2>2
  <1> HIDE DEF T
  <1>9. Nat \subseteq T
    BY <1>7, <1>8, Counting
  <1> QED
    BY <1>1, <1>5, <1>9 DEF T

\* Fold by its recursion: the empty text, and one more character.
LEMMA FoldStep ==
    ASSUME NEW step \in Step
    PROVE  /\ Fold(step, <<>>) = <<>>
           /\ \A s \in Text : Fold(step, s) \in Text
           /\ \A s \in Text, ch \in Characters :
                 Fold(step, Append(s, ch)) = step[<<Fold(step, s), ch>>]
  <1>1. ASSUME NEW s \in Text, NEW g \in Traces(step, s)
        PROVE  Fold(step, s) = g[Len(s)] /\ g[Len(s)] \in Text
    <2>1. Len(s) \in 0..Len(s)
      BY DEF Text
    <2> QED
      BY <2>1, FoldTrace DEF Traces
  <1>2. Fold(step, <<>>) = <<>>
    <2>1. <<>> \in Text /\ Len(<<>>) = 0
      BY DEF Text
    <2>2. PICK g \in Traces(step, <<>>) : TRUE
      BY <2>1, TraceExists
    <2>3. g[0] = <<>>
      BY DEF Traces
    <2> QED
      BY <1>1, <2>1, <2>3
  <1>3. ASSUME NEW s \in Text PROVE Fold(step, s) \in Text
    BY <1>1, TraceExists
  <1>4. ASSUME NEW s \in Text, NEW ch \in Characters
        PROVE  Fold(step, Append(s, ch)) = step[<<Fold(step, s), ch>>]
    <2>1. PICK g \in Traces(step, s) : TRUE
      BY TraceExists
    <2>2. PICK h \in Traces(step, Append(s, ch)) : h[Len(s) + 1] = step[<<g[Len(s)], ch>>]
      BY TraceGrows
    <2>3. Append(s, ch) \in Text /\ Len(Append(s, ch)) = Len(s) + 1
      BY DEF Text
    <2> QED
      BY <1>1, <2>2, <2>3
  <1> QED
    BY <1>2, <1>3, <1>4

-----------------------------------------------------------------------------
(* The ends of a text, and what appending a character does to its pairs.    *)

\* The last character of a text, and the text without it.
LEMMA Ends ==
    ASSUME NEW t \in Text, t # <<>>
    PROVE  /\ Last(t) \in Characters /\ Last(t) = t[Len(t)]
           /\ Front(t) \in Text /\ Len(Front(t)) = Len(t) - 1 /\ Len(t) \in Nat \ {0}
           /\ \A i \in 1..(Len(t) - 1) : Front(t)[i] = t[i]
  <1>1. t \in Seq(Characters) /\ Len(t) \in Nat \ {0} /\ t[Len(t)] \in Characters
    BY DEF Text
  <1>2. /\ SubSeq(t, 1, Len(t) - 1) \in Seq(Characters)
        /\ Len(SubSeq(t, 1, Len(t) - 1)) = Len(t) - 1
        /\ \A i \in 1..(Len(t) - 1) : SubSeq(t, 1, Len(t) - 1)[i] = t[i]
    <2> DEFINE n == Len(t) - 1
    <2>1. n \in Nat /\ \A i \in 1..n : t[i] \in Characters
      BY <1>1
    <2> HIDE DEF n
    <2>2. /\ SubSeq(t, 1, n) \in Seq(Characters)
          /\ Len(SubSeq(t, 1, n)) = IF 1 <= n THEN n - 1 + 1 ELSE 0
          /\ \A i \in 1..(n - 1 + 1) : SubSeq(t, 1, n)[i] = t[1 + i - 1]
      BY <2>1, SubSeqProperties
    <2>3. Len(SubSeq(t, 1, n)) = n
      BY <2>1, <2>2
    <2>4. ASSUME NEW i \in 1..n PROVE SubSeq(t, 1, n)[i] = t[i]
      <3>1. i \in 1..(n - 1 + 1) /\ 1 + i - 1 = i
        BY <2>1
      <3> QED
        BY <2>2, <3>1
    <2> QED
      BY <2>2, <2>3, <2>4 DEF n
  <1> QED
    BY <1>1, <1>2 DEF Text, Last, Front

\* A text with one more character.
LEMMA Appended ==
    ASSUME NEW t \in Text, NEW ch \in Characters
    PROVE  /\ Append(t, ch) \in Text /\ Append(t, ch) # <<>>
           /\ Len(t) \in Nat /\ Len(Append(t, ch)) = Len(t) + 1
           /\ Last(Append(t, ch)) = ch /\ Append(t, ch)[Len(t) + 1] = ch
           /\ \A i \in 1..Len(t) : Append(t, ch)[i] = t[i]
  BY DEF Text, Last

\* No e is followed by an accent.
Composed(t) == \A i \in 1..(Len(t) - 1) : ~(t[i] = "e" /\ t[i + 1] = "acute")

\* Words are apart by one space, and none comes first.
Spaced(t) ==
    /\ \A i \in 1..Len(t) : t[i] # "tab" /\ ~(i = 1 /\ t[i] = "space")
    /\ \A i \in 1..(Len(t) - 1) : ~(t[i] = "space" /\ t[i + 1] = "space")

\* The only pair an appended character makes is with the last one.
LEMMA ComposedGrows ==
    ASSUME NEW t \in Text, NEW ch \in Characters
    PROVE  Composed(Append(t, ch)) <=>
              Composed(t) /\ ~(t # <<>> /\ Last(t) = "e" /\ ch = "acute")
  <1> DEFINE r == Append(t, ch)
             n == Len(t)
  <1>1. /\ n \in Nat /\ Len(r) = n + 1 /\ r[n + 1] = ch
        /\ \A i \in 1..n : r[i] = t[i]
    BY Appended
  <1>2. t # <<>> <=> n > 0
    BY DEF Text
  <1>3. t # <<>> => Last(t) = t[n]
    BY DEF Last
  <1> HIDE DEF r
  <1>4. Composed(r) => Composed(t)
    BY <1>1 DEF Composed
  <1>5. Composed(r) => ~(t # <<>> /\ Last(t) = "e" /\ ch = "acute")
    BY <1>1, <1>2, <1>3 DEF Composed
  <1>6. Composed(t) /\ ~(t # <<>> /\ Last(t) = "e" /\ ch = "acute") => Composed(r)
    <2> SUFFICES ASSUME Composed(t), ~(t # <<>> /\ Last(t) = "e" /\ ch = "acute"),
                        NEW i \in 1..n, r[i] = "e", r[i + 1] = "acute"
                 PROVE  FALSE
      BY <1>1 DEF Composed
    <2>1. CASE i = n
      BY <1>1, <1>2, <1>3, <2>1
    <2>2. CASE i \in 1..(n - 1)
      BY <1>1, <2>2 DEF Composed
    <2> QED
      BY <1>1, <2>1, <2>2
  <1> QED
    BY <1>4, <1>5, <1>6 DEF r

\* The same of a text whose words are apart by one space.
LEMMA SpacedGrows ==
    ASSUME NEW t \in Text, NEW ch \in Characters
    PROVE  Spaced(Append(t, ch)) <=> Spaced(t) /\ ch # "tab" /\ ~(ch = "space" /\ Blank(t))
  <1> DEFINE r == Append(t, ch)
             n == Len(t)
  <1>1. /\ n \in Nat /\ Len(r) = n + 1 /\ r[n + 1] = ch
        /\ \A i \in 1..n : r[i] = t[i]
    BY Appended
  <1>2. Blank(t) <=> n = 0 \/ t[n] = "space"
    BY DEF Text, Blank, Last
  <1> HIDE DEF r
  <1>3. \A i \in 1..(n - 1) : r[i] = t[i] /\ r[i + 1] = t[i + 1]
    BY <1>1
  <1>4. ASSUME Spaced(r) PROVE Spaced(t) /\ ch # "tab" /\ ~(ch = "space" /\ Blank(t))
    <2>1. \A i \in 1..(n + 1) : r[i] # "tab" /\ ~(i = 1 /\ r[i] = "space")
      BY <1>1, <1>4 DEF Spaced
    <2>2. \A i \in 1..n : ~(r[i] = "space" /\ r[i + 1] = "space")
      BY <1>1, <1>4 DEF Spaced
    <2>3. Spaced(t)
      <3>1. \A i \in 1..n : t[i] # "tab" /\ ~(i = 1 /\ t[i] = "space")
        BY <1>1, <2>1
      <3>2. \A i \in 1..(n - 1) : ~(t[i] = "space" /\ t[i + 1] = "space")
        BY <1>1, <1>3, <2>2
      <3> QED
        BY <3>1, <3>2 DEF Spaced
    <2>4. ch # "tab" /\ ~(n = 0 /\ ch = "space")
      BY <1>1, <2>1
    <2>5. n # 0 => ~(t[n] = "space" /\ ch = "space")
      BY <1>1, <2>2
    <2> QED
      BY <1>2, <2>3, <2>4, <2>5
  <1>5. ASSUME Spaced(t), ch # "tab", ~(ch = "space" /\ Blank(t)) PROVE Spaced(r)
    <2>1. \A i \in 1..n : t[i] # "tab" /\ ~(i = 1 /\ t[i] = "space")
      BY <1>5 DEF Spaced
    <2>2. \A i \in 1..(n - 1) : ~(t[i] = "space" /\ t[i + 1] = "space")
      BY <1>5 DEF Spaced
    <2>3. ASSUME NEW i \in 1..(n + 1) PROVE r[i] # "tab" /\ ~(i = 1 /\ r[i] = "space")
      BY <1>1, <1>2, <1>5, <2>1
    <2>4. ASSUME NEW i \in 1..n PROVE ~(r[i] = "space" /\ r[i + 1] = "space")
      <3>1. CASE i = n
        BY <1>1, <1>2, <1>5, <3>1
      <3>2. CASE i \in 1..(n - 1)
        BY <1>3, <2>2, <3>2
      <3> QED
        BY <1>1, <3>1, <3>2
    <2> QED
      BY <1>1, <2>3, <2>4 DEF Spaced
  <1> QED
    BY <1>4, <1>5 DEF r

-----------------------------------------------------------------------------
(* NFC composes, split() and join() space, and neither undoes the other.    *)

\* Both steps make texts of texts.
LEMMA StepTypes == Compose \in Step /\ Space1 \in Step
  <1>1. ASSUME NEW p \in Text \X Characters PROVE Compose[p] \in Text
    <2>1. p[1] \in Text /\ p[2] \in Characters
      OBVIOUS
    <2>2. Append(p[1], p[2]) \in Text
      BY <2>1, Appended
    <2>3. p[1] # <<>> => Append(Front(p[1]), "e_acute") \in Text
      BY <2>1, Ends, Appended DEF Characters, Letters
    <2> QED
      BY <2>2, <2>3 DEF Compose
  <1>2. ASSUME NEW p \in Text \X Characters PROVE Space1[p] \in Text
    <2>1. p[1] \in Text /\ p[2] \in Characters /\ "space" \in Characters
      BY DEF Characters, Space
    <2>2. Append(p[1], p[2]) \in Text /\ Append(p[1], "space") \in Text
      BY <2>1, Appended
    <2> QED
      BY <2>1, <2>2 DEF Space1
  <1> QED
    BY <1>1, <1>2 DEF Compose, Space1, Step

\* NFC, one character at a time.
LEMMA NFCStep ==
    /\ NFC(<<>>) = <<>>
    /\ \A s \in Text : NFC(s) \in Text
    /\ \A s \in Text, ch \in Characters :
          NFC(Append(s, ch)) = IF ch = "acute" /\ NFC(s) # <<>> /\ Last(NFC(s)) = "e"
                               THEN Append(Front(NFC(s)), "e_acute") ELSE Append(NFC(s), ch)
  <1>1. /\ NFC(<<>>) = <<>>
        /\ \A s \in Text : NFC(s) \in Text
        /\ \A s \in Text, ch \in Characters : NFC(Append(s, ch)) = Compose[<<NFC(s), ch>>]
    BY FoldStep, StepTypes DEF NFC
  <1>2. ASSUME NEW t \in Text, NEW ch \in Characters
        PROVE  Compose[<<t, ch>>] = IF ch = "acute" /\ t # <<>> /\ Last(t) = "e"
                                    THEN Append(Front(t), "e_acute") ELSE Append(t, ch)
    BY DEF Compose
  <1> QED
    BY <1>1, <1>2

\* The words of s, with a space after each that has one in s.
Words(s) == Fold(Space1, s)

\* The words, one character at a time.
LEMMA WordsStep ==
    /\ Words(<<>>) = <<>>
    /\ \A s \in Text : Words(s) \in Text
    /\ \A s \in Text, ch \in Characters :
          Words(Append(s, ch)) = IF ch \notin Space THEN Append(Words(s), ch)
                                 ELSE IF Blank(Words(s)) THEN Words(s) ELSE Append(Words(s), "space")
  <1>1. /\ Words(<<>>) = <<>>
        /\ \A s \in Text : Words(s) \in Text
        /\ \A s \in Text, ch \in Characters : Words(Append(s, ch)) = Space1[<<Words(s), ch>>]
    BY FoldStep, StepTypes DEF Words
  <1>2. ASSUME NEW t \in Text, NEW ch \in Characters
        PROVE  Space1[<<t, ch>>] = IF ch \notin Space THEN Append(t, ch)
                                   ELSE IF Blank(t) THEN t ELSE Append(t, "space")
    BY DEF Space1
  <1> QED
    BY <1>1, <1>2

\* What unicodedata.normalize("NFC") returns has nothing left to compose.
LEMMA NFCComposed == \A s \in Text : Composed(NFC(s))
  <1> DEFINE P == {s \in Text : Composed(NFC(s))}
  <1>1. <<>> \in P
    <2>1. <<>> \in Text /\ Len(<<>>) = 0
      BY DEF Text
    <2> QED
      BY <2>1, NFCStep DEF Composed
  <1>2. ASSUME NEW s \in P, NEW ch \in Characters PROVE Append(s, ch) \in P
    <2> DEFINE t == NFC(s)
    <2>1. t \in Text /\ Composed(t) /\ Append(s, ch) \in Text
      BY NFCStep, Appended
    <2>2. CASE ch = "acute" /\ t # <<>> /\ Last(t) = "e"
      <3>1. Front(t) \in Text /\ Composed(Front(t))
        BY <2>1, <2>2, Ends DEF Composed
      <3>2. "e_acute" \in Characters
        BY DEF Characters, Letters
      <3>3. Composed(Append(Front(t), "e_acute"))
        BY <3>1, <3>2, ComposedGrows
      <3>4. NFC(Append(s, ch)) = Append(Front(t), "e_acute")
        BY <2>2, NFCStep
      <3> QED
        BY <2>1, <3>3, <3>4
    <2>3. CASE ~(ch = "acute" /\ t # <<>> /\ Last(t) = "e")
      <3>1. NFC(Append(s, ch)) = Append(t, ch)
        BY <2>3, NFCStep
      <3>2. Composed(Append(t, ch))
        BY <2>1, <2>3, ComposedGrows
      <3> QED
        BY <2>1, <3>1, <3>2
    <2> QED
      BY <2>2, <2>3
  <1> HIDE DEF P
  <1>3. Text \subseteq P
    BY <1>1, <1>2, Growing DEF Text
  <1> QED
    BY <1>3 DEF P

\* It changes nothing that has nothing to compose.
LEMMA NFCSame == \A s \in Text : Composed(s) => NFC(s) = s
  <1> DEFINE P == {s \in Text : Composed(s) => NFC(s) = s}
  <1>1. <<>> \in P
    BY NFCStep DEF Text
  <1>2. ASSUME NEW s \in P, NEW ch \in Characters PROVE Append(s, ch) \in P
    <2> SUFFICES ASSUME Composed(Append(s, ch)) PROVE NFC(Append(s, ch)) = Append(s, ch)
      BY Appended
    <2>1. Composed(s) /\ ~(s # <<>> /\ Last(s) = "e" /\ ch = "acute")
      BY ComposedGrows
    <2>2. NFC(s) = s
      BY <2>1
    <2> QED
      BY <2>1, <2>2, NFCStep
  <1> HIDE DEF P
  <1>3. Text \subseteq P
    BY <1>1, <1>2, Growing DEF Text
  <1> QED
    BY <1>3 DEF P

\* The words of any text are apart by one space.
LEMMA WordsSpaced == \A s \in Text : Spaced(Words(s))
  <1> DEFINE P == {s \in Text : Spaced(Words(s))}
  <1>1. <<>> \in P
    <2>1. <<>> \in Text /\ Len(<<>>) = 0
      BY DEF Text
    <2> QED
      BY <2>1, WordsStep DEF Spaced
  <1>2. ASSUME NEW s \in P, NEW ch \in Characters PROVE Append(s, ch) \in P
    <2> DEFINE t == Words(s)
    <2>1. t \in Text /\ Spaced(t) /\ Append(s, ch) \in Text /\ "space" \in Characters
      BY WordsStep, Appended DEF Characters, Space
    <2>2. CASE ch \notin Space
      <3>1. Words(Append(s, ch)) = Append(t, ch)
        BY <2>2, WordsStep
      <3>2. ch # "tab" /\ ch # "space"
        BY <2>2 DEF Space
      <3> QED
        BY <2>1, <3>1, <3>2, SpacedGrows
    <2>3. CASE ch \in Space /\ Blank(t)
      BY <2>1, <2>3, WordsStep
    <2>4. CASE ch \in Space /\ ~Blank(t)
      <3>1. Words(Append(s, ch)) = Append(t, "space")
        BY <2>4, WordsStep
      <3> QED
        BY <2>1, <2>4, <3>1, SpacedGrows
    <2> QED
      BY <2>2, <2>3, <2>4
  <1> HIDE DEF P
  <1>3. Text \subseteq P
    BY <1>1, <1>2, Growing DEF Text
  <1> QED
    BY <1>3 DEF P

\* Words that are apart by one space stay as they are.
LEMMA WordsSame == \A s \in Text : Spaced(s) => Words(s) = s
  <1> DEFINE P == {s \in Text : Spaced(s) => Words(s) = s}
  <1>1. <<>> \in P
    BY WordsStep DEF Text
  <1>2. ASSUME NEW s \in P, NEW ch \in Characters PROVE Append(s, ch) \in P
    <2> SUFFICES ASSUME Spaced(Append(s, ch)) PROVE Words(Append(s, ch)) = Append(s, ch)
      BY Appended
    <2>1. Spaced(s) /\ ch # "tab" /\ ~(ch = "space" /\ Blank(s))
      BY SpacedGrows
    <2>2. Words(s) = s
      BY <2>1
    <2>3. ch \in Space => ch = "space"
      BY <2>1 DEF Space
    <2> QED
      BY <2>1, <2>2, <2>3, WordsStep
  <1> HIDE DEF P
  <1>3. Text \subseteq P
    BY <1>1, <1>2, Growing DEF Text
  <1> QED
    BY <1>3 DEF P

\* Collapsing the space brings no e to an accent: there is a space left between.
LEMMA WordsComposed == \A s \in Text : Composed(s) => Composed(Words(s))
  <1> DEFINE Ending(s, t) == t # <<>> /\ Last(t) # "space" => s # <<>> /\ Last(s) = Last(t)
             P == {s \in Text : Composed(s) => Composed(Words(s)) /\ Ending(s, Words(s))}
  <1>1. <<>> \in P
    <2>1. <<>> \in Text /\ Len(<<>>) = 0 /\ Words(<<>>) = <<>>
      BY WordsStep DEF Text
    <2> QED
      BY <2>1 DEF Composed
  <1>2. ASSUME NEW s \in P, NEW ch \in Characters PROVE Append(s, ch) \in P
    <2> DEFINE t == Words(s)
               r == Append(s, ch)
    <2>1. t \in Text /\ s \in Text /\ r \in Text /\ "space" \in Characters
      BY WordsStep, Appended DEF Characters, Space
    <2> SUFFICES ASSUME Composed(r) PROVE Composed(Words(r)) /\ Ending(r, Words(r))
      BY <2>1
    <2>2. Composed(s) /\ ~(s # <<>> /\ Last(s) = "e" /\ ch = "acute")
      BY <2>1, ComposedGrows
    <2>3. Composed(t) /\ Ending(s, t)
      BY <2>2
    <2>4. r # <<>> /\ Last(r) = ch
      BY <2>1, Appended
    <2>5. CASE ch \notin Space
      <3>1. Words(r) = Append(t, ch)
        BY <2>1, <2>5, WordsStep
      <3>2. Last(Append(t, ch)) = ch
        BY <2>1, Appended
      <3>3. Composed(Append(t, ch))
        BY <2>1, <2>2, <2>3, ComposedGrows
      <3> QED
        BY <2>4, <3>1, <3>2, <3>3
    <2>6. CASE ch \in Space /\ Blank(t)
      <3>1. Words(r) = t
        BY <2>1, <2>6, WordsStep
      <3> QED
        BY <2>3, <2>6, <3>1 DEF Blank
    <2>7. CASE ch \in Space /\ ~Blank(t)
      <3>1. Words(r) = Append(t, "space")
        BY <2>1, <2>7, WordsStep
      <3>2. Last(Append(t, "space")) = "space"
        BY <2>1, Appended
      <3>3. Composed(Append(t, "space"))
        BY <2>1, <2>3, ComposedGrows
      <3> QED
        BY <3>1, <3>2, <3>3
    <2> QED
      BY <2>5, <2>6, <2>7
  <1> HIDE DEF P
  <1>3. Text \subseteq P
    BY <1>1, <1>2, Growing DEF Text
  <1> QED
    BY <1>3 DEF P

-----------------------------------------------------------------------------
(* normalize_name() makes presentable names and leaves them alone.          *)

\* A text without the last space of its words.
Trimmed(t) == IF t # <<>> /\ Blank(t) THEN Front(t) ELSE t

\* Nothing is lost by leaving out a last space, and it is the only one there.
LEMMA TrimmedText ==
    ASSUME NEW t \in Text, Spaced(t), Composed(t)
    PROVE  /\ Trimmed(t) \in Text /\ Spaced(Trimmed(t)) /\ Composed(Trimmed(t))
           /\ Trimmed(t) # <<>> => Last(Trimmed(t)) # "space"
  <1>1. CASE t # <<>> /\ Blank(t)
    <2> DEFINE n == Len(t)
               r == Front(t)
    <2>1. /\ r \in Text /\ Len(r) = n - 1 /\ n \in Nat \ {0} /\ t[n] = "space"
          /\ \A i \in 1..(n - 1) : r[i] = t[i]
      BY <1>1, Ends DEF Blank
    <2>2. Trimmed(t) = r
      BY <1>1 DEF Trimmed
    <2> HIDE DEF r
    <2>3. Spaced(r) /\ Composed(r)
      BY <2>1 DEF Spaced, Composed
    <2>4. r # <<>> => Last(r) # "space"
      <3> SUFFICES ASSUME r # <<>> PROVE Last(r) # "space"
        OBVIOUS
      <3>1. Last(r) = r[n - 1] /\ n - 1 \in Nat \ {0}
        BY <2>1, Ends
      <3>2. n - 1 \in 1..(n - 1) /\ (n - 1) + 1 = n
        BY <2>1, <3>1
      <3>3. ~(t[n - 1] = "space" /\ t[n] = "space")
        BY <3>2 DEF Spaced
      <3> QED
        BY <2>1, <3>1, <3>2, <3>3
    <2> QED
      BY <2>1, <2>2, <2>3, <2>4
  <1>2. CASE ~(t # <<>> /\ Blank(t))
    BY <1>2 DEF Trimmed, Blank
  <1> QED
    BY <1>1, <1>2

\* What `" ".join(s.split())` returns of a composed text.
LEMMA CollapseText ==
    ASSUME NEW s \in Text, Composed(s)
    PROVE  /\ Collapse(s) \in Text /\ Spaced(Collapse(s)) /\ Composed(Collapse(s))
           /\ Collapse(s) # <<>> => Last(Collapse(s)) # "space"
  <1>1. Collapse(s) = Trimmed(Words(s))
    BY DEF Collapse, Trimmed, Words
  <1>2. Words(s) \in Text /\ Spaced(Words(s)) /\ Composed(Words(s))
    BY WordsStep, WordsSpaced, WordsComposed
  <1> QED
    BY <1>1, <1>2, TrimmedText

\* It changes no text that has no space to spare.
LEMMA CollapseSame ==
    ASSUME NEW s \in Text, Spaced(s), s # <<>>, Last(s) # "space"
    PROVE  Collapse(s) = s
  <1>1. Collapse(s) = Trimmed(Words(s))
    BY DEF Collapse, Trimmed, Words
  <1>2. Words(s) = s
    BY WordsSame
  <1> QED
    BY <1>1, <1>2 DEF Trimmed, Blank

\* What Presentable means of a text, in the terms of the lemmas above.
LEMMA PresentableText ==
    ASSUME NEW s \in Text
    PROVE  Presentable(s) <=> /\ s # NoName /\ ~Refused(s) /\ Composed(s) /\ Spaced(s)
                              /\ Last(s) # "space"
  <1>1. CASE s = <<>>
    BY <1>1 DEF Presentable, NoName
  <1>2. CASE s # <<>>
    <2> DEFINE n == Len(s)
    <2>1. n \in Nat \ {0} /\ DOMAIN s = 1..n /\ Head(s) = s[1] /\ Last(s) = s[n]
      BY <1>2, Ends DEF Text
    <2>2. MaxName \in Nat
      BY NamesAssumption
    <2>3. s # NoName
      BY <1>2 DEF NoName
    <2>4. ASSUME Presentable(s) PROVE ~Refused(s) /\ Composed(s) /\ Spaced(s) /\ Last(s) # "space"
      <3>1. /\ n <= MaxName /\ s[1] # "space" /\ Last(s) # "space"
            /\ \A i \in 1..n : s[i] \notin Disallowed /\ s[i] \notin Space \ {"space"}
            /\ \A i \in 1..(n - 1) : ~(s[i] = "space" /\ s[i + 1] = "space")
            /\ \A i \in 1..(n - 1) : ~(s[i] = "e" /\ s[i + 1] = "acute")
        BY <2>1, <2>4 DEF Presentable
      <3>2. ~Refused(s)
        BY <2>1, <2>2, <3>1 DEF Refused
      <3>3. Composed(s)
        BY <3>1 DEF Composed
      <3>4. Spaced(s)
        BY <3>1 DEF Spaced, Disallowed
      <3> QED
        BY <3>1, <3>2, <3>3, <3>4
    <2>5. ASSUME ~Refused(s), Composed(s), Spaced(s), Last(s) # "space" PROVE Presentable(s)
      <3>1. n <= MaxName /\ \A i \in 1..n : s[i] \notin Disallowed
        BY <2>1, <2>2, <2>5 DEF Refused
      <3>2. \A i \in 1..n : s[i] # "tab"
        BY <2>5 DEF Spaced
      <3>3. s[1] # "space"
        BY <2>1, <2>5 DEF Spaced
      <3>4. \A i \in 1..(n - 1) : ~(s[i] = "space" /\ s[i + 1] = "space")
        BY <2>5 DEF Spaced
      <3>5. \A i \in 1..(n - 1) : ~(s[i] = "e" /\ s[i + 1] = "acute")
        BY <2>5 DEF Composed
      <3>6. \A i \in DOMAIN s : s[i] \notin Disallowed \cup (Space \ {"space"})
        BY <2>1, <3>1, <3>2 DEF Space
      <3>7. {"space"} \cap {Head(s), Last(s)} = {}
        BY <2>1, <2>5, <3>3
      <3>8. \A i \in 1..(n - 1) :
               <<s[i], s[i + 1]>> \notin {<<"space", "space">>, <<"e", "acute">>}
        BY <3>4, <3>5
      <3> QED
        BY <2>3, <3>1, <3>6, <3>7, <3>8 DEF Presentable
    <2> QED
      BY <2>3, <2>4, <2>5
  <1> QED
    BY <1>1, <1>2

\* Whatever the text, normalize_name() refuses it or returns a presentable name.
LEMMA NormalizePresents ==
    ASSUME NEW raw \in Text
    PROVE  /\ Normalize(raw) \in Text
           /\ Normalize(raw) # NoName => Presentable(Normalize(raw))
  <1> DEFINE s == Collapse(NFC(raw))
  <1>1. s \in Text /\ Spaced(s) /\ Composed(s) /\ (s # <<>> => Last(s) # "space")
    BY NFCStep, NFCComposed, CollapseText
  <1>2. Normalize(raw) = IF Refused(s) THEN NoName ELSE s
    BY DEF Normalize
  <1>3. NoName \in Text
    BY DEF NoName, Text
  <1> HIDE DEF s
  <1> QED
    BY <1>1, <1>2, <1>3, PresentableText DEF NoName

\* normalize_name() leaves a presentable name alone, so it may be called again.
LEMMA NormalizeSame ==
    ASSUME NEW s \in Text, Presentable(s)
    PROVE  Normalize(s) = s
  <1>1. s # <<>> /\ ~Refused(s) /\ Composed(s) /\ Spaced(s) /\ Last(s) # "space"
    BY PresentableText DEF NoName
  <1>2. NFC(s) = s
    BY <1>1, NFCSame
  <1>3. Collapse(s) = s
    BY <1>1, CollapseSame
  <1> QED
    BY <1>1, <1>2, <1>3 DEF Normalize

-----------------------------------------------------------------------------
(* Casefolding, and the tags.                                               *)

\* A fallback is none of the texts anybody types.
LEMMA FallbackText == Fallback \notin Text
  <1> SUFFICES ASSUME Fallback \in Text PROVE FALSE
    OBVIOUS
  <1>1. Fallback[1] = "user" /\ 1 \in 1..Len(Fallback)
    BY DEF Fallback
  <1>2. "user" \in Characters
    BY <1>1 DEF Text
  <1> QED
    BY <1>2 DEF Characters, Letters, Figures, Space, Disallowed

\* casefold() works on one character after the other, and keeps those of a tag.
LEMMA CasefoldStep ==
    /\ Lower \in Step
    /\ Casefold(<<>>) = <<>>
    /\ \A s \in Text : Casefold(s) \in Text
    /\ \A s \in Text, ch \in Figures \cup {"hash"} :
          Casefold(Append(s, ch)) = Append(Casefold(s), ch)
  <1>1. \A s \in Text : s # Fallback
    BY FallbackText
  <1>2. ASSUME NEW t \in Text, NEW ch \in Characters PROVE t \o Folded(ch) \in Text
    <2>1. <<"a">> \in Text /\ <<"s", "s">> \in Text /\ <<ch>> \in Text
      BY DEF Text, Characters, Letters
    <2>2. Folded(ch) \in {<<"a">>, <<"s", "s">>, <<ch>>}
      BY DEF Folded
    <2>3. Folded(ch) \in Text
      BY <2>1, <2>2
    <2> QED
      BY <2>3 DEF Text
  <1>3. Lower \in Step
    <2>1. \A p \in Text \X Characters : p[1] \o Folded(p[2]) \in Text
      BY <1>2
    <2> QED
      BY <2>1 DEF Lower, Step
  <1>4. /\ Fold(Lower, <<>>) = <<>>
        /\ \A s \in Text : Fold(Lower, s) \in Text
        /\ \A s \in Text, ch \in Characters :
              Fold(Lower, Append(s, ch)) = Lower[<<Fold(Lower, s), ch>>]
    BY <1>3, FoldStep
  <1>5. \A s \in Text : Casefold(s) = Fold(Lower, s)
    BY <1>1 DEF Casefold
  <1>6. ASSUME NEW s \in Text, NEW ch \in Figures \cup {"hash"}
        PROVE  Casefold(Append(s, ch)) = Append(Casefold(s), ch)
    <2> DEFINE t == Fold(Lower, s)
    <2>1. ch \in Characters /\ ch # "A" /\ ch # "sharp_s"
      BY DEF Characters, Figures
    <2>2. Folded(ch) = <<ch>>
      BY <2>1 DEF Folded
    <2>3. t \in Text /\ Append(s, ch) \in Text
      BY <1>4, <2>1, Appended
    <2>4. Fold(Lower, Append(s, ch)) = Lower[<<t, ch>>]
      BY <1>4, <2>1
    <2> HIDE DEF t
    <2>5. Lower[<<t, ch>>] = t \o <<ch>>
      BY <2>1, <2>2, <2>3 DEF Lower
    <2>6. t \o <<ch>> = Append(t, ch)
      BY <2>1, <2>3 DEF Text
    <2> QED
      BY <1>5, <2>3, <2>4, <2>5, <2>6 DEF t
  <1>7. <<>> \in Text
    BY DEF Text
  <1> QED
    BY <1>3, <1>4, <1>5, <1>6, <1>7

\* The figures in the order of their values.
Figure(i) == <<"0", "1", "2", "3", "4", "5", "6", "7", "8", "9">>[i + 1]

\* The ten figures are different, and none of them is a hash.
LEMMA FigureOnce ==
    /\ \A i \in 0..9 : Figure(i) \in Figures
    /\ \A i, j \in 0..9 : Figure(i) = Figure(j) => i = j
    /\ "hash" \notin Figures
  BY DEF Figure, Figures

\* A number below 100 is determined by its two figures.
LEMMA DigitsOf ==
    ASSUME NEW k \in 0..99
    PROVE  /\ k \div 10 \in 0..9 /\ k % 10 \in 0..9 /\ k = 10 * (k \div 10) + (k % 10)
           /\ Digits(k) = IF k < 10 THEN <<Figure(k)>> ELSE <<Figure(k \div 10), Figure(k % 10)>>
  <1>1. k \div 10 \in 0..9 /\ k % 10 \in 0..9 /\ k = 10 * (k \div 10) + (k % 10)
    OBVIOUS
  <1> QED
    BY <1>1 DEF Digits, Figure

\* The least free tag is a free tag.
LEMMA MinIn ==
    ASSUME NEW T \in SUBSET Nat, T # {}
    PROVE  Min(T) \in T /\ \A x \in T : Min(T) <= x
  <1>1. \E x \in T : \A y \in T : x <= y
    BY Least
  <1> QED
    BY <1>1 DEF Min

\* What Tag keeps of n.
Base(n, k) == SubSeq(n, 1, Min({Len(n), MaxName - (IF k < 10 THEN 2 ELSE 3)}))

\* The base is a prefix that leaves room for the tag.
LEMMA BaseText ==
    ASSUME NEW n \in Text, NEW k \in Numbers
    PROVE  /\ Base(n, k) \in Text
           /\ Len(Base(n, k)) <= Len(n)
           /\ Len(Base(n, k)) <= MaxName - (IF k < 10 THEN 2 ELSE 3)
           /\ \A i \in 1..Len(Base(n, k)) : Base(n, k)[i] = n[i]
  <1> DEFINE w == IF k < 10 THEN 2 ELSE 3
             m == Min({Len(n), MaxName - w})
             r == SubSeq(n, 1, m)
  <1>1. /\ Len(n) \in Nat /\ MaxName - w \in Nat /\ n \in Seq(Characters)
        /\ \A i \in 1..Len(n) : n[i] \in Characters
    BY NamesAssumption DEF Text, Numbers
  <1>2. m \in {Len(n), MaxName - w} /\ m <= Len(n) /\ m <= MaxName - w
    <2> DEFINE T == {Len(n), MaxName - w}
    <2>1. T \in SUBSET Nat /\ T # {} /\ Len(n) \in T /\ MaxName - w \in T
      BY <1>1
    <2> HIDE DEF T
    <2>2. Min(T) \in T /\ Min(T) <= Len(n) /\ Min(T) <= MaxName - w
      BY <2>1, MinIn
    <2> QED
      BY <2>2 DEF T
  <1>3. Base(n, k) = r
    BY DEF Base
  <1> HIDE DEF m, w
  <1>4. m \in Nat /\ m <= Len(n)
    BY <1>1, <1>2
  <1>5. \A i \in 1..m : n[i] \in Characters
    BY <1>1, <1>4
  <1>6. /\ r \in Seq(Characters)
        /\ Len(r) = IF 1 <= m THEN m - 1 + 1 ELSE 0
        /\ \A i \in 1..(m - 1 + 1) : r[i] = n[1 + i - 1]
    <2> HIDE DEF r
    <2> QED
      BY <1>4, <1>5, SubSeqProperties DEF r
  <1> HIDE DEF r
  <1>7. Len(r) = m
    BY <1>4, <1>6
  <1>8. ASSUME NEW i \in 1..m PROVE r[i] = n[i]
    <2>1. i \in 1..(m - 1 + 1) /\ 1 + i - 1 = i
      BY <1>4
    <2> QED
      BY <1>6, <2>1
  <1> QED
    BY <1>2, <1>3, <1>6, <1>7, <1>8 DEF Text, w

\* A tagged name is the base, a hash and one or two figures.
LEMMA TagBase ==
    ASSUME NEW n \in Text, NEW k \in Numbers
    PROVE  /\ k \in 0..99
           /\ Base(n, k) \in Text
           /\ Append(Base(n, k), "hash") \in Text
           /\ Tag(n, k) = IF k < 10 THEN Append(Append(Base(n, k), "hash"), Figure(k))
                           ELSE Append(Append(Append(Base(n, k), "hash"), Figure(k \div 10)),
                                       Figure(k % 10))
  <1> DEFINE b == Base(n, k)
  <1>1. k \in 0..99
    BY NamesAssumption DEF Numbers
  <1>2. b \in Text
    BY BaseText
  <1>3. "hash" \in Characters
    BY DEF Characters
  <1>4. Append(b, "hash") \in Text
    BY <1>2, <1>3, Appended
  <1>5. ASSUME NEW r \in Text, NEW x \in Characters, NEW y \in Characters, NEW z \in Characters
        PROVE  /\ r \o (<<x>> \o <<y>>) = Append(Append(r, x), y)
               /\ r \o (<<x>> \o <<y, z>>) = Append(Append(Append(r, x), y), z)
    BY DEF Text
  <1>6. Tag(n, k) = SubSeq(n, 1, Min({Len(n), MaxName - Len(<<"hash">> \o Digits(k))}))
                       \o (<<"hash">> \o Digits(k))
    BY DEF Tag
  <1>7. CASE k < 10
    <2>1. Figure(k) \in Characters
      BY <1>1, <1>7, FigureOnce DEF Characters
    <2>2. Digits(k) = <<Figure(k)>>
      BY <1>1, <1>7, DigitsOf
    <2>3. Len(<<"hash">> \o Digits(k)) = 2
      BY <2>2
    <2>4. Tag(n, k) = b \o (<<"hash">> \o <<Figure(k)>>)
      BY <1>6, <1>7, <2>2, <2>3 DEF Base
    <2> HIDE DEF b
    <2> QED
      BY <1>1, <1>2, <1>3, <1>4, <1>5, <1>7, <2>1, <2>4 DEF b
  <1>8. CASE ~(k < 10)
    <2>1. Figure(k \div 10) \in Characters /\ Figure(k % 10) \in Characters
      BY <1>1, DigitsOf, FigureOnce DEF Characters
    <2>2. Digits(k) = <<Figure(k \div 10), Figure(k % 10)>>
      BY <1>1, <1>8, DigitsOf
    <2>3. Len(<<"hash">> \o Digits(k)) = 3
      BY <2>2
    <2>4. Tag(n, k) = b \o (<<"hash">> \o <<Figure(k \div 10), Figure(k % 10)>>)
      BY <1>6, <1>8, <2>2, <2>3 DEF Base
    <2> HIDE DEF b
    <2> QED
      BY <1>1, <1>2, <1>3, <1>4, <1>5, <1>8, <2>1, <2>4 DEF b
  <1> QED
    BY <1>7, <1>8

\* Texts that are the same with a character more were the same.
LEMMA AppendedOnce ==
    ASSUME NEW p \in Text, NEW q \in Text, NEW x \in Characters, NEW y \in Characters,
           Append(p, x) = Append(q, y)
    PROVE  p = q /\ x = y
  <1> DEFINE r == Append(p, x)
  <1>1. /\ Len(p) \in Nat /\ Len(r) = Len(p) + 1 /\ Last(r) = x
        /\ \A i \in 1..Len(p) : r[i] = p[i]
    BY Appended
  <1>2. /\ Len(q) \in Nat /\ Len(Append(q, y)) = Len(q) + 1 /\ Last(Append(q, y)) = y
        /\ \A i \in 1..Len(q) : Append(q, y)[i] = q[i]
    BY Appended
  <1>3. r = Append(q, y)
    OBVIOUS
  <1> HIDE DEF r
  <1>4. /\ Len(r) = Len(q) + 1 /\ Last(r) = y
        /\ \A i \in 1..Len(q) : r[i] = q[i]
    BY <1>2, <1>3
  <1>5. x = y /\ Len(p) = Len(q) /\ \A i \in 1..Len(p) : p[i] = q[i]
    BY <1>1, <1>2, <1>4
  <1> QED
    BY <1>5, SeqEqual DEF Text

\* No two tags make of a name the same name but for case, though a tag of two
\* figures trims the base further than a tag of one.
LEMMA TagsApart ==
    ASSUME NEW n \in Text, NEW j \in Numbers, NEW k \in Numbers,
           Casefold(Tag(n, j)) = Casefold(Tag(n, k))
    PROVE  j = k
  <1> DEFINE b(i) == Append(Casefold(Base(n, i)), "hash")
  <1>1. \A i \in Numbers : i \in 0..99 /\ (i < 10 => i \in 0..9)
    BY NamesAssumption DEF Numbers
  <1>2. ASSUME NEW i \in Numbers
        PROVE  /\ i \in 0..99 /\ b(i) \in Text
               /\ Casefold(Tag(n, i)) = IF i < 10 THEN Append(b(i), Figure(i))
                     ELSE Append(Append(b(i), Figure(i \div 10)), Figure(i % 10))
    <2> DEFINE h == Append(Base(n, i), "hash")
    <2>1. i \in 0..99 /\ h \in Text /\ Base(n, i) \in Text
      BY TagBase
    <2>2. "hash" \in Characters
      BY DEF Characters
    <2>3. Casefold(h) = b(i) /\ b(i) \in Text
      BY <2>1, <2>2, CasefoldStep, Appended
    <2>4. CASE i < 10
      <3>1. Figure(i) \in Figures
        BY <2>1, <2>4, FigureOnce
      <3>2. Tag(n, i) = Append(h, Figure(i))
        BY <2>4, TagBase
      <3>3. Casefold(Append(h, Figure(i))) = Append(Casefold(h), Figure(i))
        BY <2>1, <3>1, CasefoldStep
      <3> HIDE DEF b, h
      <3> QED
        BY <2>1, <2>3, <2>4, <3>2, <3>3
    <2>5. CASE ~(i < 10)
      <3>1. Figure(i \div 10) \in Figures /\ Figure(i % 10) \in Figures
        BY <2>1, DigitsOf, FigureOnce
      <3>2. Tag(n, i) = Append(Append(h, Figure(i \div 10)), Figure(i % 10))
        BY <2>5, TagBase
      <3>3. Append(h, Figure(i \div 10)) \in Text
        BY <2>1, <3>1, Appended DEF Characters
      <3>4. Casefold(Append(h, Figure(i \div 10))) = Append(Casefold(h), Figure(i \div 10))
        BY <2>1, <3>1, CasefoldStep
      <3>5. Casefold(Append(Append(h, Figure(i \div 10)), Figure(i % 10)))
               = Append(Casefold(Append(h, Figure(i \div 10))), Figure(i % 10))
        BY <3>1, <3>3, CasefoldStep
      <3> HIDE DEF b, h
      <3> QED
        BY <2>1, <2>3, <2>5, <3>2, <3>4, <3>5
    <2> QED
      BY <2>1, <2>3, <2>4, <2>5
  <1> HIDE DEF b
  <1>3. \A i \in 0..9 : Figure(i) \in Characters
    BY FigureOnce DEF Characters
  <1>4. ASSUME NEW i \in Numbers, NEW l \in Numbers, i < 10, ~(l < 10)
        PROVE  Casefold(Tag(n, i)) # Casefold(Tag(n, l))
    <2> SUFFICES ASSUME Append(b(i), Figure(i))
                           = Append(Append(b(l), Figure(l \div 10)), Figure(l % 10))
                 PROVE  FALSE
      BY <1>2, <1>4
    <2>1. /\ Figure(i) \in Characters /\ Figure(l \div 10) \in Figures
          /\ Figure(l \div 10) \in Characters /\ Figure(l % 10) \in Characters
          /\ b(i) \in Text /\ b(l) \in Text
      <3>1. b(i) \in Text /\ b(l) \in Text
        BY <1>2
      <3>2. i \in 0..9 /\ l \in 0..99
        BY <1>1, <1>4
      <3>3. l \div 10 \in 0..9 /\ l % 10 \in 0..9
        BY <3>2, DigitsOf
      <3> QED
        BY <1>3, <3>1, <3>2, <3>3, FigureOnce
    <2>2. Append(b(l), Figure(l \div 10)) \in Text
      BY <2>1, Appended
    <2>3. b(i) = Append(b(l), Figure(l \div 10))
      <3> DEFINE q == Append(b(l), Figure(l \div 10))
                 x == Figure(i)
                 y == Figure(l % 10)
      <3>1. q \in Text /\ b(i) \in Text /\ x \in Characters /\ y \in Characters
        BY <2>1, <2>2
      <3>2. Append(b(i), x) = Append(q, y)
        OBVIOUS
      <3> HIDE DEF q, x, y
      <3>3. b(i) = q
        BY <3>1, <3>2, AppendedOnce
      <3> QED
        BY <3>3 DEF q
    <2>4. Base(n, i) \in Text /\ Casefold(Base(n, i)) \in Text /\ "hash" \in Characters
      BY TagBase, CasefoldStep DEF Characters
    <2>5. Last(b(i)) = "hash"
      BY <2>4, Appended DEF b
    <2>6. Last(Append(b(l), Figure(l \div 10))) = Figure(l \div 10)
      BY <2>1, Appended
    <2> QED
      BY <2>1, <2>3, <2>5, <2>6, FigureOnce
  <1>5. CASE j < 10 /\ k < 10
    <2>1. Append(b(j), Figure(j)) = Append(b(k), Figure(k))
      BY <1>2, <1>5
    <2>2. j \in 0..9 /\ k \in 0..9
      BY <1>1, <1>5
    <2>3. Figure(j) \in Characters /\ Figure(k) \in Characters /\ b(j) \in Text /\ b(k) \in Text
      BY <1>2, <1>3, <2>2
    <2>4. Figure(j) = Figure(k)
      BY <2>1, <2>3, AppendedOnce
    <2> QED
      BY <2>2, <2>4, FigureOnce
  <1>6. CASE ~(j < 10) /\ ~(k < 10)
    <2> DEFINE dj == j \div 10  mj == j % 10  dk == k \div 10  mk == k % 10
    <2>1. /\ dj \in 0..9 /\ mj \in 0..9 /\ dk \in 0..9 /\ mk \in 0..9
          /\ j = 10 * dj + mj /\ k = 10 * dk + mk
      BY <1>2, DigitsOf
    <2>2. Append(Append(b(j), Figure(dj)), Figure(mj)) = Append(Append(b(k), Figure(dk)), Figure(mk))
      BY <1>2, <1>6
    <2> HIDE DEF dj, mj, dk, mk
    <2>3. Append(b(j), Figure(dj)) \in Text /\ Append(b(k), Figure(dk)) \in Text
      BY <1>2, <1>3, <2>1, Appended
    <2>4. Append(b(j), Figure(dj)) = Append(b(k), Figure(dk)) /\ Figure(mj) = Figure(mk)
      <3>1. Figure(mj) \in Characters /\ Figure(mk) \in Characters
        BY <1>3, <2>1
      <3> QED
        BY <2>2, <2>3, <3>1, AppendedOnce
    <2>5. Figure(dj) = Figure(dk)
      BY <1>2, AppendedOnce, <1>3, <2>1, <2>4
    <2>6. dj = dk /\ mj = mk
      BY <2>1, <2>4, <2>5, FigureOnce
    <2> QED
      BY <2>1, <2>6
  <1> QED
    BY <1>4, <1>5, <1>6

-----------------------------------------------------------------------------
(* unique_name() makes presentable names.                                   *)

\* What is left of a presentable text when its end is cut off.
Plain(t) == Composed(t) /\ Spaced(t) /\ \A i \in 1..Len(t) : t[i] \notin Disallowed

\* A character of a tag spoils nothing, and a name may end in it.
LEMMA PlainGrows ==
    ASSUME NEW t \in Text, Plain(t), NEW ch \in Figures \cup {"hash"}
    PROVE  /\ Append(t, ch) \in Text /\ Plain(Append(t, ch)) /\ Append(t, ch) # <<>>
           /\ Len(Append(t, ch)) = Len(t) + 1 /\ Last(Append(t, ch)) # "space"
  <1> DEFINE r == Append(t, ch)
  <1>1. /\ ch \in Characters /\ ch # "acute" /\ ch # "tab" /\ ch # "space"
        /\ ch \notin Disallowed
    BY DEF Characters, Figures, Disallowed
  <1>2. /\ r \in Text /\ r # <<>> /\ Len(t) \in Nat /\ Len(r) = Len(t) + 1
        /\ Last(r) = ch /\ r[Len(t) + 1] = ch
        /\ \A i \in 1..Len(t) : r[i] = t[i]
    BY <1>1, Appended
  <1>3. Composed(r) /\ Spaced(r)
    BY <1>1, ComposedGrows, SpacedGrows DEF Plain
  <1> HIDE DEF r
  <1>4. \A i \in 1..Len(t) : t[i] \notin Disallowed
    BY DEF Plain
  <1>5. \A i \in 1..Len(r) : r[i] \notin Disallowed
    BY <1>1, <1>2, <1>4
  <1> QED
    BY <1>1, <1>2, <1>3, <1>5 DEF Plain, r

\* Cutting off the end of a presentable name may leave a space there, no more.
LEMMA BasePlain ==
    ASSUME NEW n \in Text, Presentable(n), NEW k \in Numbers
    PROVE  Base(n, k) \in Text /\ Plain(Base(n, k))
  <1> DEFINE b == Base(n, k)
             m == Len(b)
  <1>1. /\ b \in Text /\ m \in Nat /\ Len(n) \in Nat /\ m <= Len(n)
        /\ \A i \in 1..m : b[i] = n[i]
    BY BaseText DEF Text
  <1>2. ~Refused(n) /\ Composed(n) /\ Spaced(n)
    BY PresentableText
  <1> HIDE DEF b
  <1>3. Composed(b)
    BY <1>1, <1>2 DEF Composed
  <1>4. Spaced(b)
    BY <1>1, <1>2 DEF Spaced
  <1>5. \A i \in 1..m : b[i] \notin Disallowed
    <2>1. \A i \in 1..Len(n) : n[i] \notin Disallowed
      BY <1>2 DEF Refused, Text
    <2> QED
      BY <1>1, <2>1
  <1> QED
    BY <1>1, <1>3, <1>4, <1>5 DEF Plain, b

\* A presentable name with a tag is presentable: the space its base may end in
\* comes before the hash.
LEMMA TagPresentable ==
    ASSUME NEW n \in Text, Presentable(n), NEW k \in Numbers
    PROVE  Tag(n, k) \in Text /\ Presentable(Tag(n, k))
  <1> DEFINE b == Base(n, k)
             h == Append(b, "hash")
             r == Tag(n, k)
  <1>1. /\ b \in Text /\ Plain(b) /\ Len(b) \in Nat
        /\ Len(b) <= MaxName - (IF k < 10 THEN 2 ELSE 3)
    BY BasePlain, BaseText DEF Text
  <1>2. MaxName \in Nat /\ k \in 0..99
    BY NamesAssumption, TagBase
  <1> HIDE DEF b
  <1>3. h \in Text /\ Plain(h) /\ Len(h) = Len(b) + 1
    BY <1>1, PlainGrows
  <1>4. r = IF k < 10 THEN Append(h, Figure(k))
            ELSE Append(Append(h, Figure(k \div 10)), Figure(k % 10))
    BY TagBase DEF b
  <1> HIDE DEF h, r
  <1>5. r \in Text /\ Plain(r) /\ r # <<>> /\ Len(r) <= MaxName /\ Last(r) # "space"
    <2>1. CASE k < 10
      <3>1. Figure(k) \in Figures
        BY <1>2, <2>1, FigureOnce
      <3>2. r = Append(h, Figure(k))
        BY <1>4, <2>1
      <3>3. r \in Text /\ Plain(r) /\ r # <<>> /\ Len(r) = Len(h) + 1 /\ Last(r) # "space"
        BY <1>3, <3>1, <3>2, PlainGrows
      <3> QED
        BY <1>1, <1>2, <1>3, <2>1, <3>3
    <2>2. CASE ~(k < 10)
      <3> DEFINE x == Figure(k \div 10)
                 y == Figure(k % 10)
                 q == Append(h, x)
      <3>1. x \in Figures /\ y \in Figures
        BY <1>2, DigitsOf, FigureOnce
      <3>2. r = Append(q, y)
        BY <1>4, <2>2
      <3> HIDE DEF x, y
      <3>3. q \in Text /\ Plain(q) /\ Len(q) = Len(h) + 1
        BY <1>3, <3>1, PlainGrows
      <3> HIDE DEF q
      <3>4. r \in Text /\ Plain(r) /\ r # <<>> /\ Len(r) = Len(q) + 1 /\ Last(r) # "space"
        BY <3>1, <3>2, <3>3, PlainGrows
      <3> QED
        BY <1>1, <1>2, <1>3, <2>2, <3>3, <3>4
    <2> QED
      BY <2>1, <2>2
  <1>6. ~Refused(r)
    <2>1. Len(r) \in Nat /\ DOMAIN r = 1..Len(r)
      BY <1>5 DEF Text
    <2> QED
      BY <1>2, <1>5, <2>1 DEF Refused, Plain
  <1>7. r # NoName
    BY <1>5 DEF NoName
  <1>8. Presentable(r)
    BY <1>5, <1>6, <1>7, PresentableText DEF Plain
  <1> QED
    BY <1>5, <1>8 DEF r

\* What unique_name() makes of a name: itself, a tagged one or the fallback, the
\* first two free.
LEMMA UniqueNameGives ==
    ASSUME NEW n
    PROVE  \/ UniqueName(n) = n /\ Casefold(n) \notin Taken
           \/ \E k \in Numbers : UniqueName(n) = Tag(n, k) /\ Casefold(Tag(n, k)) \notin Taken
           \/ /\ UniqueName(n) = Fallback /\ Casefold(n) \in Taken
              /\ \A k \in Numbers : Casefold(Tag(n, k)) \in Taken
  <1> DEFINE free == {k \in Numbers : Casefold(Tag(n, k)) \notin Taken}
  <1>1. CASE Casefold(n) \notin Taken
    BY <1>1 DEF UniqueName
  <1>2. CASE Casefold(n) \in Taken /\ free # {}
    <2>1. free \in SUBSET Nat
      BY NamesAssumption DEF Numbers
    <2>2. UniqueName(n) = Tag(n, Min(free))
      BY <1>2 DEF UniqueName
    <2> HIDE DEF free
    <2>3. Min(free) \in free
      BY <1>2, <2>1, MinIn
    <2> QED
      BY <2>2, <2>3 DEF free
  <1>3. CASE Casefold(n) \in Taken /\ free = {}
    BY <1>3 DEF UniqueName
  <1> QED
    BY <1>1, <1>2, <1>3

\* unique_name() makes a presentable name of one.
LEMMA UniqueNameText ==
    \A n \in Text : Presentable(n) =>
        UniqueName(n) \in {s \in Text : Presentable(s)} \cup {Fallback}
  BY UniqueNameGives, TagPresentable

\* A fallback is like no other name.
LEMMA FallbackApart ==
    /\ Fallback \notin Text /\ Fallback # NoName
    /\ Casefold(Fallback) = Fallback
    /\ \A s \in Text : Casefold(s) # Casefold(Fallback)
  <1>1. Fallback \notin Text
    BY FallbackText
  <1>2. Casefold(Fallback) = Fallback
    BY DEF Casefold
  <1>3. Fallback # NoName
    BY DEF Fallback, NoName
  <1> QED
    BY <1>1, <1>2, <1>3, CasefoldStep

-----------------------------------------------------------------------------
(* The invariant.                                                           *)

\* A user with our client has in the settings a name that can be shown.
Accepted == \A u \in Users \ Foreign : stage[u] # "form" => Presentable(settings[u])

\* Members alike but for case have no name of their own.
AlikeOnlyFallbacks ==
    \A u, v \in Members :
        u # v /\ Casefold(name[u]) = Casefold(name[v]) => name[u] = Fallback /\ name[v] = Fallback

\* Inductive: Accepted gives AsAccepted, and there are always finitely many members.
Inv == TypeOK /\ Accepted /\ AsAccepted /\ AlikeOnlyFallbacks /\ IsFiniteSet(Members)

\* Nobody has a name at first.
LEMMA InitInv == Init => Inv
  <1> SUFFICES ASSUME Init PROVE Inv
    OBVIOUS
  <1>1. NoName \in Text
    BY DEF NoName, Text
  <1>2. Members = {} /\ IsFiniteSet({})
    BY FS_EmptySet DEF Init, Members
  <1>3. TypeOK
    BY <1>1, <1>2 DEF Init, TypeOK
  <1>4. Accepted /\ AsAccepted /\ AlikeOnlyFallbacks
    BY <1>2 DEF Init, Accepted, AsAccepted, AlikeOnlyFallbacks
  <1> QED
    BY <1>2, <1>3, <1>4 DEF Inv

\* Our client and the server change nothing more of a name the form accepted.
LEMMA SentAsAccepted ==
    ASSUME TypeOK, Accepted, NEW u \in Users, stage[u] # "form"
    PROVE  /\ Sent(u) \in Text /\ Display(u) \in Text
           /\ Display(u) # NoName => Presentable(Display(u))
           /\ u \notin Foreign => Sent(u) = settings[u] /\ Display(u) = settings[u]
  <1>1. settings[u] \in Text
    BY DEF TypeOK
  <1>2. u \notin Foreign => Sent(u) = settings[u] /\ Display(u) = settings[u]
    BY <1>1, NormalizeSame DEF Accepted, Sent, Display
  <1>3. Sent(u) \in Text
    BY <1>1, NormalizePresents DEF Sent
  <1> QED
    BY <1>2, <1>3, NormalizePresents DEF Display

\* The form takes only what it can show.
LEMMA SubmitInv ==
    ASSUME Inv, NEW u \in Users, Submit(u)
    PROVE  Inv'
  <1>1. PICK raw \in Typed[u] :
           /\ u \in Foreign \/ Normalize(raw) # NoName
           /\ settings' = [settings EXCEPT ![u] = IF u \in Foreign THEN raw ELSE Normalize(raw)]
    BY DEF Submit
  <1> DEFINE x == IF u \in Foreign THEN raw ELSE Normalize(raw)
  <1>2. /\ stage[u] = "form" /\ stage' = [stage EXCEPT ![u] = "calling"] /\ name' = name
        /\ settings' = [settings EXCEPT ![u] = x]
        /\ stage \in [Users -> {"form", "calling", "member", "broken"}]
        /\ settings \in [Users -> Text]
    BY <1>1 DEF Submit, Goto, Inv, TypeOK
  <1>3. x \in Text /\ (u \notin Foreign => x # NoName /\ Presentable(x))
    <2>1. raw \in Text
      BY NamesAssumption
    <2> QED
      BY <1>1, <2>1, NormalizePresents
  <1> HIDE DEF x
  <1>4. Members' = Members /\ u \notin Members
    BY <1>2 DEF Members
  <1>5. TypeOK'
    <2>1. /\ stage' \in [Users -> {"form", "calling", "member", "broken"}]
          /\ settings' \in [Users -> Text]
          /\ name' \in [Users -> Text \cup {Fallback}]
      BY <1>2, <1>3 DEF Inv, TypeOK
    <2>2. \A v \in Users \ Foreign : (settings'[v] = NoName) <=> (stage'[v] = "form")
      BY <1>2, <1>3 DEF Inv, TypeOK
    <2>3. \A v \in Members' : Presentable(name'[v]) \/ name'[v] = Fallback
      BY <1>2, <1>4 DEF Inv, TypeOK
    <2> QED
      BY <2>1, <2>2, <2>3 DEF TypeOK
  <1>6. Accepted'
    BY <1>2, <1>3 DEF Inv, Accepted
  <1>7. AsAccepted'
    BY <1>2 DEF Inv, AsAccepted
  <1>8. AlikeOnlyFallbacks'
    BY <1>2, <1>4 DEF Inv, AlikeOnlyFallbacks
  <1> QED
    BY <1>4, <1>5, <1>6, <1>7, <1>8 DEF Inv

\* Only a foreign client breaks: ours sends what normalize_name() leaves alone.
LEMMA BreakInv ==
    ASSUME Inv, NEW u \in Users, Break(u)
    PROVE  Inv'
  <1>1. /\ stage[u] = "calling" /\ stage' = [stage EXCEPT ![u] = "broken"]
        /\ name' = name /\ settings' = settings /\ NoName \in {Sent(u), Display(u)}
        /\ stage \in [Users -> {"form", "calling", "member", "broken"}]
    BY DEF Break, Goto, Inv, TypeOK
  <1>2. u \in Foreign
    <2> SUFFICES ASSUME u \notin Foreign PROVE FALSE
      OBVIOUS
    <2>1. Sent(u) = settings[u] /\ Display(u) = settings[u]
      BY <1>1, SentAsAccepted DEF Inv
    <2>2. settings[u] # NoName
      BY <1>1 DEF Inv, TypeOK
    <2> QED
      BY <1>1, <2>1, <2>2
  <1>3. Members' = Members
    BY <1>1 DEF Members
  <1>4. TypeOK'
    BY <1>1, <1>2, <1>3 DEF Inv, TypeOK
  <1>5. Accepted' /\ AsAccepted'
    BY <1>1, <1>2 DEF Inv, Accepted, AsAccepted
  <1>6. AlikeOnlyFallbacks'
    BY <1>1, <1>3 DEF Inv, AlikeOnlyFallbacks
  <1> QED
    BY <1>3, <1>4, <1>5, <1>6 DEF Inv

\* The name given is not taken, unless it is a fallback.
LEMMA JoinInv ==
    ASSUME Inv, NEW u \in Users, Join(u)
    PROVE  Inv'
  <1> DEFINE x == UniqueName(Display(u))
  <1>1. /\ stage[u] = "calling" /\ stage' = [stage EXCEPT ![u] = "member"]
        /\ name' = [name EXCEPT ![u] = x] /\ settings' = settings
        /\ NoName \notin {Sent(u), Display(u)}
        /\ stage \in [Users -> {"form", "calling", "member", "broken"}]
        /\ name \in [Users -> Text \cup {Fallback}]
    BY DEF Join, Goto, Inv, TypeOK
  <1>2. /\ Display(u) \in Text /\ Presentable(Display(u))
        /\ u \notin Foreign => Display(u) = settings[u]
    BY <1>1, SentAsAccepted DEF Inv
  <1>3. x \in Text \cup {Fallback} /\ (x = Fallback \/ Presentable(x))
    BY <1>2, UniqueNameText
  <1>4. x \in {Display(u), Fallback} \cup {Tag(Display(u), k) : k \in Numbers}
    BY UniqueNameGives
  <1>5. x # Fallback => Casefold(x) \notin Taken
    BY UniqueNameGives
  <1> HIDE DEF x
  <1>6. Members' = Members \cup {u} /\ u \notin Members
    BY <1>1 DEF Members
  <1>7. TypeOK'
    <2>1. /\ stage' \in [Users -> {"form", "calling", "member", "broken"}]
          /\ settings' \in [Users -> Text]
          /\ name' \in [Users -> Text \cup {Fallback}]
      BY <1>1, <1>3 DEF Inv, TypeOK
    <2>2. \A v \in Users \ Foreign : (settings'[v] = NoName) <=> (stage'[v] = "form")
      BY <1>1 DEF Inv, TypeOK
    <2>3. \A v \in Members' : Presentable(name'[v]) \/ name'[v] = Fallback
      BY <1>1, <1>3, <1>6 DEF Inv, TypeOK
    <2> QED
      BY <2>1, <2>2, <2>3 DEF TypeOK
  <1>8. Accepted'
    BY <1>1 DEF Inv, Accepted
  <1>9. AsAccepted'
    <2> SUFFICES ASSUME NEW v \in Users \ Foreign
                 PROVE  /\ stage'[v] # "broken"
                        /\ stage'[v] = "member" =>
                              name'[v] \in {settings[v], Fallback}
                                             \cup {Tag(settings[v], k) : k \in Numbers}
      BY <1>1 DEF AsAccepted
    <2>1. CASE v = u
      BY <1>1, <1>2, <1>4, <2>1
    <2>2. CASE v # u
      BY <1>1, <2>2 DEF Inv, AsAccepted
    <2> QED
      BY <2>1, <2>2
  <1>10. AlikeOnlyFallbacks'
    <2>1. ASSUME NEW v \in Members, Casefold(x) = Casefold(name[v])
          PROVE  x = Fallback /\ name[v] = Fallback
      <3>1. Casefold(name[v]) \in Taken /\ name[v] \in Text \cup {Fallback}
        BY <1>1 DEF Taken, Members
      <3>2. x = Fallback
        BY <1>5, <2>1, <3>1
      <3> QED
        BY <2>1, <3>1, <3>2, FallbackApart
    <2> SUFFICES ASSUME NEW v \in Members', NEW w \in Members', v # w,
                        Casefold(name'[v]) = Casefold(name'[w])
                 PROVE  name'[v] = Fallback /\ name'[w] = Fallback
      BY DEF AlikeOnlyFallbacks
    <2>2. name'[u] = x /\ \A z \in Members : name'[z] = name[z]
      BY <1>1, <1>6 DEF Members
    <2>3. CASE v = u
      BY <1>6, <2>1, <2>2, <2>3
    <2>4. CASE w = u
      BY <1>6, <2>1, <2>2, <2>4
    <2>5. CASE v # u /\ w # u
      BY <1>6, <2>2, <2>5 DEF Inv, AlikeOnlyFallbacks
    <2> QED
      BY <2>3, <2>4, <2>5
  <1>11. IsFiniteSet(Members)'
    BY <1>6, FS_AddElement DEF Inv
  <1> QED
    BY <1>7, <1>8, <1>9, <1>10, <1>11 DEF Inv

\* A member that leaves frees its name.
LEMMA LeaveInv ==
    ASSUME Inv, NEW u \in Users, Leave(u)
    PROVE  Inv'
  <1>1. /\ stage[u] \in {"member", "broken"} /\ name' = [name EXCEPT ![u] = NoName]
        /\ \/ /\ stage' = [stage EXCEPT ![u] = "form"]
              /\ settings' = [settings EXCEPT ![u] = NoName]
           \/ stage' = [stage EXCEPT ![u] = "calling"] /\ settings' = settings
        /\ stage \in [Users -> {"form", "calling", "member", "broken"}]
        /\ settings \in [Users -> Text] /\ name \in [Users -> Text \cup {Fallback}]
    BY DEF Leave, Goto, Inv, TypeOK
  <1>2. Members' = Members \ {u} /\ \A v \in Members' : name'[v] = name[v]
    BY <1>1 DEF Members
  <1>3. NoName \in Text
    BY DEF NoName, Text
  <1>4. TypeOK'
    <2>1. /\ stage' \in [Users -> {"form", "calling", "member", "broken"}]
          /\ settings' \in [Users -> Text]
          /\ name' \in [Users -> Text \cup {Fallback}]
      BY <1>1, <1>3
    <2>2. \A v \in Users \ Foreign : (settings'[v] = NoName) <=> (stage'[v] = "form")
      BY <1>1 DEF Inv, TypeOK
    <2>3. \A v \in Members' : Presentable(name'[v]) \/ name'[v] = Fallback
      BY <1>2 DEF Inv, TypeOK
    <2> QED
      BY <2>1, <2>2, <2>3 DEF TypeOK
  <1>5. Accepted'
    BY <1>1 DEF Inv, Accepted
  <1>6. AsAccepted'
    BY <1>1 DEF Inv, AsAccepted
  <1>7. AlikeOnlyFallbacks'
    BY <1>2 DEF Inv, AlikeOnlyFallbacks
  <1>8. IsFiniteSet(Members)'
    BY <1>2, FS_RemoveElement DEF Inv
  <1> QED
    BY <1>4, <1>5, <1>6, <1>7, <1>8 DEF Inv

\* Every step keeps the invariant.
LEMMA NextInv == Inv /\ [Next]_vars => Inv'
  <1> SUFFICES ASSUME Inv, [Next]_vars PROVE Inv'
    OBVIOUS
  <1>1. ASSUME NEW u \in Users, Submit(u) \/ Break(u) \/ Join(u) \/ Leave(u) PROVE Inv'
    BY <1>1, SubmitInv, BreakInv, JoinInv, LeaveInv
  <1>2. CASE UNCHANGED vars
    BY <1>2 DEF vars, Inv, TypeOK, Accepted, AsAccepted, AlikeOnlyFallbacks, Members
  <1> QED
    BY <1>1, <1>2 DEF Next

\* The names are typed, presentable, as the form accepted them and different.
THEOREM Invariant == Spec => []Inv
  BY InitInv, NextInv, PTL DEF Spec

\* Whatever anybody types, a roster has only presentable names and fallbacks.
THEOREM TypeCorrect == Spec => []TypeOK
  <1>1. Inv => TypeOK
    BY DEF Inv
  <1> QED
    BY <1>1, Invariant, PTL

\* normalize_name() agrees with itself at its three callers: a member is called
\* what its form accepted, but for a tag, and is never refused for its name.
THEOREM NamesAsAccepted == Spec => []AsAccepted
  <1>1. Inv => AsAccepted
    BY DEF Inv
  <1> QED
    BY <1>1, Invariant, PTL

\* Members alike but for case are both called `user-xxxxxx`, even in a room of
\* more members than its capacity.
THEOREM MembersAlike == Spec => []AlikeOnlyFallbacks
  <1>1. Inv => AlikeOnlyFallbacks
    BY DEF Inv
  <1> QED
    BY <1>1, Invariant, PTL

-----------------------------------------------------------------------------
(* The tags suffice.                                                        *)

\* Each member takes one tag of a name at most, so all are taken only in a room
\* of more members than the capacity.
LEMMA AllTagsTaken ==
    ASSUME Inv, NEW n \in Text, \A k \in Numbers : Casefold(Tag(n, k)) \in Taken
    PROVE  Cardinality(Members) > MaxClients
  <1> SUFFICES ASSUME ~(Cardinality(Members) > MaxClients) PROVE FALSE
    OBVIOUS
  <1>1. IsFiniteSet(Members) /\ Cardinality(Members) \in Nat
    BY FS_CardinalityType DEF Inv
  <1>2. IsFiniteSet(Numbers) /\ Cardinality(Numbers) = MaxClients + 1
    <2>1. MaxClients \in Nat /\ 2 \in Int /\ MaxClients + 2 \in Int
      BY NamesAssumption
    <2>2. IsFiniteSet(2..(MaxClients + 2))
          /\ Cardinality(2..(MaxClients + 2)) = MaxClients + 2 - 2 + 1
      BY <2>1, FS_Interval
    <2> QED
      BY <2>1, <2>2 DEF Numbers
  <1> DEFINE holder == [k \in Numbers |->
                 CHOOSE u \in Members : Casefold(Tag(n, k)) = Casefold(name[u])]
  <1>3. ASSUME NEW k \in Numbers
        PROVE  holder[k] \in Members /\ Casefold(Tag(n, k)) = Casefold(name[holder[k]])
    <2>1. \E u \in Members : Casefold(Tag(n, k)) = Casefold(name[u])
      BY DEF Taken
    <2> QED
      BY <2>1
  <1>4. holder \in [Numbers -> Members]
    BY <1>3
  <1> HIDE DEF holder
  <1>5. Cardinality(Members) < Cardinality(Numbers)
    BY <1>1, <1>2, NamesAssumption
  <1>6. \E j, k \in Numbers : j # k /\ holder[j] = holder[k]
    BY <1>1, <1>2, <1>4, <1>5, FS_PigeonHole
  <1>7. PICK j \in Numbers, k \in Numbers : j # k /\ holder[j] = holder[k]
    BY <1>6
  <1>8. Casefold(Tag(n, j)) = Casefold(Tag(n, k))
    BY <1>3, <1>7
  <1> QED
    BY <1>7, <1>8, TagsApart

\* A user is called user-xxxxxx only by joining a room of more members than the
\* capacity.
FallbackOnlyWhenFull ==
    \A u \in Users :
        name[u] # Fallback /\ name'[u] = Fallback =>
            u \notin Members /\ Cardinality(Members) > MaxClients

\* Join alone gives a fallback, and only when every tag is taken.
LEMMA StepFallback == Inv /\ [Next]_vars => FallbackOnlyWhenFull
  <1> SUFFICES ASSUME Inv, [Next]_vars, NEW u \in Users, name[u] # Fallback, name'[u] = Fallback
               PROVE  u \notin Members /\ Cardinality(Members) > MaxClients
    BY DEF FallbackOnlyWhenFull
  <1>1. PICK v \in Users : Submit(v) \/ Break(v) \/ Join(v) \/ Leave(v)
    BY DEF Next, vars
  <1>2. name \in [Users -> Text \cup {Fallback}]
    BY DEF Inv, TypeOK
  <1>3. ~Submit(v) /\ ~Break(v)
    BY DEF Submit, Break
  <1>4. ~Leave(v)
    BY <1>2, FallbackApart DEF Leave
  <1>5. /\ name' = [name EXCEPT ![v] = UniqueName(Display(v))]
        /\ stage[v] = "calling" /\ NoName \notin {Sent(v), Display(v)}
    BY <1>1, <1>3, <1>4 DEF Join
  <1>6. UniqueName(Display(v)) = Fallback
    BY <1>2, <1>5
  <1>7. Display(v) \in Text /\ Presentable(Display(v))
    BY <1>5, SentAsAccepted DEF Inv
  <1>8. \A k \in Numbers : Tag(Display(v), k) # Fallback
    BY <1>7, TagPresentable, FallbackApart
  <1>9. \A k \in Numbers : Casefold(Tag(Display(v), k)) \in Taken
    BY <1>6, <1>7, <1>8, UniqueNameGives, FallbackApart
  <1>10. u = v
    BY <1>2, <1>5
  <1> QED
    BY <1>5, <1>7, <1>9, <1>10, AllTagsTaken DEF Members

\* A fallback is given only to one who joins a room already over its capacity.
THEOREM FallbackWhenFull == Spec => [][FallbackOnlyWhenFull]_vars
  BY Invariant, StepFallback, PTL DEF Spec

\* With one user more than the capacity, nobody is called `user-xxxxxx`.
LEMMA NoFallback ==
    ASSUME IsFiniteSet(Users), Cardinality(Users) <= MaxClients + 1
    PROVE  Spec => [](\A u \in Users : name[u] # Fallback)
  <1> DEFINE None == \A u \in Users : name[u] # Fallback
  <1>1. Init => None
    BY FallbackApart DEF Init
  <1>2. Inv /\ None /\ [Next]_vars => None'
    <2> SUFFICES ASSUME Inv, None, [Next]_vars, NEW u \in Users, name'[u] = Fallback
                 PROVE  FALSE
      OBVIOUS
    <2>1. u \notin Members /\ Cardinality(Members) > MaxClients
      BY StepFallback DEF FallbackOnlyWhenFull
    <2>2. IsFiniteSet(Users \ {u}) /\ Cardinality(Users \ {u}) = Cardinality(Users) - 1
      BY FS_RemoveElement
    <2>3. Members \in SUBSET (Users \ {u})
      BY <2>1 DEF Members
    <2>4. /\ Cardinality(Members) <= Cardinality(Users \ {u})
          /\ Cardinality(Members) \in Nat /\ Cardinality(Users) \in Nat
      BY <2>2, <2>3, FS_Subset, FS_CardinalityType
    <2> QED
      BY <2>1, <2>2, <2>4, NamesAssumption
  <1> QED
    BY <1>1, <1>2, Invariant, PTL DEF Spec

\* With one user more than the capacity the tags suffice.
THEOREM TagsDoSuffice ==
    ASSUME IsFiniteSet(Users), Cardinality(Users) <= MaxClients + 1
    PROVE  Spec => []TagsSuffice
  <1>1. (\A u \in Users : name[u] # Fallback) => TagsSuffice
    BY DEF TagsSuffice, Members
  <1>2. Spec => [](\A u \in Users : name[u] # Fallback)
    BY NoFallback
  <1> QED
    BY <1>1, <1>2, PTL

\* With one user more than the capacity no two members are alike but for case.
THEOREM NamesAreDistinct ==
    ASSUME IsFiniteSet(Users), Cardinality(Users) <= MaxClients + 1
    PROVE  Spec => []NamesDistinct
  <1>1. AlikeOnlyFallbacks /\ (\A u \in Users : name[u] # Fallback) => NamesDistinct
    BY DEF AlikeOnlyFallbacks, NamesDistinct, Members
  <1>2. Spec => [](\A u \in Users : name[u] # Fallback)
    BY NoFallback
  <1> QED
    BY <1>1, <1>2, MembersAlike, PTL
=============================================================================
