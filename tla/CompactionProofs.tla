-------------------------- MODULE CompactionProofs --------------------------
(***************************************************************************)
(* What a session's context keeps through any number of compactions, for   *)
(* contexts of any size and texts of any lines: the plans of every round   *)
(* are as good as the first, the failures and the errors that a reducer    *)
(* may not lose are never lost, and the expected tokens are met.           *)
(***************************************************************************)
EXTENDS Compaction, PlannerProofs

-----------------------------------------------------------------------------
(* Places.                                                                 *)

(* The places of a set are numbered: Nth is one-to-one between the numbers *)
(* up to the size of the set and the set.                                  *)
LEMMA NthPlace ==
  ASSUME NEW S, IsFiniteSet(S), S \subseteq Int
  PROVE  /\ \A n \in 1..Cardinality(S) :
              Nth(S, n) \in S /\ Cardinality({j \in S : j <= Nth(S, n)}) = n
         /\ \A i \in S : \E n \in 1..Cardinality(S) : Nth(S, n) = i
<1> DEFINE Upto(i) == {j \in S : j <= i}
           place == [i \in S |-> Cardinality(Upto(i))]
           size == Cardinality(S)
<1>1. size \in Nat
  BY FS_CardinalityType
<1>2. \A i \in S : IsFiniteSet(Upto(i)) /\ Cardinality(Upto(i)) \in 1..size
  <2> SUFFICES ASSUME NEW i \in S
               PROVE  IsFiniteSet(Upto(i)) /\ Cardinality(Upto(i)) \in 1..size
    OBVIOUS
  <2>1. Upto(i) \in SUBSET S /\ Upto(i) # {}
    OBVIOUS
  <2> HIDE DEF Upto
  <2>2. IsFiniteSet(Upto(i)) /\ Cardinality(Upto(i)) <= size
    BY <2>1, FS_Subset
  <2>3. Cardinality(Upto(i)) \in Nat /\ Cardinality(Upto(i)) # 0
    BY <2>1, <2>2, FS_CardinalityType, FS_EmptySet
  <2> QED
    BY <1>1, <2>2, <2>3
<1>3. ASSUME NEW i \in S, NEW k \in S, i < k
      PROVE  place[i] # place[k]
  <2>1. Upto(i) \in SUBSET Upto(k) /\ k \in Upto(k) /\ k \notin Upto(i)
    <3>1. i \in Int /\ k \in Int /\ \A j \in S : j \in Int
      OBVIOUS
    <3>2. \A j \in S : j <= i => j <= k
      BY <1>3, <3>1
    <3>3. k <= k /\ ~(k <= i)
      BY <1>3, <3>1
    <3> QED
      BY <3>2, <3>3
  <2>2. Upto(i) # Upto(k)
    BY <2>1
  <2>3. IsFiniteSet(Upto(k))
    BY <1>2
  <2> HIDE DEF Upto
  <2>4. Cardinality(Upto(i)) # Cardinality(Upto(k))
    BY <2>1, <2>2, <2>3, FS_Subset
  <2> QED
    BY <2>4
<1>4. place \in Injection(S, 1..size)
  <2>1. place \in [S -> 1..size]
    BY <1>2
  <2>2. \A i, k \in S : place[i] = place[k] => i = k
    <3> HIDE DEF place
    <3> QED
      BY <1>3
  <2> HIDE DEF place, size
  <2> QED
    BY <2>1, <2>2 DEF Injection, IsInjective
<1>5. IsFiniteSet(1..size) /\ Cardinality(1..size) = size
  BY <1>1, FS_Interval
<1>6. place \in Surjection(S, 1..size)
  <2> HIDE DEF place
  <2> QED
    BY <1>4, <1>5, FS_Injection
<1>7. \A n \in 1..size : \E i \in S : place[i] = n
  <2> HIDE DEF place, size
  <2> QED
    BY <1>6 DEF Surjection
<1>8. \A n \in 1..size : Nth(S, n) \in S /\ Cardinality(Upto(Nth(S, n))) = n
  <2> SUFFICES ASSUME NEW n \in 1..size
               PROVE  Nth(S, n) \in S /\ Cardinality(Upto(Nth(S, n))) = n
    OBVIOUS
  <2>1. \E i \in S : Cardinality({j \in S : j <= i}) = n
    BY <1>7
  <2> QED
    BY <2>1 DEF Nth
<1>9. ASSUME NEW i \in S
      PROVE  \E n \in 1..size : Nth(S, n) = i
  <2> DEFINE n == place[i]
             k == Nth(S, n)
  <2>1. n \in 1..size
    BY <1>2
  <2>2. k \in S /\ Cardinality(Upto(k)) = n
    BY <1>8, <2>1
  <2>3. place[k] = place[i]
    BY <2>2
  <2> HIDE DEF place, k
  <2>4. k = i
    BY <1>4, <2>2, <2>3 DEF Injection, IsInjective
  <2> QED
    BY <2>1, <2>4 DEF k
<1> QED
  BY <1>8, <1>9

LEMMA NthBijection ==
  ASSUME NEW S, IsFiniteSet(S), S \subseteq Int
  PROVE  [n \in 1..Cardinality(S) |-> Nth(S, n)] \in Bijection(1..Cardinality(S), S)
<1> DEFINE f == [n \in 1..Cardinality(S) |-> Nth(S, n)]
<1>1. \A n \in 1..Cardinality(S) : f[n] \in S
  BY NthPlace
<1>2. \A n, m \in 1..Cardinality(S) : f[n] = f[m] => n = m
  <2> SUFFICES ASSUME NEW n \in 1..Cardinality(S), NEW m \in 1..Cardinality(S),
                      Nth(S, n) = Nth(S, m)
               PROVE  n = m
    OBVIOUS
  <2>1. /\ Cardinality({j \in S : j <= Nth(S, n)}) = n
        /\ Cardinality({j \in S : j <= Nth(S, m)}) = m
    BY NthPlace
  <2> QED
    BY <2>1
<1>3. \A i \in S : \E n \in 1..Cardinality(S) : f[n] = i
  BY NthPlace
<1> QED
  BY <1>1, <1>2, <1>3 DEF Bijection, Injection, Surjection, IsInjective

-----------------------------------------------------------------------------
(* Texts.                                                                  *)

LEMMA TextType ==
  ASSUME NEW text \in LineTexts
  PROVE  /\ Len(text) \in Nat /\ DOMAIN text = 1..Len(text)
         /\ \A i \in 1..Len(text) : text[i] \in Line
         /\ IsFiniteSet(DOMAIN text) /\ DOMAIN text \subseteq Int
<1>1. /\ Len(text) \in Nat /\ DOMAIN text = 1..Len(text)
      /\ \A i \in 1..Len(text) : text[i] \in Line
  BY DEF LineTexts
<1> QED
  BY <1>1, FS_Interval

(* Picking lines of a text makes no new ones and no more of them.          *)
LEMMA PickedLines ==
  ASSUME NEW text \in LineTexts, NEW places \in SUBSET (DOMAIN text)
  PROVE  /\ IsFiniteSet(places) /\ Cardinality(places) \in Nat
         /\ Picked(text, places) \in LineTexts
         /\ Len(Picked(text, places)) = Cardinality(places)
         /\ Cardinality(places) <= Len(text)
         /\ Range(Picked(text, places)) = {text[i] : i \in places}
<1> DEFINE picked == Picked(text, places)
           size == Cardinality(places)
<1>1. /\ Len(text) \in Nat /\ DOMAIN text = 1..Len(text)
      /\ \A i \in 1..Len(text) : text[i] \in Line
      /\ IsFiniteSet(DOMAIN text) /\ DOMAIN text \subseteq Int
  BY TextType
<1>2. IsFiniteSet(places) /\ size \in Nat /\ size <= Len(text)
  <2>1. IsFiniteSet(places) /\ size <= Cardinality(DOMAIN text)
    BY <1>1, FS_Subset
  <2>2. Cardinality(DOMAIN text) = Len(text)
    BY <1>1, FS_Interval
  <2> QED
    BY <2>1, <2>2, FS_CardinalityType
<1>3. /\ \A n \in 1..size : Nth(places, n) \in places
      /\ \A i \in places : \E n \in 1..size : Nth(places, n) = i
  BY <1>1, <1>2, NthPlace
<1>4. picked = [n \in 1..size |-> text[Nth(places, n)]]
  BY DEF Picked
<1> HIDE DEF picked, size
<1>5. picked \in Seq(Line) /\ Len(picked) = size
  <2>1. \A n \in 1..size : text[Nth(places, n)] \in Line
    BY <1>1, <1>3
  <2> QED
    BY <1>2, <1>4, <2>1
<1>6. Range(picked) = {text[i] : i \in places}
  <2>1. Range(picked) = {text[Nth(places, n)] : n \in 1..size}
    BY <1>4 DEF Range
  <2> QED
    BY <1>3, <2>1
<1> QED
  BY <1>2, <1>5, <1>6 DEF picked, size, LineTexts

(* A pattern is found in no more of the lines that are picked.             *)
LEMMA PickedMatches ==
  ASSUME NEW text \in LineTexts, NEW places \in SUBSET (DOMAIN text),
         NEW found \in SUBSET (DOMAIN text),
         NEW picked \in SUBSET (1..Cardinality(places)),
         \A n \in picked : Nth(places, n) \in found
  PROVE  Cardinality(picked) <= Cardinality(found)
<1> DEFINE f == [n \in picked |-> Nth(places, n)]
<1>1. IsFiniteSet(places) /\ IsFiniteSet(found) /\ places \subseteq Int
  BY TextType, PickedLines
<1>2. f \in Injection(picked, found)
  <2>1. \A n, m \in picked : f[n] = f[m] => n = m
    <3> SUFFICES ASSUME NEW n \in picked, NEW m \in picked, Nth(places, n) = Nth(places, m)
                 PROVE  n = m
      OBVIOUS
    <3>1. /\ Cardinality({j \in places : j <= Nth(places, n)}) = n
          /\ Cardinality({j \in places : j <= Nth(places, m)}) = m
      BY <1>1, NthPlace
    <3> QED
      BY <3>1
  <2>2. f \in [picked -> found]
    OBVIOUS
  <2> HIDE DEF f
  <2> QED
    BY <2>1, <2>2 DEF Injection, IsInjective
<1> HIDE DEF f
<1> QED
  BY <1>1, <1>2, FS_Injection

(* Leaving repeats out makes a text no longer and loses none of its lines. *)
LEMMA RepeatsLeftOut ==
  ASSUME NEW text \in LineTexts
  PROVE  /\ WithoutRepeats(text) \in LineTexts
         /\ Len(WithoutRepeats(text)) <= Len(text)
         /\ Range(WithoutRepeats(text)) = Range(text)
<1> DEFINE firsts == {i \in DOMAIN text : i > 1 => text[i] # text[i - 1]}
<1>1. Len(text) \in Nat /\ DOMAIN text = 1..Len(text)
  BY TextType
<1>2. /\ WithoutRepeats(text) \in LineTexts
      /\ Len(WithoutRepeats(text)) <= Len(text)
      /\ Range(WithoutRepeats(text)) = {text[i] : i \in firsts}
  BY PickedLines DEF WithoutRepeats
<1>3. ASSUME NEW i \in DOMAIN text
      PROVE  \E k \in firsts : text[k] = text[i]
  <2> DEFINE same == {k \in DOMAIN text : text[k] = text[i]}
  <2>1. same \subseteq Nat /\ same # {}
    BY <1>1, <1>3
  <2>2. PICK k \in same : \A m \in same : <<m, k>> \notin OpToRel(<, Nat)
    <3> HIDE DEF same
    <3> QED
      BY <2>1, NatLessThanWellFounded, WFMin
  <2>3. \A m \in same : ~(m < k)
    <3> HIDE DEF same
    <3> QED
      BY <2>1, <2>2 DEF OpToRel
  <2>4. k > 1 => text[k - 1] # text[k]
    <3> SUFFICES ASSUME k > 1, text[k - 1] = text[k] PROVE FALSE
      OBVIOUS
    <3>1. k - 1 \in DOMAIN text /\ k - 1 < k
      BY <1>1
    <3> QED
      BY <2>3, <3>1
  <2> QED
    BY <2>4
<1>4. Range(text) = {text[i] : i \in firsts}
  BY <1>3 DEF Range
<1> QED
  BY <1>2, <1>4

LEMMA FirstLines ==
  ASSUME NEW text \in LineTexts, NEW n \in Nat
  PROVE  /\ First(text, n) \in LineTexts
         /\ Len(text) <= n => First(text, n) = text
<1>1. Len(text) \in Nat /\ text \in Seq(Line)
  BY DEF LineTexts
<1> QED
  BY <1>1 DEF First, LineTexts

LEMMA LastLines ==
  ASSUME NEW text \in LineTexts, NEW n \in Nat
  PROVE  LastOnes(text, n) \in LineTexts
<1>1. Len(text) \in Nat /\ text \in Seq(Line)
  BY DEF LineTexts
<1> QED
  BY <1>1 DEF LastOnes, LineTexts

LEMMA IndentedLines ==
  ASSUME NEW text \in LineTexts
  PROVE  Indented(text) \in LineTexts /\ Names(Indented(text)) = Names(text)
<1>1. /\ Len(text) \in Nat /\ DOMAIN text = 1..Len(text)
      /\ \A i \in 1..Len(text) : text[i] \in Line
  BY TextType
<1>2. \A i \in 1..Len(text) :
        LET line == [text[i] EXCEPT !.indent = @ + 1]
        IN line \in Line /\ line.name = text[i].name /\ line.nr = text[i].nr
  BY <1>1 DEF Line
<1>3. Indented(text) \in LineTexts
  BY <1>1, <1>2 DEF Indented, LineTexts
<1>4. Names(Indented(text)) = Names(text)
  BY <1>1, <1>2 DEF Indented, Names
<1> QED
  BY <1>3, <1>4

LEMMA CountNat ==
  ASSUME NEW text \in LineTexts
  PROVE  Count(text) \in Nat
<1> DEFINE words == [i \in DOMAIN text |->
                       text[i].words + (IF text[i].coloured THEN EscapeWords ELSE 0)]
<1>1. IsFiniteSet(DOMAIN text) /\ \A i \in DOMAIN text : text[i] \in Line
  BY TextType
<1>2. \A i \in DOMAIN text : words[i] \in Nat
  BY <1>1 DEF Line, EscapeWords
<1>3. Count(text) = SumFunctionOnSet(words, DOMAIN text)
  BY DEF Count, SumFunction
<1> HIDE DEF words
<1> QED
  BY <1>1, <1>2, <1>3, SumNat

(* The lines that reducers write.                                          *)
LEMMA WrittenLines ==
  /\ Plain("command", 0, 3, {}) \in Line /\ Plain("exit_code", 0, 3, {}) \in Line
  /\ Plain("errors:", 0, 2, {"errorlike"}) \in Line /\ Plain("<none>", 0, 3, {}) \in Line
  /\ Plain("final_status:", 0, 2, {}) \in Line
  /\ Plain("0 failed", 0, 2, {"errorlike"}) \in Line
  /\ \A n \in Nat : Plain("tests passed", n, 3, {}) \in Line
  /\ \A n, words \in Nat : Plain("artifact", n, words, {}) \in Line
<1>1. ASSUME NEW name \in STRING, NEW n \in Nat, NEW words \in Nat,
             NEW marks \in SUBSET Patterns
      PROVE  Plain(name, n, words, marks) \in Line
  BY DEF Plain, Line
<1>2. {} \in SUBSET Patterns /\ {"errorlike"} \in SUBSET Patterns
  BY DEF Patterns
<1>3. \A name \in STRING, n, words \in Nat :
        Plain(name, n, words, {}) \in Line /\ Plain(name, n, words, {"errorlike"}) \in Line
  BY <1>1, <1>2
<1>4. WrittenNames \subseteq STRING
  BY NamesAssumption
<1> QED
  BY <1>3, <1>4 DEF WrittenNames

LEMMA OneLine ==
  ASSUME NEW line \in Line
  PROVE  <<line>> \in LineTexts
BY DEF LineTexts

LEMMA TwoLines ==
  ASSUME NEW first \in Line, NEW second \in Line
  PROVE  <<first, second>> \in LineTexts
BY DEF LineTexts

LEMMA EmptyText == <<>> \in LineTexts
BY DEF LineTexts

LEMMA JoinedTexts ==
  ASSUME NEW s \in LineTexts, NEW t \in LineTexts
  PROVE  s \o t \in LineTexts /\ Names(s \o t) = Names(s) \union Names(t)
<1>1. /\ Len(s) \in Nat /\ DOMAIN s = 1..Len(s) /\ Len(t) \in Nat /\ DOMAIN t = 1..Len(t)
      /\ s \in Seq(Line) /\ t \in Seq(Line)
  BY DEF LineTexts
<1>2. /\ s \o t \in Seq(Line) /\ Len(s \o t) = Len(s) + Len(t)
      /\ \A i \in 1..Len(s) : (s \o t)[i] = s[i]
      /\ \A i \in 1..Len(t) : (s \o t)[Len(s) + i] = t[i]
  BY <1>1
<1>3. DOMAIN (s \o t) = 1..(Len(s) + Len(t))
  BY <1>1, <1>2
<1>4. \A i \in DOMAIN (s \o t) :
        \/ i \in 1..Len(s) /\ (s \o t)[i] = s[i]
        \/ i - Len(s) \in 1..Len(t) /\ (s \o t)[i] = t[i - Len(s)]
  <2> SUFFICES ASSUME NEW i \in 1..(Len(s) + Len(t)), i \notin 1..Len(s)
               PROVE  i - Len(s) \in 1..Len(t) /\ (s \o t)[i] = t[i - Len(s)]
    BY <1>2, <1>3
  <2>1. i - Len(s) \in 1..Len(t) /\ i = Len(s) + (i - Len(s))
    BY <1>1
  <2> QED
    BY <1>2, <2>1
<1>5. /\ \A i \in 1..Len(s) : i \in DOMAIN (s \o t)
      /\ \A i \in 1..Len(t) : Len(s) + i \in DOMAIN (s \o t)
  BY <1>1, <1>3
<1> DEFINE joined == s \o t
           length == Len(s)
<1>6. Names(joined) = Names(s) \union Names(t)
  <2>1. /\ \A i \in DOMAIN joined :
             \/ i \in DOMAIN s /\ joined[i] = s[i]
             \/ i - length \in DOMAIN t /\ joined[i] = t[i - length]
        /\ \A i \in DOMAIN s : i \in DOMAIN joined /\ joined[i] = s[i]
        /\ \A i \in DOMAIN t : length + i \in DOMAIN joined /\ joined[length + i] = t[i]
    BY <1>1, <1>2, <1>4, <1>5
  <2> HIDE DEF joined, length
  <2> QED
    BY <2>1 DEF Names
<1> QED
  BY <1>2, <1>6 DEF LineTexts

-----------------------------------------------------------------------------
(* Reducers.                                                               *)

LEMMA WherePlaces ==
  ASSUME NEW text, NEW patterns
  PROVE  Where(text, patterns) \in SUBSET (DOMAIN text)
BY DEF Where

LEMMA UncolouredText ==
  ASSUME NEW text \in LineTexts
  PROVE  /\ Uncoloured(text) \in LineTexts /\ DOMAIN Uncoloured(text) = DOMAIN text
         /\ \A i \in DOMAIN text : /\ Uncoloured(text)[i] = [text[i] EXCEPT !.coloured = FALSE]
                                  /\ Uncoloured(text)[i].coloured = FALSE
                                  /\ Uncoloured(text)[i].name = text[i].name
                                  /\ Uncoloured(text)[i].nr = text[i].nr
                                  /\ Uncoloured(text)[i].marks = text[i].marks
                                  /\ Uncoloured(text)[i].indent = text[i].indent
<1>1. /\ Len(text) \in Nat /\ DOMAIN text = 1..Len(text)
      /\ \A i \in 1..Len(text) : text[i] \in Line
  BY TextType
<1>2. Uncoloured(text) = [i \in 1..Len(text) |-> [text[i] EXCEPT !.coloured = FALSE]]
  BY <1>1 DEF Uncoloured
<1>3. \A i \in 1..Len(text) :
        LET line == [text[i] EXCEPT !.coloured = FALSE]
        IN /\ line \in Line /\ line.coloured = FALSE /\ line.name = text[i].name
           /\ line.nr = text[i].nr /\ line.marks = text[i].marks
           /\ line.indent = text[i].indent
  BY <1>1 DEF Line
<1>4. Uncoloured(text) \in LineTexts
  BY <1>1, <1>2, <1>3 DEF LineTexts
<1> QED
  BY <1>1, <1>2, <1>3, <1>4

(* A text without colours is as it is.                                     *)
LEMMA UncolouredTwice ==
  ASSUME NEW text \in LineTexts, \A i \in DOMAIN text : text[i].coloured = FALSE
  PROVE  Uncoloured(text) = text
<1>1. /\ Len(text) \in Nat /\ DOMAIN text = 1..Len(text)
      /\ \A i \in 1..Len(text) : text[i] \in Line
  BY TextType
<1>2. \A i \in 1..Len(text) : [text[i] EXCEPT !.coloured = FALSE] = text[i]
  BY <1>1 DEF Line
<1>3. text = [i \in 1..Len(text) |-> text[i]]
  BY <1>1 DEF LineTexts
<1> QED
  BY <1>1, <1>2, <1>3 DEF Uncoloured

(* Colours hide patterns, they make none.                                  *)
LEMMA UncolouredMatches ==
  ASSUME NEW text \in LineTexts, NEW kind
  PROVE  /\ CompilerCan(kind, text) => CompilerCan(kind, Uncoloured(text))
         /\ TestCan(kind, text) => TestCan(kind, Uncoloured(text))
<1>1. ASSUME NEW pattern PROVE Has(text, pattern) => Has(Uncoloured(text), pattern)
  <2>1. \A i \in DOMAIN text : Matches(text[i], pattern) => Matches(Uncoloured(text)[i], pattern)
    BY UncolouredText DEF Matches
  <2> QED
    BY <2>1, UncolouredText DEF Has, Where
<1> QED
  BY <1>1 DEF CompilerCan, TestCan

(* Picking lines, or leaving repeats out, makes no errors.                 *)
LEMMA ErrorsPicked ==
  ASSUME NEW text \in LineTexts, NEW places \in SUBSET (DOMAIN text)
  PROVE  /\ Cardinality(Errors(Picked(text, places))) <= Cardinality(Errors(text))
         /\ Cardinality(Errors(Picked(text, places))) \in Nat
         /\ Cardinality(Errors(text)) \in Nat
<1> DEFINE picked == Picked(text, places)
<1>1. /\ picked \in LineTexts /\ IsFiniteSet(DOMAIN picked)
      /\ DOMAIN picked = 1..Cardinality(places) /\ IsFiniteSet(DOMAIN text)
  BY PickedLines, TextType
<1>2. Errors(picked) \in SUBSET (DOMAIN picked) /\ Errors(text) \in SUBSET (DOMAIN text)
  BY DEF Errors, Where
<1>3. \A n \in Errors(picked) : Nth(places, n) \in Errors(text)
  <2>1. \A n \in 1..Cardinality(places) :
          Nth(places, n) \in DOMAIN text /\ picked[n] = text[Nth(places, n)]
    BY TextType, PickedLines, NthPlace DEF Picked
  <2> HIDE DEF picked
  <2> QED
    BY <1>1, <2>1 DEF Errors, Where
<1> HIDE DEF picked
<1>4. Cardinality(Errors(picked)) <= Cardinality(Errors(text))
  BY <1>1, <1>2, <1>3, PickedMatches
<1>5. IsFiniteSet(Errors(picked)) /\ IsFiniteSet(Errors(text))
  BY <1>1, <1>2, FS_Subset
<1> QED
  BY <1>4, <1>5, FS_CardinalityType DEF picked

(* What ShellReduce leaves of a text: without their colours, the lines     *)
(* that are neither blank nor report progress.                             *)
LEMMA ShellReduceLines ==
  ASSUME NEW text \in LineTexts
  PROVE  /\ ShellReduce(text) \in LineTexts
         /\ Range(ShellReduce(text))
              = {Uncoloured(text)[i] :
                   i \in DOMAIN text \ Where(Uncoloured(text), {"blank", "progress"})}
         /\ Cardinality(Errors(ShellReduce(text))) <= Cardinality(Errors(Uncoloured(text)))
         /\ Uncoloured(ShellReduce(text)) = ShellReduce(text)
<1> DEFINE stripped == Uncoloured(text)
           kept == DOMAIN stripped \ Where(stripped, {"blank", "progress"})
           picked == Picked(stripped, kept)
<1>1. /\ stripped \in LineTexts /\ DOMAIN stripped = DOMAIN text
      /\ \A i \in DOMAIN stripped : stripped[i].coloured = FALSE
  BY UncolouredText
<1>2. ShellReduce(text) = WithoutRepeats(picked)
  BY DEF ShellReduce
<1> HIDE DEF stripped
<1>3. kept \in SUBSET (DOMAIN stripped)
  OBVIOUS
<1>4. picked \in LineTexts /\ Range(picked) = {stripped[i] : i \in kept}
  BY <1>1, <1>3, PickedLines
<1>5. /\ WithoutRepeats(picked) \in LineTexts
      /\ Range(WithoutRepeats(picked)) = Range(picked)
  BY <1>4, RepeatsLeftOut
<1>6. Cardinality(Errors(WithoutRepeats(picked))) <= Cardinality(Errors(stripped))
  <2>1. /\ Cardinality(Errors(picked)) <= Cardinality(Errors(stripped))
        /\ Cardinality(Errors(picked)) \in Nat /\ Cardinality(Errors(stripped)) \in Nat
    BY <1>1, <1>3, ErrorsPicked
  <2> HIDE DEF picked
  <2> DEFINE firsts == {i \in DOMAIN picked : i > 1 => picked[i] # picked[i - 1]}
  <2>2. WithoutRepeats(picked) = Picked(picked, firsts)
    BY DEF WithoutRepeats
  <2>3. firsts \in SUBSET (DOMAIN picked)
    OBVIOUS
  <2> HIDE DEF firsts
  <2>4. /\ Cardinality(Errors(Picked(picked, firsts))) <= Cardinality(Errors(picked))
        /\ Cardinality(Errors(Picked(picked, firsts))) \in Nat
    BY <1>4, <2>3, ErrorsPicked
  <2> QED
    BY <2>1, <2>2, <2>4
<1>7. \A line \in Range(WithoutRepeats(picked)) : line.coloured = FALSE
  BY <1>1, <1>4, <1>5
<1> HIDE DEF picked
<1>8. Uncoloured(WithoutRepeats(picked)) = WithoutRepeats(picked)
  BY <1>5, <1>7, UncolouredTwice DEF Range
<1> QED
  BY <1>1, <1>2, <1>4, <1>5, <1>6, <1>8 DEF stripped

LEMMA LinesPicked ==
  ASSUME NEW text \in LineTexts, NEW patterns
  PROVE  /\ Lines(text, patterns) \in LineTexts
         /\ Range(Lines(text, patterns)) = {text[i] : i \in Where(text, patterns)}
         /\ Len(Lines(text, patterns)) = Cardinality(Where(text, patterns))
         /\ Len(Lines(text, patterns)) <= Len(text)
         /\ Cardinality(Where(text, patterns)) \in Nat
BY WherePlaces, PickedLines DEF Lines

LEMMA DurationType ==
  ASSUME NEW text \in LineTexts
  PROVE  DurationPart(text) \in LineTexts
<1> DEFINE named == Where(text, {"duration"})
           last == text[Max(named)]
           line == [last EXCEPT !.words = @ + 1, !.indent = @ + 1,
                                !.marks = (@ \ {"error", "location"}) \union {"duration"}]
<1>1. CASE named = {}
  BY <1>1, EmptyText DEF DurationPart
<1>2. CASE named # {}
  <2>1. /\ Len(text) \in Nat /\ DOMAIN text = 1..Len(text)
        /\ \A i \in 1..Len(text) : text[i] \in Line
    BY TextType
  <2>2. named \in SUBSET (1..Len(text))
    BY <2>1, WherePlaces
  <2>3. Max(named) \in 1..Len(text)
    <3> HIDE DEF named
    <3> QED
      BY <1>2, <2>1, <2>2, LastUpTo
  <2>4. last \in Line
    BY <2>1, <2>3
  <2> HIDE DEF last
  <2>5. line \in Line
    <3> DEFINE a == [last EXCEPT !.words = @ + 1]
               b == [a EXCEPT !.indent = @ + 1]
               c == [b EXCEPT !.marks = (@ \ {"error", "location"}) \union {"duration"}]
    <3>1. a \in Line /\ a.indent = last.indent /\ a.marks = last.marks
      BY <2>4 DEF Line
    <3> HIDE DEF a
    <3>2. b \in Line /\ b.marks = last.marks
      BY <3>1 DEF Line
    <3> HIDE DEF b
    <3>3. (last.marks \ {"error", "location"}) \union {"duration"} \in SUBSET Patterns
      BY <2>4 DEF Line, Patterns
    <3>4. c \in Line
      BY <3>2, <3>3 DEF Line
    <3>5. line = c
      BY <3>1, <3>2 DEF a, b
    <3> QED
      BY <3>4, <3>5
  <2>6. DurationPart(text) = <<line>>
    BY <1>2 DEF DurationPart, last
  <2> HIDE DEF line
  <2> QED
    BY <2>5, <2>6, OneLine
<1> QED
  BY <1>1, <1>2

LEMMA TestReduceType ==
  ASSUME NEW text \in LineTexts
  PROVE  TestReduce(text) \in LineTexts
<1> DEFINE passed == Cardinality(Where(text, {"ok"}))
           kept == Lines(text, FailurePatterns)
           summary == <<Plain("tests passed", passed, 3, {}),
                        Plain("0 failed", 0, 2, {"errorlike"})>>
<1>1. passed \in Nat /\ kept \in LineTexts
  BY LinesPicked
<1>2. First(kept, FailureLines) \in LineTexts
  BY <1>1, FirstLines, ReducersAssumption
<1>3. summary \in LineTexts
  <2> HIDE DEF passed
  <2> QED
    BY <1>1, WrittenLines, TwoLines
<1>4. summary \o DurationPart(text) \in LineTexts
  <2> HIDE DEF summary
  <2> QED
    BY <1>3, DurationType, JoinedTexts
<1> QED
  BY <1>2, <1>4 DEF TestReduce

LEMMA CompilerReduceType ==
  ASSUME NEW text \in LineTexts
  PROVE  CompilerReduce(text) \in LineTexts
BY LinesPicked, RepeatsLeftOut DEF CompilerReduce

(* The lines of an extraction that begin with the parts it consists of.    *)
LEMMA ShellExtractLines ==
  ASSUME NEW text \in LineTexts, NEW known \in BOOLEAN
  PROVE  /\ ShellExtract(text, known) \in LineTexts
         /\ LET errors == WithoutRepeats(Lines(ShellReduce(text), {"errorlike"}))
            IN /\ errors \in LineTexts
               /\ errors # <<>> =>
                    Names(First(errors, ErrorLines)) \subseteq Names(ShellExtract(text, known))
<1> DEFINE reduced == ShellReduce(text)
           errors == WithoutRepeats(Lines(reduced, {"errorlike"}))
           tail == LastOnes(reduced, TailLines)
           head == IF known THEN CommandLines ELSE <<>>
           title == <<Plain("errors:", 0, 2, {"errorlike"})>>
           list == IF errors = <<>> THEN <<Plain("<none>", 0, 3, {})>>
                   ELSE Indented(First(errors, ErrorLines))
           status == IF tail = <<>> THEN <<>>
                     ELSE <<Plain("final_status:", 0, 2, {})>> \o Indented(tail)
<1>1. reduced \in LineTexts
  BY ShellReduceLines
<1> HIDE DEF reduced
<1>2. errors \in LineTexts
  BY <1>1, LinesPicked, RepeatsLeftOut
<1>3. tail \in LineTexts
  BY <1>1, LastLines, ReducersAssumption
<1>4. ShellExtract(text, known) = ((head \o title) \o list) \o status
  BY DEF ShellExtract, reduced
<1> HIDE DEF errors, tail
<1>5. head \in LineTexts
  <2>1. CommandLines \in LineTexts
    BY WrittenLines, TwoLines DEF CommandLines
  <2> QED
    BY <2>1, EmptyText
<1>6. title \in LineTexts
  BY WrittenLines, OneLine
<1>7. /\ list \in LineTexts
      /\ errors # <<>> => Names(list) = Names(First(errors, ErrorLines))
  <2>1. <<Plain("<none>", 0, 3, {})>> \in LineTexts
    BY WrittenLines, OneLine
  <2>2. First(errors, ErrorLines) \in LineTexts
    BY <1>2, FirstLines, ReducersAssumption
  <2>3. /\ Indented(First(errors, ErrorLines)) \in LineTexts
        /\ Names(Indented(First(errors, ErrorLines))) = Names(First(errors, ErrorLines))
    BY <2>2, IndentedLines
  <2> QED
    BY <2>1, <2>3
<1>8. status \in LineTexts
  <2>1. <<Plain("final_status:", 0, 2, {})>> \in LineTexts
    BY WrittenLines, OneLine
  <2>2. Indented(tail) \in LineTexts
    BY <1>3, IndentedLines
  <2>3. <<Plain("final_status:", 0, 2, {})>> \o Indented(tail) \in LineTexts
    BY <2>1, <2>2, JoinedTexts
  <2> QED
    BY <2>3, EmptyText
<1> HIDE DEF head, title, list, status
<1>9. head \o title \in LineTexts
  BY <1>5, <1>6, JoinedTexts
<1>10. /\ (head \o title) \o list \in LineTexts
       /\ Names(list) \subseteq Names((head \o title) \o list)
  BY <1>7, <1>9, JoinedTexts
<1>11. /\ ((head \o title) \o list) \o status \in LineTexts
       /\ Names((head \o title) \o list) \subseteq Names(((head \o title) \o list) \o status)
  BY <1>8, <1>10, JoinedTexts
<1> QED
  BY <1>2, <1>4, <1>7, <1>10, <1>11 DEF errors, reduced

LEMMA RewrittenTypes ==
  ASSUME NEW kind, NEW text \in LineTexts, NEW known \in BOOLEAN
  PROVE  /\ Reduced(kind, text) \in LineTexts /\ Extracted(kind, text, known) \in LineTexts
         /\ IsReducible(kind, text) \in BOOLEAN
<1>1. Reduced(kind, text) \in LineTexts
  BY CompilerReduceType, TestReduceType, ShellReduceLines DEF Reduced
<1>2. Extracted(kind, text, known) \in LineTexts
  BY CompilerReduceType, TestReduceType, ShellExtractLines DEF Extracted
<1>3. IsReducible(kind, text) \in BOOLEAN
  BY DEF IsReducible, CompilerCan, TestCan, ShellCan, Has
<1> QED
  BY <1>1, <1>2, <1>3

-----------------------------------------------------------------------------
(* What reducers may not lose.                                             *)

LEMMA MarkedLines ==
  ASSUME NEW text, NEW pattern
  PROVE  /\ Has(text, pattern) <=> \E line \in Range(text) : Matches(line, pattern)
         /\ Marked(text, pattern) = {line \in Range(text) : Matches(line, pattern)}
BY DEF Has, Marked, Where, Range

(* A run of tests that failed and whose failures may not be lost: what is  *)
(* left of it has them all, and will be reduced as the run of tests that   *)
(* it is, by no more lines than are kept.                                  *)
NamesFailures(it, text) ==
  /\ it.level \in {L0, L1, L2}
  /\ ~CompilerCan(it.kind, text) /\ TestCan(it.kind, text) /\ Has(text, "failed")
  /\ Cardinality(Where(text, FailurePatterns)) <= FailureLines
  => /\ Marked(text, "failed") \subseteq Marked(it.hash, "failed")
     /\ ~CompilerCan(it.kind, it.hash)
     /\ Cardinality(Where(it.hash, FailurePatterns)) <= FailureLines

(* A log whose errors may not be lost: until it is extracted it consists,  *)
(* colours apart, of lines of the log, all that are errors among them, and *)
(* has no more of those than an extraction keeps.                          *)
HoldsErrors(it, text) ==
  LET plain == Uncoloured(text)
      rest == Uncoloured(it.hash)
  IN /\ it.kind = "CommandOutput"
     /\ ~CompilerCan(it.kind, plain) /\ ~TestCan(it.kind, plain)
     /\ Cardinality(Errors(plain)) <= ErrorLines
     => /\ it.level \in {L0, L1} =>
             /\ Range(rest) \subseteq Range(plain)
             /\ {plain[n] : n \in Errors(plain)} \subseteq Range(rest)
             /\ Cardinality(Errors(rest)) <= ErrorLines
        /\ it.level = L2 =>
             \A n \in Errors(plain) : <<plain[n].name, plain[n].nr>> \in Names(it.hash)

(* A run of tests with failures is reduced, and extracted, to a text that  *)
(* names them all and is still one.                                        *)
LEMMA FailuresReduced ==
  ASSUME NEW hash \in LineTexts, NEW kind, NEW known \in BOOLEAN,
         ~CompilerCan(kind, hash), TestCan(kind, hash), Has(hash, "failed"),
         Cardinality(Where(hash, FailurePatterns)) <= FailureLines
  PROVE  /\ Reduced(kind, hash) = TestReduce(hash)
         /\ Extracted(kind, hash, known) = TestReduce(hash)
         /\ Marked(hash, "failed") \subseteq Marked(TestReduce(hash), "failed")
         /\ ~CompilerCan(kind, TestReduce(hash))
         /\ Cardinality(Where(TestReduce(hash), FailurePatterns)) <= FailureLines
<1> DEFINE lines == Lines(hash, FailurePatterns)
<1>1. /\ lines \in LineTexts /\ Len(lines) = Cardinality(Where(hash, FailurePatterns))
      /\ Range(lines) = {hash[i] : i \in Where(hash, FailurePatterns)}
  BY LinesPicked
<1>2. Len(lines) \in Nat /\ Len(lines) <= FailureLines
  BY <1>1, TextType
<1>3. First(lines, FailureLines) = lines
  BY <1>1, <1>2, FirstLines, ReducersAssumption
<1>4. TestReduce(hash) = lines
  BY <1>3 DEF TestReduce
<1> HIDE DEF lines
<1>5. Marked(hash, "failed") \subseteq Marked(lines, "failed")
  BY <1>1, MarkedLines DEF Range, Where, FailurePatterns
<1>6. Range(lines) \subseteq Range(hash)
  BY <1>1 DEF Where, Range
<1>7. ~CompilerCan(kind, lines)
  BY <1>6, MarkedLines DEF CompilerCan
<1>8. Cardinality(Where(lines, FailurePatterns)) <= FailureLines
  <2>1. /\ Cardinality(Where(lines, FailurePatterns)) \in Nat
        /\ Cardinality(Where(lines, FailurePatterns)) <= Len(lines)
    BY <1>1, WherePlaces, PickedLines
  <2> QED
    BY <1>2, <2>1, ReducersAssumption
<1> QED
  BY <1>4, <1>5, <1>7, <1>8 DEF Reduced, Extracted

LEMMA FailuresRewritten ==
  ASSUME NEW it, it.hash \in LineTexts, it.source \in BOOLEAN, it.level \in {L0, L1, L2},
         NEW text \in LineTexts, NamesFailures(it, text),
         NEW new, new.kind = it.kind,
         new.hash \in {it.hash, Reduced(it.kind, it.hash),
                       Extracted(it.kind, it.hash, it.source)}
  PROVE  NamesFailures(new, text)
<1> SUFFICES ASSUME ~CompilerCan(it.kind, text), TestCan(it.kind, text), Has(text, "failed"),
                    Cardinality(Where(text, FailurePatterns)) <= FailureLines
             PROVE  /\ Marked(text, "failed") \subseteq Marked(new.hash, "failed")
                    /\ ~CompilerCan(it.kind, new.hash)
                    /\ Cardinality(Where(new.hash, FailurePatterns)) <= FailureLines
  BY DEF NamesFailures
<1>1. /\ Marked(text, "failed") \subseteq Marked(it.hash, "failed")
      /\ ~CompilerCan(it.kind, it.hash)
      /\ Cardinality(Where(it.hash, FailurePatterns)) <= FailureLines
  BY DEF NamesFailures
<1>2. Has(it.hash, "failed")
  BY <1>1, MarkedLines
<1>3. TestCan(it.kind, it.hash)
  BY <1>2 DEF TestCan
<1>4. CASE new.hash = it.hash
  BY <1>1, <1>4
<1>5. CASE new.hash # it.hash
  <2>1. /\ Reduced(it.kind, it.hash) = TestReduce(it.hash)
        /\ Extracted(it.kind, it.hash, it.source) = TestReduce(it.hash)
        /\ Marked(it.hash, "failed") \subseteq Marked(TestReduce(it.hash), "failed")
        /\ ~CompilerCan(it.kind, TestReduce(it.hash))
        /\ Cardinality(Where(TestReduce(it.hash), FailurePatterns)) <= FailureLines
    BY <1>1, <1>2, <1>3, FailuresReduced
  <2>2. new.hash = TestReduce(it.hash)
    BY <1>5, <2>1
  <2> QED
    BY <1>1, <2>1, <2>2
<1> QED
  BY <1>4, <1>5

(* An extraction names every line that ShellReduce leaves as an error, if  *)
(* there are no more of them than it keeps.                                *)
LEMMA ErrorsExtracted ==
  ASSUME NEW hash \in LineTexts, NEW known \in BOOLEAN,
         NEW reduced, reduced = ShellReduce(hash),
         \A line \in Range(reduced) : ~Matches(line, "blank") /\ ~Matches(line, "progress"),
         Cardinality(Errors(reduced)) <= ErrorLines,
         NEW line \in Range(reduced), Matches(line, "errorlike")
  PROVE  <<line.name, line.nr>> \in Names(ShellExtract(hash, known))
<1> DEFINE lines == Lines(reduced, {"errorlike"})
           errors == WithoutRepeats(lines)
<1>1. reduced \in LineTexts
  BY ShellReduceLines
<1>2. Where(reduced, {"errorlike"}) = Errors(reduced)
  BY DEF Errors, Where, Range
<1>3. /\ lines \in LineTexts /\ Len(lines) = Cardinality(Errors(reduced))
      /\ Range(lines) = {reduced[i] : i \in Where(reduced, {"errorlike"})}
  BY <1>1, <1>2, LinesPicked
<1>4. errors \in LineTexts /\ Len(errors) <= Len(lines) /\ Range(errors) = Range(lines)
  BY <1>3, RepeatsLeftOut
<1>5. line \in Range(errors)
  <2>1. line \in {reduced[i] : i \in Where(reduced, {"errorlike"})}
    BY DEF Where, Range
  <2> QED
    BY <1>3, <1>4, <2>1
<1> HIDE DEF lines
<1>6. First(errors, ErrorLines) = errors
  <2>1. Len(errors) \in Nat /\ Len(lines) \in Nat
    BY <1>3, <1>4, TextType
  <2>2. Len(errors) <= ErrorLines
    BY <1>3, <1>4, <2>1, ReducersAssumption
  <2> HIDE DEF errors
  <2> QED
    BY <1>4, <2>2, FirstLines, ReducersAssumption
<1>7. errors # <<>>
  BY <1>5 DEF Range
<1>8. Names(First(errors, ErrorLines)) \subseteq Names(ShellExtract(hash, known))
  BY <1>7, ShellExtractLines DEF lines
<1>9. <<line.name, line.nr>> \in Names(errors)
  BY <1>5 DEF Names, Range
<1> QED
  BY <1>6, <1>8, <1>9

(* A log that holds its errors is reduced and extracted to one.            *)
LEMMA ErrorsRewritten ==
  ASSUME NEW it, it.hash \in LineTexts, it.source \in BOOLEAN, it.level \in {L0, L1},
         NEW text \in LineTexts, HoldsErrors(it, text),
         NEW new, new.kind = it.kind,
         \/ new.level = L1 /\ new.hash = Reduced(it.kind, it.hash)
         \/ new.level = L2 /\ new.hash = Extracted(it.kind, it.hash, it.source)
  PROVE  HoldsErrors(new, text)
<1> DEFINE plain == Uncoloured(text)
           rest == Uncoloured(it.hash)
           reduced == ShellReduce(it.hash)
<1>0. plain \in LineTexts /\ rest \in LineTexts /\ DOMAIN rest = DOMAIN it.hash
  BY UncolouredText
<1> SUFFICES ASSUME it.kind = "CommandOutput",
                    ~CompilerCan(it.kind, plain), ~TestCan(it.kind, plain),
                    Cardinality(Errors(plain)) <= ErrorLines
             PROVE  /\ new.level \in {L0, L1} =>
                         /\ Range(Uncoloured(new.hash)) \subseteq Range(plain)
                         /\ {plain[n] : n \in Errors(plain)} \subseteq Range(Uncoloured(new.hash))
                         /\ Cardinality(Errors(Uncoloured(new.hash))) <= ErrorLines
                    /\ new.level = L2 =>
                         \A n \in Errors(plain) :
                           <<plain[n].name, plain[n].nr>> \in Names(new.hash)
  BY DEF HoldsErrors
<1>1. /\ Range(rest) \subseteq Range(plain)
      /\ {plain[n] : n \in Errors(plain)} \subseteq Range(rest)
      /\ Cardinality(Errors(rest)) <= ErrorLines
  BY DEF HoldsErrors
<1>2. ~CompilerCan(it.kind, it.hash) /\ ~TestCan(it.kind, it.hash)
  <2>1. ~CompilerCan(it.kind, rest) /\ ~TestCan(it.kind, rest)
    BY <1>1, MarkedLines DEF CompilerCan, TestCan
  <2> QED
    BY <2>1, UncolouredMatches
<1>3. Reduced(it.kind, it.hash) = reduced
  BY <1>2 DEF Reduced, ShellCan
<1>4. Extracted(it.kind, it.hash, it.source) = ShellExtract(it.hash, it.source)
  BY <1>2 DEF Extracted, ShellCan
<1>6. /\ reduced \in LineTexts /\ Uncoloured(reduced) = reduced
      /\ Range(reduced) = {rest[i] : i \in DOMAIN rest \ Where(rest, {"blank", "progress"})}
      /\ Cardinality(Errors(reduced)) <= Cardinality(Errors(rest))
  BY <1>0, ShellReduceLines
<1> HIDE DEF reduced, plain, rest
<1>7. Cardinality(Errors(reduced)) <= ErrorLines
  <2>1. /\ IsFiniteSet(DOMAIN reduced) /\ Errors(reduced) \in SUBSET (DOMAIN reduced)
        /\ IsFiniteSet(DOMAIN rest) /\ Errors(rest) \in SUBSET (DOMAIN rest)
    BY <1>0, <1>6, TextType DEF Errors, Where
  <2>2. Cardinality(Errors(reduced)) \in Nat /\ Cardinality(Errors(rest)) \in Nat
    BY <2>1, FS_Subset, FS_CardinalityType
  <2> QED
    BY <1>1, <1>6, <2>2, ReducersAssumption
<1>8. /\ Range(reduced) \subseteq Range(rest)
      /\ \A line \in Range(reduced) : ~Matches(line, "blank") /\ ~Matches(line, "progress")
      /\ \A line \in Range(rest) :
           ~Matches(line, "blank") /\ ~Matches(line, "progress") => line \in Range(reduced)
  BY <1>6 DEF Range, Where
<1>9. \A n \in Errors(plain) : plain[n] \in Range(reduced) /\ Matches(plain[n], "errorlike")
  <2> TAKE n \in Errors(plain)
  <2>1. /\ plain[n] \in Range(rest) /\ Matches(plain[n], "errorlike")
        /\ ~Matches(plain[n], "blank") /\ ~Matches(plain[n], "progress")
    BY <1>1 DEF Errors, Where
  <2> QED
    BY <1>8, <2>1
<1>10. CASE new.level = L1 /\ new.hash = Reduced(it.kind, it.hash)
  <2>1. new.hash = reduced /\ Uncoloured(new.hash) = reduced /\ new.level # L2
    BY <1>3, <1>6, <1>10, LevelValues
  <2> QED
    BY <1>1, <1>7, <1>8, <1>9, <2>1
<1>11. CASE new.level = L2 /\ new.hash = Extracted(it.kind, it.hash, it.source)
  <2>1. new.hash = ShellExtract(it.hash, it.source) /\ new.level \notin {L0, L1}
    BY <1>4, <1>11, LevelValues
  <2>2. ASSUME NEW n \in Errors(plain)
        PROVE  <<plain[n].name, plain[n].nr>> \in Names(new.hash)
    BY <1>7, <1>8, <1>9, <2>1, ErrorsExtracted DEF reduced
  <2> QED
    BY <2>1, <2>2
<1> QED
  BY <1>10, <1>11

-----------------------------------------------------------------------------
(* Rounds.                                                                 *)

RoundInv ==
  /\ round \in Nat /\ origin \in [Index -> LineTexts]
  /\ \A i \in Index :
       /\ Consistent(item[i])
       /\ NamesFailures(item[i], origin[i])
       /\ HoldsErrors(item[i], origin[i])
       /\ action[i] = "Externalize" => after[i] = TokensAt(i, L4)

PlanInv == ChosenInv /\ CopiesInv /\ EndInv /\ TotalInv

CycleInv == PlanInv /\ RoundInv

LEMMA FreshPlan == Fresh => PlanInv
BY ChosenInit, CopiesInit, EndInit, TotalInit DEF PlanInv

(* An item begins as what it was submitted as.                             *)
LEMMA SubmittedHolds ==
  ASSUME NEW it \in ItemShape
  PROVE  /\ it.hash \in LineTexts
         /\ NamesFailures(it, it.hash)
         /\ HoldsErrors(it, it.hash)
<1>1. it.hash \in LineTexts
  BY DEF ItemShape
<1> DEFINE plain == Uncoloured(it.hash)
<1>2. {plain[n] : n \in Errors(plain)} \subseteq Range(plain)
  BY DEF Errors, Where, Range
<1>3. \A n \in Errors(plain) : <<plain[n].name, plain[n].nr>> \in Names(it.hash)
  BY <1>1, UncolouredText DEF Errors, Where, Names
<1> QED
  BY <1>1, <1>2, <1>3 DEF NamesFailures, HoldsErrors

LEMMA CycleInitInv == CycleInit => CycleInv
<1> SUFFICES ASSUME CycleInit PROVE CycleInv
  OBVIOUS
<1>1. Fresh
  BY InitFresh DEF CycleInit
<1>2. \A i \in Index : item[i] \in Shapes /\ item[i] \in ItemShape /\ action[i] = "Keep"
  BY <1>1 DEF CycleInit, Init, Fresh
<1>3. round \in Nat /\ origin = [i \in Index |-> item[i].hash]
  BY DEF CycleInit
<1>4. origin \in [Index -> LineTexts]
  BY <1>2, <1>3, SubmittedHolds
<1>5. ASSUME NEW i \in Index
      PROVE  /\ Consistent(item[i])
             /\ NamesFailures(item[i], origin[i])
             /\ HoldsErrors(item[i], origin[i])
             /\ action[i] = "Externalize" => after[i] = TokensAt(i, L4)
  BY <1>2, <1>3, SubmittedHolds, ShapesAssumption
<1> QED
  BY <1>1, <1>3, <1>4, <1>5, FreshPlan DEF CycleInv, RoundInv

(* The passes of a plan and the rounds of the greedy loop change no item;  *)
(* what is externalized is estimated as the reference that it will become. *)
LEMMA PlanKeepsRound ==
  ASSUME CycleInv, [Next]_vars, UNCHANGED <<round, origin>>
  PROVE  RoundInv'
<1>1. item' = item /\ ChosenInv
  BY DEF CycleInv, PlanInv, Next, PinPass, DedupPass, Squeeze, Finish, vars
<1>2. \A i \in Index : TokensAt(i, L4)' = TokensAt(i, L4)
  BY <1>1 DEF TokensAt, CanExternalize
<1>3. ASSUME NEW i \in Index, action'[i] = "Externalize"
      PROVE  after'[i] = TokensAt(i, L4)
  <2>1. action[i] = "Externalize" => after[i] = TokensAt(i, L4)
    BY DEF CycleInv, RoundInv
  <2>2. CASE PinPass
    BY <1>3, <2>1, <2>2 DEF PinPass
  <2>3. CASE DedupPass
    BY <1>3, <2>1, <2>3 DEF DedupPass
  <2>4. ASSUME NEW j \in Index, Squeeze(j)
        PROVE  after'[i] = TokensAt(i, L4)
    <3> DEFINE level == NextLevel(j)
    <3>1. /\ to[j] # L5
          /\ action' = [action EXCEPT ![j] = ActionFor(level)]
          /\ after' = [after EXCEPT ![j] = TokensAt(j, level)]
      BY <2>4 DEF Squeeze, IsBest, Eligible
    <3>2. level \in {L1, L2, L4, L5}
      BY <1>1, <3>1, NextLevelIsFirst
    <3> HIDE DEF level
    <3>3. CASE i = j
      <4>1. ActionFor(level) = "Externalize"
        BY <1>1, <1>3, <3>1, <3>3 DEF ChosenInv
      <4>2. level = L4
        BY <3>2, <4>1, LevelValues DEF ActionFor
      <4> QED
        BY <1>1, <3>1, <3>3, <4>2 DEF ChosenInv
    <3>4. CASE i # j
      BY <1>1, <1>3, <2>1, <3>1, <3>4 DEF ChosenInv
    <3> QED
      BY <3>3, <3>4
  <2>5. CASE Finish \/ UNCHANGED vars
    BY <1>3, <2>1, <2>5 DEF Finish, vars
  <2> QED
    BY <2>2, <2>3, <2>4, <2>5 DEF Next
<1> QED
  BY <1>1, <1>2, <1>3 DEF CycleInv, RoundInv

(* The fields of an item with another text.                                *)
LEMMA WithTextFields ==
  ASSUME NEW it \in ItemShape, NEW text \in LineTexts
  PROVE  LET new == WithText(it, text)
         IN /\ new \in ItemShape /\ new.hash = text
            /\ new.reducible = IsReducible(it.kind, text)
            /\ new.reduced = Count(Reduced(it.kind, text))
            /\ new.extracted = Count(Extracted(it.kind, text, it.source))
            /\ new.kind = it.kind /\ new.source = it.source /\ new.refTokens = it.refTokens
<1>1. it.source \in BOOLEAN
  BY DEF ItemShape
<1>2. /\ IsReducible(it.kind, text) \in BOOLEAN
      /\ Reduced(it.kind, text) \in LineTexts
      /\ Extracted(it.kind, text, it.source) \in LineTexts
  BY <1>1, RewrittenTypes
<1>3. /\ Count(Reduced(it.kind, text)) \in Nat
      /\ Count(Extracted(it.kind, text, it.source)) \in Nat
  BY <1>2, CountNat
<1> QED
  BY <1>2, <1>3 DEF WithText, ItemShape

LEMMA ConsistentFields ==
  ASSUME NEW it \in ItemShape
  PROVE  Consistent(it) <=>
           /\ it.reducible = IsReducible(it.kind, it.hash)
           /\ it.reduced = Count(Reduced(it.kind, it.hash))
           /\ it.extracted = Count(Extracted(it.kind, it.hash, it.source))
           /\ it.refTokens = ReferenceWords
           /\ it.level # L0 => it.tokens = AtLeastOne(Count(it.hash))
<1>1. ASSUME it = WithText(it, it.hash)
      PROVE  /\ it.reducible = IsReducible(it.kind, it.hash)
             /\ it.reduced = Count(Reduced(it.kind, it.hash))
             /\ it.extracted = Count(Extracted(it.kind, it.hash, it.source))
  <2>1. it.hash \in LineTexts
    BY DEF ItemShape
  <2> QED
    BY <1>1, <2>1, WithTextFields
<1>2. ASSUME it.reducible = IsReducible(it.kind, it.hash),
             it.reduced = Count(Reduced(it.kind, it.hash)),
             it.extracted = Count(Extracted(it.kind, it.hash, it.source))
      PROVE  it = WithText(it, it.hash)
  BY <1>2 DEF WithText, ItemShape
<1> QED
  BY <1>1, <1>2 DEF Consistent

(* An item that stays is an item whose fields are what the reducers make of*)
(* its text, and it has lost nothing that may not be lost.                 *)
LEMMA MaterializedText ==
  ASSUME CycleInv, phase = "done", NEW i \in Kept
  PROVE  /\ action[i] \in {"Keep", "Pin", "Reduce", "Extract", "Externalize"}
         /\ action[i] \in {"Keep", "Pin"} =>
              to[i] = item[i].level /\ TextAfter(i) = item[i].hash
         /\ action[i] = "Reduce" =>
              /\ item[i].level = L0 /\ to[i] = L1
              /\ TextAfter(i) = Reduced(item[i].kind, item[i].hash)
         /\ action[i] = "Extract" =>
              /\ item[i].level \in {L0, L1} /\ to[i] = L2
              /\ TextAfter(i) = Extracted(item[i].kind, item[i].hash, item[i].source)
         /\ action[i] = "Externalize" => to[i] = L4 /\ TextAfter(i) = Reference(i)
         /\ TextAfter(i) \in LineTexts /\ to[i] \in Levels \ {L5}
<1>1. i \in Index /\ to[i] # L5
  BY DEF Kept
<1>2. item[i] \in ItemShape /\ action[i] \in PlanActions /\ to[i] \in Levels /\ Chosen(i)
  BY <1>1 DEF CycleInv, PlanInv, ChosenInv
<1>3. action[i] \in {"Keep", "Pin", "Reduce", "Extract", "Externalize"}
  BY <1>1, <1>2 DEF PlanActions, Chosen
<1>4. /\ action[i] \in {"Keep", "Pin"} => to[i] = item[i].level
      /\ action[i] = "Reduce" => item[i].level = L0 /\ to[i] = L1
      /\ action[i] = "Extract" => item[i].level \in {L0, L1} /\ to[i] = L2
      /\ action[i] = "Externalize" => to[i] = L4
  BY <1>2 DEF Chosen
<1>5. /\ action[i] \in {"Keep", "Pin"} => TextAfter(i) = item[i].hash
      /\ action[i] = "Reduce" => TextAfter(i) = Reduced(item[i].kind, item[i].hash)
      /\ action[i] = "Extract" =>
           TextAfter(i) = Extracted(item[i].kind, item[i].hash, item[i].source)
      /\ action[i] = "Externalize" => TextAfter(i) = Reference(i)
  BY DEF TextAfter
<1>6. item[i].hash \in LineTexts /\ item[i].source \in BOOLEAN
  BY <1>2 DEF ItemShape
<1>7. Reference(i) \in LineTexts
  <2>1. round \in Nat /\ Size \in Nat /\ i \in Nat /\ ReferenceWords \in Nat
    BY <1>1, PlannerAssumption, CompactionAssumption DEF CycleInv, RoundInv, Index
  <2>2. round * Size + i \in Nat
    BY <2>1
  <2> QED
    BY <2>1, <2>2, WrittenLines, OneLine DEF Reference
<1>8. TextAfter(i) \in LineTexts
  BY <1>3, <1>5, <1>6, <1>7, RewrittenTypes
<1> QED
  BY <1>1, <1>2, <1>3, <1>4, <1>5, <1>8

LEMMA MaterializedItem ==
  ASSUME CycleInv, phase = "done", NEW i \in Kept
  PROVE  /\ Materialized(i) \in ItemShape
         /\ Materialized(i).level = to[i]
         /\ Materialized(i).tokens
              = AtLeastOne(IF to[i] = L0 THEN item[i].tokens ELSE Count(TextAfter(i)))
         /\ Consistent(Materialized(i))
         /\ NamesFailures(Materialized(i), origin[i])
         /\ HoldsErrors(Materialized(i), origin[i])
<1> DEFINE it == item[i]
           text == TextAfter(i)
           base == WithText(it, text)
           count == IF to[i] = L0 THEN it.tokens ELSE Count(text)
           new == Materialized(i)
<1>1. i \in Index
  BY DEF Kept
<1>2. /\ it \in ItemShape /\ Consistent(it) /\ origin[i] \in LineTexts
      /\ NamesFailures(it, origin[i]) /\ HoldsErrors(it, origin[i])
  BY <1>1 DEF CycleInv, PlanInv, ChosenInv, RoundInv
<1>3. text \in LineTexts /\ to[i] \in Levels \ {L5}
  BY MaterializedText
<1>4. /\ it.hash \in LineTexts /\ it.source \in BOOLEAN /\ it.tokens \in Nat
      /\ it.recoverable \in BOOLEAN
  BY <1>2 DEF ItemShape
<1>5. AtLeastOne(count) \in Nat
  <2>1. count \in Nat
    BY <1>3, <1>4, CountNat
  <2> QED
    BY <2>1 DEF AtLeastOne
<1>6. /\ base \in ItemShape /\ base.hash = text
      /\ base.reducible = IsReducible(it.kind, text)
      /\ base.reduced = Count(Reduced(it.kind, text))
      /\ base.extracted = Count(Extracted(it.kind, text, it.source))
      /\ base.kind = it.kind /\ base.source = it.source /\ base.refTokens = it.refTokens
  BY <1>2, <1>3, WithTextFields
<1>7. new = [base EXCEPT !.level = to[i], !.tokens = AtLeastOne(count),
                         !.recoverable = it.recoverable \/ action[i] = "Externalize"]
  BY DEF Materialized
<1> HIDE DEF base, new, text, count
<1>8. /\ new \in ItemShape /\ new.level = to[i] /\ new.tokens = AtLeastOne(count)
      /\ new.hash = text /\ new.kind = it.kind /\ new.source = it.source
      /\ new.reducible = base.reducible /\ new.reduced = base.reduced
      /\ new.extracted = base.extracted /\ new.refTokens = base.refTokens
  BY <1>3, <1>4, <1>5, <1>6, <1>7 DEF ItemShape
<1>9. it.refTokens = ReferenceWords
  BY <1>2 DEF Consistent
<1>10. Consistent(new)
  <2>1. new.level # L0 => new.tokens = AtLeastOne(Count(new.hash))
    BY <1>8 DEF count
  <2> QED
    BY <1>6, <1>8, <1>9, <2>1, ConsistentFields
<1>11. NamesFailures(new, origin[i]) /\ HoldsErrors(new, origin[i])
  <2>1. action[i] \in {"Keep", "Pin", "Reduce", "Extract", "Externalize"}
    BY MaterializedText
  <2>2. CASE action[i] \in {"Keep", "Pin"}
    <3>1. new.level = it.level /\ new.hash = it.hash /\ new.kind = it.kind
      BY <1>8, <2>2, MaterializedText DEF text
    <3> QED
      BY <1>2, <3>1 DEF NamesFailures, HoldsErrors
  <2>3. CASE action[i] = "Reduce"
    <3>1. /\ it.level = L0 /\ new.level = L1
          /\ new.hash = Reduced(it.kind, it.hash) /\ new.kind = it.kind
      BY <1>8, <2>3, MaterializedText DEF text
    <3>2. NamesFailures(new, origin[i])
      BY <1>2, <1>4, <3>1, FailuresRewritten
    <3>3. HoldsErrors(new, origin[i])
      BY <1>2, <1>4, <3>1, ErrorsRewritten
    <3> QED
      BY <3>2, <3>3
  <2>4. CASE action[i] = "Extract"
    <3>1. /\ it.level \in {L0, L1} /\ new.level = L2
          /\ new.hash = Extracted(it.kind, it.hash, it.source) /\ new.kind = it.kind
      BY <1>8, <2>4, MaterializedText DEF text
    <3>2. NamesFailures(new, origin[i])
      BY <1>2, <1>4, <3>1, FailuresRewritten
    <3>3. HoldsErrors(new, origin[i])
      BY <1>2, <1>4, <3>1, ErrorsRewritten
    <3> QED
      BY <3>2, <3>3
  <2>5. CASE action[i] = "Externalize"
    <3>1. new.level \notin {L0, L1, L2}
      BY <1>8, <2>5, MaterializedText, LevelValues
    <3> QED
      BY <3>1 DEF NamesFailures, HoldsErrors
  <2> QED
    BY <2>1, <2>2, <2>3, <2>4, <2>5
<1> QED
  BY <1>8, <1>10, <1>11 DEF new, count, text

(* After a materialization a plan begins afresh.                           *)
LEMMA MaterializeStep ==
  ASSUME CycleInv, Materialize
  PROVE  Fresh' /\ RoundInv'
<1> DEFINE kept == Cardinality(Kept)
           Old(n) == Nth(Kept, n)
<1>1. /\ IsFiniteSet(Kept) /\ Kept \subseteq Index /\ Kept \subseteq Int
      /\ kept \in Nat /\ kept <= Size
  <2>1. Kept \in SUBSET Index /\ Kept \subseteq Int
    BY DEF Kept, Index
  <2>2. IsFiniteSet(Index) /\ Cardinality(Index) = Size
    BY PlannerAssumption, FS_Interval DEF Index
  <2> QED
    BY <2>1, <2>2, FS_Subset, FS_CardinalityType
<1>2. phase = "done" /\ round \in Nat /\ round' = round + 1
  BY DEF Materialize, CycleInv, RoundInv
<1> HIDE DEF kept
<1>3. PICK new \in [1..(Size - kept) -> Arrivals] :
        /\ item' = [n \in Index |-> IF n <= kept THEN Materialized(Old(n)) ELSE new[n - kept]]
        /\ origin' = [n \in Index |-> IF n <= kept THEN origin[Old(n)] ELSE new[n - kept].hash]
  BY DEF Materialize, kept
<1>4. ASSUME NEW n \in Index, n <= kept
      PROVE  /\ item'[n] = Materialized(Old(n)) /\ origin'[n] = origin[Old(n)]
             /\ Old(n) \in Kept
  <2>1. n \in 1..kept
    BY <1>1, <1>4 DEF Index
  <2>2. Old(n) \in Kept
    BY <1>1, <2>1, NthPlace DEF kept
  <2> QED
    BY <1>3, <1>4, <2>2
<1>5. ASSUME NEW n \in Index, ~(n <= kept)
      PROVE  item'[n] \in Shapes /\ item'[n] \in ItemShape /\ origin'[n] = item'[n].hash
  <2>1. n - kept \in 1..(Size - kept)
    BY <1>1, <1>5, PlannerAssumption DEF Index
  <2>2. new[n - kept] \in Arrivals
    BY <2>1
  <2>3. item'[n] = new[n - kept] /\ origin'[n] = new[n - kept].hash
    BY <1>3, <1>5
  <2> QED
    BY <2>2, <2>3, CompactionAssumption, PlannerAssumption
<1>6. ASSUME NEW n \in Index
      PROVE  /\ item'[n] \in ItemShape /\ origin'[n] \in LineTexts
             /\ Consistent(item'[n])
             /\ NamesFailures(item'[n], origin'[n]) /\ HoldsErrors(item'[n], origin'[n])
  <2>1. CASE n <= kept
    <3>1. origin[Old(n)] \in LineTexts
      BY <1>1, <1>4, <2>1 DEF CycleInv, RoundInv
    <3> HIDE DEF Old
    <3> QED
      BY <1>2, <1>4, <2>1, <3>1, MaterializedItem
  <2>2. CASE ~(n <= kept)
    BY <1>5, <2>2, SubmittedHolds, ShapesAssumption
  <2> QED
    BY <2>1, <2>2
<1>7. item' \in [Index -> ItemShape] /\ origin' \in [Index -> LineTexts]
  BY <1>3, <1>6
<1>8. Fresh'
  BY <1>7 DEF Materialize, Fresh
<1>9. RoundInv'
  <2>1. action' = [i \in Index |-> "Keep"]
    BY DEF Materialize
  <2>2. round' \in Nat
    BY <1>2
  <2> QED
    BY <1>6, <1>7, <2>1, <2>2 DEF RoundInv
<1> QED
  BY <1>8, <1>9

LEMMA CycleStep == CycleInv /\ [CycleNext]_cycleVars => CycleInv'
<1>1. Fresh' => PlanInv'
  BY FreshPlan, PTL
<1>2. ASSUME CycleInv, [Next]_vars, UNCHANGED <<round, origin>>
      PROVE  CycleInv'
  <2>1. PlanInv'
    BY <1>2, ChosenStep, CopiesStep, EndStep, TotalStep DEF CycleInv, PlanInv
  <2>2. RoundInv'
    BY <1>2, PlanKeepsRound
  <2> QED
    BY <2>1, <2>2 DEF CycleInv
<1>3. ASSUME CycleInv, Materialize
      PROVE  CycleInv'
  BY <1>1, <1>3, MaterializeStep DEF CycleInv
<1>4. PlanStep => [Next]_vars /\ UNCHANGED <<round, origin>>
  BY DEF PlanStep, Next
<1>5. UNCHANGED cycleVars => [Next]_vars /\ UNCHANGED <<round, origin>>
  BY DEF cycleVars
<1> QED
  BY <1>2, <1>3, <1>4, <1>5 DEF CycleNext

(* Through any number of compactions the invariants of a plan hold, every  *)
(* item's fields are what the reducers make of its text, and no text has   *)
(* lost what it may not lose.                                              *)
THEOREM CyclesCorrect == Cycles => []CycleInv
BY CycleInitInv, CycleStep, PTL DEF Cycles

(* So every plan of a session is as good as the first one: it is typed and *)
(* adds up, leaves what is pinned as it is, removes only repeated copies,  *)
(* gives up last and is one that Session allows for.                       *)
THEOREM EveryPlanIsGood ==
  Cycles => [](/\ TypeOK /\ TotalMatchesActions /\ PinnedUntouched
               /\ NewerCopyStays /\ GivesUpLast /\ PlanAllowed)
<1>1. CycleInv => /\ TypeOK /\ TotalMatchesActions /\ PinnedUntouched
                  /\ NewerCopyStays /\ GivesUpLast /\ PlanAllowed
  BY TotalTyped, ChosenLeavesPinned, CopiesKeepNewest, EndGivesUpLast, ChosenIsAllowed
     DEF CycleInv, PlanInv, TotalInv
<1> QED
  BY <1>1, CyclesCorrect, PTL

(* And every plan comes to its end: each of its steps lowers what is left   *)
(* to do, and until it is done there is a step to take.                    *)
THEOREM EveryPlanAdvances ==
  Cycles => PlansAdvance /\ [](phase # "done" => GoesOn)
<1>1. CycleInv => (PlanStep => StepsLeft' < StepsLeft)
  <2> SUFFICES ASSUME CycleInv, PlanStep PROVE StepsLeft' < StepsLeft
    OBVIOUS
  <2>1. ChosenInv /\ TotalInv /\ Next
    BY DEF CycleInv, PlanInv, PlanStep, Next
  <2> QED
    BY <2>1, StepDescends
<1>2. CycleInv => (phase # "done" => GoesOn)
  BY NotStuck DEF CycleInv, PlanInv
<1> QED
  BY <1>1, <1>2, CyclesCorrect, PTL DEF PlansAdvance

(* In the output of a test run every line of a failed test that is not in  *)
(* colours stays, through any number of compactions, unless the output has *)
(* more lines than TestReducer keeps or is CompilerReducer's.              *)
THEOREM FailuresAlwaysKept == Cycles => []FailuresKept
<1>1. ASSUME CycleInv PROVE FailuresKept
  <2> SUFFICES ASSUME NEW i \in Index, item[i].level \in {L1, L2},
                      ~CompilerCan(item[i].kind, origin[i]), TestCan(item[i].kind, origin[i]),
                      Cardinality(Where(origin[i], FailurePatterns)) <= FailureLines,
                      NEW line \in PlainFailures(origin[i])
               PROVE  line \in Range(item[i].hash)
    BY DEF FailuresKept
  <2>1. NamesFailures(item[i], origin[i])
    BY <1>1 DEF CycleInv, RoundInv
  <2>2. line \in Marked(origin[i], "failed")
    BY DEF PlainFailures, Marked, Where, Matches
  <2>3. Has(origin[i], "failed")
    BY <2>2 DEF Has, Marked
  <2>4. line \in Marked(item[i].hash, "failed")
    BY <2>1, <2>2, <2>3 DEF NamesFailures
  <2> QED
    BY <2>4, MarkedLines
<1> QED
  BY <1>1, CyclesCorrect, PTL

(* In the output of any other command, one that TestReducer and            *)
(* CompilerReducer refuse with and without its colours, every error        *)
(* message stays, coloured or not, through any number of compactions, if   *)
(* there are no more lines with one than an extraction keeps.              *)
THEOREM ErrorsAlwaysKept == Cycles => []ErrorsKept
<1>1. ASSUME CycleInv PROVE ErrorsKept
  <2> DEFINE text(i) == Uncoloured(origin[i])
  <2> SUFFICES ASSUME NEW i \in Index, item[i].level \in {L1, L2},
                      item[i].kind = "CommandOutput",
                      ~CompilerCan(item[i].kind, text(i)), ~TestCan(item[i].kind, text(i)),
                      Cardinality(Errors(text(i))) <= ErrorLines,
                      NEW n \in Errors(text(i))
               PROVE  <<text(i)[n].name, text(i)[n].nr>> \in Names(item[i].hash)
    BY DEF ErrorsKept
  <2>1. HoldsErrors(item[i], origin[i]) /\ item[i] \in ItemShape
    BY <1>1 DEF CycleInv, RoundInv, PlanInv, ChosenInv
  <2>2. CASE item[i].level = L2
    BY <2>1, <2>2 DEF HoldsErrors
  <2>3. CASE item[i].level = L1
    <3>1. item[i].hash \in LineTexts
      BY <2>1 DEF ItemShape
    <3>2. text(i)[n] \in Range(Uncoloured(item[i].hash))
      BY <2>1, <2>3 DEF HoldsErrors
    <3>3. PICK m \in DOMAIN item[i].hash : text(i)[n] = Uncoloured(item[i].hash)[m]
      BY <3>1, <3>2, UncolouredText DEF Range
    <3>4. /\ Uncoloured(item[i].hash)[m].name = item[i].hash[m].name
          /\ Uncoloured(item[i].hash)[m].nr = item[i].hash[m].nr
      BY <3>1, UncolouredText
    <3>5. <<text(i)[n].name, text(i)[n].nr>>
            = <<item[i].hash[m].name, item[i].hash[m].nr>>
      BY <3>3, <3>4
    <3> QED
      BY <3>5 DEF Names
  <2> QED
    BY <2>2, <2>3
<1> QED
  BY <1>1, CyclesCorrect, PTL

-----------------------------------------------------------------------------
(* Estimates.                                                              *)

LEMMA ReferenceCount == \A i \in Index : round \in Nat => Count(Reference(i)) = ReferenceWords
<1> SUFFICES ASSUME NEW i \in Index, round \in Nat
             PROVE  Count(Reference(i)) = ReferenceWords
  OBVIOUS
<1> DEFINE text == Reference(i)
           words == [n \in DOMAIN text |->
                       text[n].words + (IF text[n].coloured THEN EscapeWords ELSE 0)]
<1>1. DOMAIN text = {1} /\ text[1].words = ReferenceWords /\ text[1].coloured = FALSE
  BY DEF Reference, Plain
<1>2. ReferenceWords \in Nat
  BY CompactionAssumption
<1>3. Count(text) = SumFunctionOnSet(words, {1})
  BY <1>1 DEF Count, SumFunction
<1>4. words[1] = ReferenceWords
  BY <1>1, <1>2
<1> HIDE DEF text, words
<1>5. IsFiniteSet({}) /\ 1 \notin {} /\ {1} = {} \union {1} /\ \A y \in {} \union {1} : words[y] \in Int
  BY <1>2, <1>4, FS_EmptySet
<1>6. SumFunctionOnSet(words, {1}) = words[1] + SumFunctionOnSet(words, {})
  BY <1>5, SumAdd
<1>7. SumFunctionOnSet(words, {}) = 0
  BY SumEmpty
<1> QED
  BY <1>2, <1>3, <1>4, <1>6, <1>7 DEF text

(* The sum over a set is that over its numbered places.                    *)
LEMMA SumOfPlaces ==
  ASSUME NEW S, IsFiniteSet(S), S \subseteq Int, NEW f, NEW g,
         \A n \in 1..Cardinality(S) : g[n] \in Int /\ f[Nth(S, n)] = g[n]
  PROVE  SumFunctionOnSet(f, S) = SumFunctionOnSet(g, 1..Cardinality(S))
<1> DEFINE numbers == 1..Cardinality(S)
           place == [n \in numbers |-> Nth(S, n)]
<1>1. IsFiniteSet(numbers)
  BY FS_CardinalityType, FS_Interval
<1>2. place \in Bijection(numbers, S)
  BY NthBijection
<1>3. \A n \in numbers : g[n] \in Int /\ f[place[n]] = g[n]
  OBVIOUS
<1> HIDE DEF numbers, place
<1>4. SumFunctionOnSet(f, S) = SumFunctionOnSet(g, numbers)
  BY <1>1, <1>2, <1>3, SumRenamed
<1> QED
  BY <1>4 DEF numbers

(* An item that stays measures what it was estimated to.                   *)
LEMMA EstimateMet ==
  ASSUME CycleInv, phase = "done", NEW i \in Kept, ~Stray(i)
  PROVE  after[i] \in Nat /\ Materialized(i).tokens = AtLeastOne(after[i])
<1> DEFINE it == item[i]
           count == IF to[i] = L0 THEN it.tokens ELSE Count(TextAfter(i))
<1>1. i \in Index
  BY DEF Kept
<1>2. it \in ItemShape /\ Consistent(it) /\ Chosen(i) /\ after[i] \in Nat /\ round \in Nat
  BY <1>1 DEF CycleInv, PlanInv, ChosenInv, RoundInv
<1>3. /\ it.reduced = Count(Reduced(it.kind, it.hash))
      /\ it.extracted = Count(Extracted(it.kind, it.hash, it.source))
      /\ it.refTokens = ReferenceWords
      /\ it.level # L0 => it.tokens = AtLeastOne(Count(it.hash))
  BY <1>2, ConsistentFields
<1>4. Materialized(i).tokens = AtLeastOne(count)
  BY MaterializedItem
<1>5. action[i] \in {"Keep", "Pin", "Reduce", "Extract", "Externalize"}
  BY MaterializedText
<1>6. CASE action[i] \in {"Keep", "Pin"}
  <2>1. after[i] = it.tokens /\ to[i] = it.level /\ TextAfter(i) = it.hash
    BY <1>2, <1>6, MaterializedText DEF Chosen
  <2>2. CASE to[i] = L0
    BY <1>2, <1>4, <2>1, <2>2
  <2>3. CASE to[i] # L0
    <3>1. it.tokens = AtLeastOne(count)
      BY <1>3, <2>1, <2>3
    <3>2. AtLeastOne(AtLeastOne(count)) = AtLeastOne(count)
      BY DEF AtLeastOne
    <3> QED
      BY <1>2, <1>4, <2>1, <3>1, <3>2
  <2> QED
    BY <2>2, <2>3
<1>7. CASE action[i] = "Reduce"
  <2>1. after[i] = it.reduced /\ to[i] # L0 /\ TextAfter(i) = Reduced(it.kind, it.hash)
    BY <1>2, <1>7, MaterializedText, LevelValues DEF Chosen
  <2> QED
    BY <1>2, <1>3, <1>4, <2>1
<1>8. CASE action[i] = "Extract"
  <2>1. /\ after[i] = it.extracted /\ to[i] # L0
        /\ TextAfter(i) = Extracted(it.kind, it.hash, it.source)
    BY <1>2, <1>8, MaterializedText, LevelValues DEF Chosen
  <2> QED
    BY <1>2, <1>3, <1>4, <2>1
<1>9. CASE action[i] = "Externalize"
  <2>1. to[i] # L0 /\ TextAfter(i) = Reference(i)
    BY <1>9, MaterializedText, LevelValues
  <2>2. after[i] = TokensAt(i, L4) /\ CanExternalize(i)
    BY <1>1, <1>9 DEF Stray, CycleInv, RoundInv
  <2>3. TokensAt(i, L4) = it.refTokens
    BY <2>2, LevelValues DEF TokensAt
  <2>4. Count(Reference(i)) = ReferenceWords
    BY <1>1, <1>2, ReferenceCount
  <2> QED
    BY <1>2, <1>3, <1>4, <2>1, <2>2, <2>3, <2>4
<1> QED
  BY <1>5, <1>6, <1>7, <1>8, <1>9

LEMMA ContextMeetsEstimates ==
  ASSUME CycleInv, Materialize, \A i \in Index : ~Stray(i)
  PROVE  SumFunction([n \in 1..Cardinality(Kept) |-> item'[n].tokens])
           = current + Cardinality({i \in Kept : after[i] = 0})
<1> DEFINE kept == Cardinality(Kept)
           measured == [n \in 1..kept |-> item'[n].tokens]
           tokens == [i \in Kept |-> Materialized(i).tokens]
           empty == {i \in Kept : after[i] = 0}
<1>1. /\ IsFiniteSet(Kept) /\ Kept \subseteq Index /\ Kept \subseteq Int
      /\ kept \in Nat /\ kept <= Size
  <2>1. Kept \in SUBSET Index /\ Kept \subseteq Int
    BY DEF Kept, Index
  <2>2. IsFiniteSet(Index) /\ Cardinality(Index) = Size
    BY PlannerAssumption, FS_Interval DEF Index
  <2> QED
    BY <2>1, <2>2, FS_Subset, FS_CardinalityType
<1>2. phase = "done" /\ after \in [Index -> Nat] /\ to \in [Index -> Levels]
  BY DEF Materialize, CycleInv, PlanInv, ChosenInv
<1>3. \A i \in Kept : after[i] \in Nat /\ tokens[i] = AtLeastOne(after[i])
  <2> TAKE i \in Kept
  <2>1. ~Stray(i)
    BY <1>1
  <2> QED
    BY <1>2, <2>1, EstimateMet
<1>4. SumFunction(measured) = SumFunctionOnSet(tokens, Kept)
  <2>1. ASSUME NEW n \in 1..kept
        PROVE  measured[n] \in Int /\ tokens[Nth(Kept, n)] = measured[n]
    <3>1. n \in Index /\ n <= kept
      BY <1>1, PlannerAssumption DEF Index
    <3>2. item'[n] = Materialized(Nth(Kept, n))
      <4> HIDE DEF kept
      <4>1. \E new : item' = [m \in Index |-> IF m <= kept THEN Materialized(Nth(Kept, m))
                                              ELSE new[m - kept]]
        BY DEF Materialize, kept
      <4> QED
        BY <3>1, <4>1
    <3>3. Nth(Kept, n) \in Kept
      BY <1>1, NthPlace
    <3>4. /\ tokens[Nth(Kept, n)] \in Int
          /\ tokens[Nth(Kept, n)] = Materialized(Nth(Kept, n)).tokens
      BY <1>3, <3>3 DEF AtLeastOne
    <3>5. measured[n] = item'[n].tokens
      OBVIOUS
    <3> HIDE DEF tokens, measured
    <3> QED
      BY <3>2, <3>4, <3>5
  <2>2. DOMAIN measured = 1..kept /\ IsFiniteSet(Kept) /\ Kept \subseteq Int
    BY <1>1
  <2> HIDE DEF measured, tokens
  <2>3. SumFunctionOnSet(tokens, Kept) = SumFunctionOnSet(measured, 1..kept)
    BY <2>1, <2>2, SumOfPlaces
  <2> QED
    BY <2>2, <2>3 DEF SumFunction
<1> HIDE DEF tokens, measured
<1>5. SumFunctionOnSet(tokens, Kept) = SumFunctionOnSet(after, Kept) + Cardinality(empty)
  <2>1. empty \in SUBSET Kept
    OBVIOUS
  <2>2. \A i \in Kept : /\ after[i] \in Int
                        /\ tokens[i] = IF i \in empty THEN after[i] + 1 ELSE after[i]
    BY <1>3 DEF AtLeastOne
  <2>3. IsFiniteSet(Kept)
    BY <1>1
  <2> HIDE DEF empty
  <2> QED
    BY <2>1, <2>2, <2>3, SumOnes
<1>6. SumFunctionOnSet(after, Kept) = current
  <2> DEFINE gone == Index \ Kept
  <2>1. IsFiniteSet(gone) /\ Kept \intersect gone = {} /\ Kept \union gone = Index
    BY <1>1, IndexFinite, FS_Difference
  <2>2. \A i \in gone : after[i] = 0
    BY DEF Kept, CycleInv, PlanInv, EndInv
  <2> HIDE DEF gone
  <2>3. SumFunctionOnSet(after, gone) = 0
    BY <2>1, <2>2, SumZero
  <2>4. SumFunctionOnSet(after, Index) = SumFunctionOnSet(after, Kept) + SumFunctionOnSet(after, gone)
    <3>1. \A i \in Kept \union gone : after[i] \in Int
      BY <1>2, <2>1
    <3> QED
      BY <1>1, <2>1, <3>1, SumUnion
  <2>5. current = SumFunctionOnSet(after, Index)
    BY <1>2 DEF CycleInv, PlanInv, TotalInv, TotalMatchesActions, SumFunction
  <2>6. \A i \in Kept : after[i] \in Int
    BY <1>3
  <2>7. SumFunctionOnSet(after, Kept) \in Int
    BY <1>1, <2>6, SumType
  <2> QED
    BY <2>3, <2>4, <2>5, <2>7
<1> QED
  BY <1>4, <1>5, <1>6 DEF measured, empty

(* The tokens that a plan promises are those of the rewritten context, but *)
(* for texts of no words and for strays.                                   *)
THEOREM EstimatesAlwaysMet == Cycles => EstimatesMet
<1>1. CycleInv => (Materialize /\ (\A i \in Index : ~Stray(i)) =>
                    SumFunction([n \in 1..Cardinality(Kept) |-> item'[n].tokens])
                      = current + Cardinality({i \in Kept : after[i] = 0}))
  BY ContextMeetsEstimates
<1> QED
  BY <1>1, CyclesCorrect, PTL DEF EstimatesMet

=============================================================================
