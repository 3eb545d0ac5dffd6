---------------------------- MODULE SequenceFacts ----------------------------
(***************************************************************************)
(* What the proofs keep using of the queues, channels and lists of the     *)
(* models: how Append and Tail change a sequence's length and its          *)
(* elements, and how a fact about all sequences, or about a function that  *)
(* is defined by recursion, is proved by induction.  The provers cannot    *)
(* instantiate the library's induction theorems, whose induction formula   *)
(* is an operator; here it is a set.                                       *)
(***************************************************************************)
EXTENDS Naturals, Sequences, SequenceTheorems, WellFoundedInduction, TLAPS

(* A sequence is empty exactly if its length is 0. *)
LEMMA EmptyIffNoLength ==
    ASSUME NEW S, NEW s \in Seq(S)
    PROVE  /\ Len(s) \in Nat
           /\ s = <<>> <=> Len(s) = 0
           /\ DOMAIN s = 1..Len(s)
           /\ \A i \in 1..Len(s) : s[i] \in S
BY EmptySeq, LenProperties, ElementOfSeq

(* Append adds one element at the end and moves none. *)
LEMMA AppendFacts ==
    ASSUME NEW S, NEW s \in Seq(S), NEW e \in S
    PROVE  /\ Append(s, e) \in Seq(S)
           /\ Append(s, e) # <<>>
           /\ Len(Append(s, e)) = Len(s) + 1
           /\ \A i \in 1..Len(s) : Append(s, e)[i] = s[i]
           /\ Append(s, e)[Len(s) + 1] = e
<1>1. /\ Append(s, e) \in Seq(S)
      /\ Len(Append(s, e)) = Len(s) + 1
      /\ Len(s) \in Nat
      /\ \A i \in 1..Len(s) : Append(s, e)[i] = s[i]
      /\ Append(s, e)[Len(s) + 1] = e
  OBVIOUS
<1>2. Append(s, e) # <<>>
  BY <1>1, EmptyIffNoLength
<1> QED
  BY <1>1, <1>2

(* Tail takes the head away and moves the others one place forward. *)
LEMMA TailFacts ==
    ASSUME NEW S, NEW s \in Seq(S), s # <<>>
    PROVE  /\ Head(s) = s[1] /\ Head(s) \in S
           /\ Tail(s) \in Seq(S)
           /\ Len(s) > 0
           /\ Len(Tail(s)) = Len(s) - 1
           /\ Tail(s) = <<>> <=> Len(s) = 1
           /\ \A i \in 1..Len(Tail(s)) : Tail(s)[i] = s[i + 1]
<1>1. /\ Head(s) \in S
      /\ Tail(s) \in Seq(S)
      /\ Len(Tail(s)) = Len(s) - 1
      /\ \A i \in 1..Len(Tail(s)) : Tail(s)[i] = s[i + 1]
  BY HeadTailProperties
<1>2. Len(s) \in Nat /\ Len(s) > 0
  BY EmptyIffNoLength
<1>3. Head(s) = s[1]
  BY <1>2
<1>4. Tail(s) = <<>> <=> Len(s) = 1
  <2>1. Tail(s) = <<>> <=> Len(Tail(s)) = 0
    BY <1>1, EmptyIffNoLength
  <2> QED
    BY <1>1, <1>2, <2>1
<1> QED
  BY <1>1, <1>2, <1>3, <1>4

(* Append adds one to what is in a sequence. *)
LEMMA RangeOfAppend ==
    ASSUME NEW S, NEW s \in Seq(S), NEW e \in S
    PROVE  Range(Append(s, e)) = Range(s) \cup {e} /\ Range(s) \subseteq S
<1> DEFINE longer == Append(s, e)
<1>1. /\ DOMAIN s = 1..Len(s) /\ Len(s) \in Nat /\ \A i \in 1..Len(s) : s[i] \in S
      /\ DOMAIN longer = 1..(Len(s) + 1)
      /\ \A i \in 1..Len(s) : longer[i] = s[i]
      /\ longer[Len(s) + 1] = e
  BY AppendFacts, EmptyIffNoLength
<1>2. 1..(Len(s) + 1) = (1..Len(s)) \cup {Len(s) + 1}
  BY <1>1
<1> HIDE DEF longer
<1>3. Range(longer) = {longer[i] : i \in (1..Len(s)) \cup {Len(s) + 1}}
  BY <1>1, <1>2 DEF Range
<1>4. Range(s) = {s[i] : i \in 1..Len(s)}
  BY <1>1 DEF Range
<1>5. Range(longer) = Range(s) \cup {e}
  BY <1>1, <1>3, <1>4
<1> QED
  BY <1>1, <1>4, <1>5 DEF longer

(* The next number continues the numbers from 1. *)
LEMMA CountingOn ==
    ASSUME NEW n \in Nat
    PROVE  /\ Append([i \in 1..n |-> i], n + 1) = [i \in 1..(n + 1) |-> i]
           /\ Len([i \in 1..n |-> i]) = n
OBVIOUS

(* The first elements of a sequence, which a loop has been through. *)
LEMMA PrefixFacts ==
    ASSUME NEW S, NEW s \in Seq(S)
    PROVE  /\ SubSeq(s, 1, 0) = <<>>
           /\ SubSeq(s, 1, Len(s)) = s
           /\ \A i \in 0..Len(s) : SubSeq(s, 1, i) \in Seq(S)
           /\ \A i \in 1..Len(s) : SubSeq(s, 1, i) = Append(SubSeq(s, 1, i - 1), s[i])
<1>1. Len(s) \in Nat /\ \A i \in 1..Len(s) : s[i] \in S
  BY EmptyIffNoLength
<1>2. SubSeq(s, 1, 0) = <<>>
  BY SubSeqEmpty
<1>3. SubSeq(s, 1, Len(s)) = s
  BY SubSeqFull
<1>4. ASSUME NEW i \in 0..Len(s)
      PROVE  SubSeq(s, 1, i) \in Seq(S) /\ Len(SubSeq(s, 1, i)) = i
                /\ \A j \in 1..i : SubSeq(s, 1, i)[j] = s[j]
  <2>1. i \in Int /\ 1 \in Int /\ \A j \in 1..i : s[j] \in S
    BY <1>1
  <2>2. /\ SubSeq(s, 1, i) \in Seq(S)
        /\ Len(SubSeq(s, 1, i)) = IF 1 <= i THEN i - 1 + 1 ELSE 0
        /\ \A j \in 1..(i - 1 + 1) : SubSeq(s, 1, i)[j] = s[1 + j - 1]
    BY <2>1, SubSeqProperties
  <2>3. /\ (IF 1 <= i THEN i - 1 + 1 ELSE 0) = i
        /\ i - 1 + 1 = i
        /\ \A j \in 1..i : 1 + j - 1 = j
    BY <1>1
  <2> QED
    BY <2>2, <2>3
<1>5. ASSUME NEW i \in 1..Len(s) PROVE SubSeq(s, 1, i) = Append(SubSeq(s, 1, i - 1), s[i])
  <2> DEFINE a == SubSeq(s, 1, i)
             b == SubSeq(s, 1, i - 1)
  <2>1. i \in 0..Len(s) /\ i - 1 \in 0..Len(s) /\ s[i] \in S
    BY <1>1
  <2>2. a \in Seq(S) /\ Len(a) = i /\ \A j \in 1..i : a[j] = s[j]
    BY <1>4, <2>1
  <2>3. b \in Seq(S) /\ Len(b) = i - 1 /\ \A j \in 1..(i - 1) : b[j] = s[j]
    BY <1>4, <2>1
  <2> HIDE DEF a, b
  <2>4. /\ Append(b, s[i]) \in Seq(S) /\ Len(Append(b, s[i])) = i
        /\ \A j \in 1..i : Append(b, s[i])[j] = s[j]
    BY <1>1, <2>1, <2>3
  <2>5. a = Append(b, s[i])
    BY <2>2, <2>4, SeqEqual
  <2> QED
    BY <2>5 DEF a, b
<1> QED
  BY <1>2, <1>3, <1>4, <1>5

-----------------------------------------------------------------------------

(* A set that holds 0 and the successor of each of its numbers holds all   *)
(* numbers: one that is missing would have a least one among them.         *)
LEMMA NatSetInduction ==
    ASSUME NEW S, 0 \in S, \A n \in Nat : n \in S => n + 1 \in S
    PROVE  Nat \subseteq S
<1> DEFINE R == OpToRel(<, Nat)
           Missing == Nat \ S
<1>1. IsWellFoundedOn(R, Nat)
  BY NatLessThanWellFounded
<1> SUFFICES ASSUME Missing # {} PROVE FALSE
  OBVIOUS
<1>2. PICK least \in Missing : \A n \in Missing : <<n, least>> \notin R
  <2>1. Missing \subseteq Nat
    OBVIOUS
  <2> HIDE DEF R, Missing
  <2> QED
    BY <1>1, <2>1, WFMin
<1>3. least - 1 \in Nat /\ (least - 1) + 1 = least /\ least - 1 < least
  OBVIOUS
<1>4. least - 1 \in Missing
  BY <1>3
<1>5. <<least - 1, least>> \in R
  BY <1>3 DEF OpToRel
<1> QED
  BY <1>2, <1>4, <1>5

(* The same up to a number. *)
LEMMA IntervalInduction ==
    ASSUME NEW n \in Nat, NEW S, 0 \in S, \A i \in 1..n : i - 1 \in S => i \in S
    PROVE  0..n \subseteq S
<1> DEFINE T == {i \in Nat : i <= n => i \in S}
<1>1. 0 \in T
  OBVIOUS
<1>2. \A i \in Nat : i \in T => i + 1 \in T
  <2> SUFFICES ASSUME NEW i \in Nat, i \in T, i + 1 <= n PROVE i + 1 \in S
    OBVIOUS
  <2>1. i \in S /\ i + 1 \in 1..n /\ (i + 1) - 1 = i
    OBVIOUS
  <2> QED
    BY <2>1
<1>3. Nat \subseteq T
  <2> HIDE DEF T
  <2> QED
    BY <1>1, <1>2, NatSetInduction
<1> QED
  BY <1>3

(* What holds of the empty sequence, and of every sequence that one        *)
(* element is appended to, holds of all sequences.                         *)
LEMMA SeqSetInduction ==
    ASSUME NEW A, NEW P, <<>> \in P,
           \A s \in Seq(A), e \in A : s \in P => Append(s, e) \in P
    PROVE  Seq(A) \subseteq P
<1> DEFINE T == {n \in Nat : \A s \in Seq(A) : Len(s) = n => s \in P}
<1>1. 0 \in T
  <2>1. \A s \in Seq(A) : Len(s) = 0 => s = <<>>
    BY EmptyIffNoLength
  <2> QED
    BY <2>1
<1>2. \A n \in Nat : n \in T => n + 1 \in T
  <2> SUFFICES ASSUME NEW n \in Nat, n \in T, NEW s \in Seq(A), Len(s) = n + 1 PROVE s \in P
    OBVIOUS
  <2>1. s # <<>>
    BY EmptyIffNoLength
  <2>2. PICK front \in Seq(A), last \in A : s = Append(front, last)
    BY <2>1, SequenceEmptyOrAppend
  <2>3. Len(front) \in Nat /\ Len(s) = Len(front) + 1
    BY <2>2, AppendFacts, EmptyIffNoLength
  <2>4. Len(front) = n
    BY <2>3
  <2> QED
    BY <2>2, <2>4
<1>3. Nat \subseteq T
  <2> HIDE DEF T
  <2> QED
    BY <1>1, <1>2, NatSetInduction
<1>4. \A s \in Seq(A) : Len(s) \in Nat
  BY EmptyIffNoLength
<1> QED
  BY <1>3, <1>4

\* f starts with `start`, and each of its values up to n comes from the one before.
Follows(f, n, start, step) == f[0] = start /\ \A i \in 1..n : f[i] = step[i][f[i - 1]]

(* A recursion up to a number, whose values stay in a set, defines a       *)
(* function: there is one with the start and the steps asked for.          *)
LEMMA RecursionExists ==
    ASSUME NEW H, NEW n \in Nat, NEW start \in H, NEW step \in [1..n -> [H -> H]]
    PROVE  \E f \in [0..n -> H] : Follows(f, n, start, step)
<1> DEFINE T == {m \in Nat : \E f \in [0..m -> H] : Follows(f, m, start, step)}
<1>1. 0 \in T
  <2>1. [i \in 0..0 |-> start] \in [0..0 -> H] /\ Follows([i \in 0..0 |-> start], 0, start, step)
    BY DEF Follows
  <2> QED
    BY <2>1
<1>2. \A i \in 1..n : i - 1 \in T => i \in T
  <2> SUFFICES ASSUME NEW m \in 1..n, m - 1 \in T PROVE m \in T
    OBVIOUS
  <2>1. PICK f \in [0..(m - 1) -> H] : Follows(f, m - 1, start, step)
    OBVIOUS
  <2> DEFINE g == [i \in 0..m |-> IF i = m THEN step[m][f[m - 1]] ELSE f[i]]
  <2>2. m \in Nat /\ m - 1 \in 0..(m - 1) /\ \A i \in 0..m : i # m => i \in 0..(m - 1)
    OBVIOUS
  <2>3. g \in [0..m -> H]
    <3>1. step[m][f[m - 1]] \in H
      BY <2>2
    <3> QED
      BY <2>2, <3>1
  <2>4. g[0] = start
    BY <2>1, <2>2 DEF Follows
  <2>5. \A i \in 1..m : g[i] = step[i][g[i - 1]]
    BY <2>1, <2>2 DEF Follows
  <2>6. Follows(g, m, start, step)
    <3> HIDE DEF g
    <3> QED
      BY <2>4, <2>5 DEF Follows
  <2> HIDE DEF g
  <2> QED
    BY <2>2, <2>3, <2>6
<1>3. 0..n \subseteq T
  <2> HIDE DEF T
  <2> QED
    BY <1>1, <1>2, IntervalInduction
<1>4. n \in 0..n
  OBVIOUS
<1> QED
  BY <1>3, <1>4
=============================================================================
