------------------------ MODULE RedirectHeaders_proofs ------------------------
(***************************************************************************)
(* Proofs about Headers and RedirectHeaders: for any names and spellings,  *)
(* origins, values, policy lists and client headers, any number of edits   *)
(* and of redirects.                                                       *)
(***************************************************************************)
EXTENDS RedirectHeaders, SequenceFacts, TLAPS

AnyValue == Referers \cup Origins \cup Values
Tuples == Names \X AnyValue

-----------------------------------------------------------------------------
(* Keep, the filter of set() and delete().                                 *)

\* The next value of Keep's recursion.
KeepNext(kept, tuple, keys) ==
    IF KeyOf[tuple[1]] \in keys THEN Append(kept, tuple) ELSE kept

(* The recursion of Keep has a solution, which Keep reads at its end. *)
LEMMA KeepRecursion ==
    ASSUME NEW s \in Seq(Tuples), NEW keys
    PROVE  \E kept \in [0..Len(s) -> Seq(Tuples)] :
              /\ Keep(s, keys) = kept[Len(s)]
              /\ kept[0] = <<>>
              /\ \A i \in 1..Len(s) : kept[i] = KeepNext(kept[i - 1], s[i], keys)
<1> DEFINE n == Len(s)
           H == Seq(Tuples)
           Body(f) == [i \in 0..n |->
                         IF i = 0 THEN <<>>
                         ELSE IF KeyOf[s[i][1]] \in keys THEN Append(f[i - 1], s[i])
                         ELSE f[i - 1]]
           step == [i \in 1..n |-> [g \in H |-> KeepNext(g, s[i], keys)]]
           solved == CHOOSE f : f = Body(f)
<1>1. n \in Nat /\ \A i \in 1..n : s[i] \in Tuples
  BY EmptyIffNoLength
<1>2. step \in [1..n -> [H -> H]]
  <2>1. \A i \in 1..n, g \in H : KeepNext(g, s[i], keys) \in H
    BY <1>1 DEF KeepNext
  <2> QED
    BY <2>1
<1>0. PICK kept \in [0..n -> H] : Follows(kept, n, <<>>, step)
  <2>1. <<>> \in H
    OBVIOUS
  <2>2. n \in Nat
    BY <1>1
  <2> HIDE DEF step, n, H
  <2> QED
    BY <1>2, <2>1, <2>2, RecursionExists
<1>3. kept[0] = <<>> /\ \A i \in 1..n : kept[i] = step[i][kept[i - 1]]
  BY <1>0 DEF Follows
<1>4. \A i \in 1..n : kept[i] = KeepNext(kept[i - 1], s[i], keys)
  <2> SUFFICES ASSUME NEW i \in 1..n PROVE kept[i] = KeepNext(kept[i - 1], s[i], keys)
    OBVIOUS
  <2>1. i - 1 \in 0..n
    BY <1>1
  <2>2. kept[i - 1] \in H
    BY <2>1
  <2> QED
    BY <1>3, <2>2
<1>5. kept = Body(kept)
  <2>1. \A i \in 0..n : i = 0 \/ i \in 1..n
    BY <1>1
  <2>2. ASSUME NEW i \in 0..n PROVE kept[i] = Body(kept)[i]
    BY <1>3, <1>4, <2>1 DEF KeepNext
  <2> HIDE DEF n
  <2> QED
    BY <2>2
<1>6. Keep(s, keys) = solved[n]
  BY DEF Keep
<1>7. solved = Body(solved)
  BY <1>5
<1>8. \A i \in 0..n : solved[i] = kept[i]
  <2> DEFINE same == {i \in 0..n : solved[i] = kept[i]}
  <2>1. 0 \in same
    <3>1. 0 \in 0..n /\ Body(solved)[0] = <<>>
      BY <1>1
    <3> HIDE DEF solved, Body
    <3> QED
      BY <1>3, <1>7, <3>1
  <2>2. \A i \in 1..n : i - 1 \in same => i \in same
    <3> SUFFICES ASSUME NEW i \in 1..n, solved[i - 1] = kept[i - 1] PROVE i \in same
      OBVIOUS
    <3>1. i \in 0..n /\ i # 0
      BY <1>1
    <3>2. Body(solved)[i] = KeepNext(solved[i - 1], s[i], keys)
      <4> HIDE DEF solved, n
      <4> QED
        BY <3>1 DEF KeepNext
    <3> HIDE DEF solved, Body, n
    <3> QED
      BY <1>4, <1>7, <3>1, <3>2
  <2>3. 0..n \subseteq same
    <3> HIDE DEF same, n
    <3> QED
      BY <1>1, <2>1, <2>2, IntervalInduction
  <2> QED
    BY <2>3
<1>9. solved[n] = kept[n]
  <2>1. n \in 0..n
    BY <1>1
  <2> HIDE DEF solved, n
  <2> QED
    BY <1>8, <2>1
<1> QED
  BY <1>3, <1>4, <1>6, <1>9

(* What is kept is a list of tuples again. *)
LEMMA KeepType ==
    ASSUME NEW s \in Seq(Tuples), NEW keys
    PROVE  Keep(s, keys) \in Seq(Tuples)
<1>1. Len(s) \in Nat
  BY EmptyIffNoLength
<1> QED
  BY <1>1, KeepRecursion

(* Keep goes by one tuple at a time. *)
LEMMA KeepStep ==
    ASSUME NEW s \in Seq(Tuples), NEW e \in Tuples, NEW keys
    PROVE  /\ Keep(s, keys) \in Seq(Tuples)
           /\ Keep(Append(s, e), keys) = KeepNext(Keep(s, keys), e, keys)
<1> DEFINE n == Len(s)
           longer == Append(s, e)
<1>1. /\ n \in Nat
      /\ longer \in Seq(Tuples) /\ Len(longer) = n + 1 /\ longer[n + 1] = e
      /\ \A i \in 1..n : longer[i] = s[i]
  BY AppendFacts, EmptyIffNoLength
<1> HIDE DEF longer
<1>2. PICK f \in [0..n -> Seq(Tuples)] :
         /\ Keep(s, keys) = f[n]
         /\ f[0] = <<>>
         /\ \A i \in 1..n : f[i] = KeepNext(f[i - 1], s[i], keys)
  BY KeepRecursion
<1>3. PICK g \in [0..(n + 1) -> Seq(Tuples)] :
         /\ Keep(longer, keys) = g[n + 1]
         /\ g[0] = <<>>
         /\ \A i \in 1..(n + 1) : g[i] = KeepNext(g[i - 1], longer[i], keys)
  <2>1. PICK g \in [0..Len(longer) -> Seq(Tuples)] :
         /\ Keep(longer, keys) = g[Len(longer)]
         /\ g[0] = <<>>
         /\ \A i \in 1..Len(longer) : g[i] = KeepNext(g[i - 1], longer[i], keys)
    BY <1>1, KeepRecursion
  <2> QED
    BY <1>1, <2>1
<1>4. \A i \in 0..n : f[i] = g[i]
  <2> DEFINE same == {i \in 0..n : f[i] = g[i]}
  <2>1. 0 \in same
    BY <1>1, <1>2, <1>3
  <2>2. \A i \in 1..n : i - 1 \in same => i \in same
    BY <1>1, <1>2, <1>3
  <2>3. 0..n \subseteq same
    <3> HIDE DEF same, n
    <3> QED
      BY <1>1, <2>1, <2>2, IntervalInduction
  <2> QED
    BY <2>3
<1>5. f[n] = g[n] /\ f[n] \in Seq(Tuples)
  BY <1>1, <1>4
<1>6. g[n + 1] = KeepNext(g[n], longer[n + 1], keys)
  <2>1. n + 1 \in 1..(n + 1) /\ (n + 1) - 1 = n
    BY <1>1
  <2> HIDE DEF n
  <2> QED
    BY <1>3, <2>1
<1> QED
  BY <1>1, <1>2, <1>3, <1>5, <1>6 DEF longer

(* Nothing is kept of nothing. *)
LEMMA KeepNothing == ASSUME NEW keys PROVE Keep(<<>>, keys) = <<>>
<1>1. <<>> \in Seq(Tuples) /\ Len(<<>>) = 0
  OBVIOUS
<1>2. PICK kept \in [0..0 -> Seq(Tuples)] : Keep(<<>>, keys) = kept[0] /\ kept[0] = <<>>
  BY <1>1, KeepRecursion
<1> QED
  BY <1>2

(* The tuples that stay are those of the keys. *)
LEMMA KeepRange ==
    ASSUME NEW s \in Seq(Tuples), NEW keys
    PROVE  Range(Keep(s, keys)) = {t \in Range(s) : KeyOf[t[1]] \in keys}
<1> DEFINE P == {q \in Seq(Tuples) :
                   Range(Keep(q, keys)) = {t \in Range(q) : KeyOf[t[1]] \in keys}}
<1>1. <<>> \in P
  <2>1. Range(<<>>) = {}
    BY DEF Range
  <2> QED
    BY <2>1, KeepNothing
<1>2. \A q \in Seq(Tuples), e \in Tuples : q \in P => Append(q, e) \in P
  <2> SUFFICES ASSUME NEW q \in Seq(Tuples), NEW e \in Tuples, q \in P PROVE Append(q, e) \in P
    OBVIOUS
  <2>1. /\ Keep(q, keys) \in Seq(Tuples)
        /\ Keep(Append(q, e), keys) = KeepNext(Keep(q, keys), e, keys)
    BY KeepStep
  <2>2. /\ Append(q, e) \in Seq(Tuples)
        /\ Range(Append(q, e)) = Range(q) \cup {e}
        /\ Range(Append(Keep(q, keys), e)) = Range(Keep(q, keys)) \cup {e}
    BY <2>1, RangeOfAppend
  <2> QED
    BY <2>1, <2>2 DEF KeepNext
<1>3. Seq(Tuples) \subseteq P
  <2> HIDE DEF P
  <2> QED
    BY <1>1, <1>2, SeqSetInduction
<1> QED
  BY <1>3

(* To keep twice is to keep what both ask for. *)
LEMMA KeepTwice ==
    ASSUME NEW s \in Seq(Tuples), NEW J, NEW K
    PROVE  Keep(Keep(s, J), K) = Keep(s, J \cap K)
<1> DEFINE P == {q \in Seq(Tuples) : Keep(Keep(q, J), K) = Keep(q, J \cap K)}
<1>1. <<>> \in P
  BY KeepNothing
<1>2. \A q \in Seq(Tuples), e \in Tuples : q \in P => Append(q, e) \in P
  <2> SUFFICES ASSUME NEW q \in Seq(Tuples), NEW e \in Tuples, q \in P PROVE Append(q, e) \in P
    OBVIOUS
  <2> DEFINE inner == Keep(q, J)
             key == KeyOf[e[1]]
  <2>1. /\ inner \in Seq(Tuples)
        /\ Keep(Append(q, e), J) = IF key \in J THEN Append(inner, e) ELSE inner
        /\ Keep(Append(q, e), J \cap K)
              = IF key \in J \cap K THEN Append(Keep(q, J \cap K), e) ELSE Keep(q, J \cap K)
    BY KeepStep DEF KeepNext
  <2>2. Keep(Append(inner, e), K) = IF key \in K THEN Append(Keep(inner, K), e) ELSE Keep(inner, K)
    BY <2>1, KeepStep DEF KeepNext
  <2>3. Keep(inner, K) = Keep(q, J \cap K)
    OBVIOUS
  <2>4. Append(q, e) \in Seq(Tuples)
    OBVIOUS
  <2> HIDE DEF inner, key
  <2>5. Keep(Keep(Append(q, e), J), K) = Keep(Append(q, e), J \cap K)
    <3>1. CASE key \in J
      <4>1. key \in J \cap K <=> key \in K
        BY <3>1
      <4>2. Keep(Append(q, e), J) = Append(inner, e)
        BY <2>1, <3>1
      <4>3. CASE key \in K
        BY <2>1, <2>2, <2>3, <4>1, <4>2, <4>3
      <4>4. CASE key \notin K
        BY <2>1, <2>2, <2>3, <4>1, <4>2, <4>4
      <4> QED
        BY <4>3, <4>4
    <3>2. CASE key \notin J
      BY <2>1, <2>3, <3>2
    <3> QED
      BY <3>1, <3>2
  <2> QED
    BY <2>4, <2>5
<1>3. Seq(Tuples) \subseteq P
  <2> HIDE DEF P
  <2> QED
    BY <1>1, <1>2, SeqSetInduction
<1> QED
  BY <1>3

-----------------------------------------------------------------------------
(* The operations of Headers.  HeadersOf(s) is the object both of whose    *)
(* representations say s: what each operation makes of it is of that form. *)

KeysIn(s) == {KeyOf[t[1]] : t \in Range(s)}
EntryOf(mine) == [name |-> mine[1][1], values |-> [i \in DOMAIN mine |-> mine[i][2]]]
HeadersOf(s) ==
    [store |-> [k \in KeysIn(s) |-> EntryOf(Keep(s, {k}))], entriesList |-> s]

(* A name has tuples exactly if it is among the keys. *)
LEMMA KeysInFacts ==
    ASSUME NEW s \in Seq(Tuples)
    PROVE  /\ \A k : Keep(s, {k}) = <<>> <=> k \notin KeysIn(s)
           /\ KeysIn(s) \subseteq AllKeys
           /\ \A keys : KeysIn(Keep(s, keys)) = KeysIn(s) \cap keys
           /\ \A t \in Tuples : KeysIn(Append(s, t)) = KeysIn(s) \cup {KeyOf[t[1]]}
<1>1. ASSUME NEW k PROVE Keep(s, {k}) = <<>> <=> k \notin KeysIn(s)
  <2>1. Keep(s, {k}) \in Seq(Tuples) /\ Range(Keep(s, {k})) = {t \in Range(s) : KeyOf[t[1]] = k}
    <3>1. Range(Keep(s, {k})) = {t \in Range(s) : KeyOf[t[1]] \in {k}}
      BY KeepRange
    <3> QED
      BY <3>1, KeepType
  <2>2. \A q \in Seq(Tuples) : q = <<>> <=> Range(q) = {}
    BY EmptyIffNoLength DEF Range
  <2> QED
    BY <2>1, <2>2 DEF KeysIn
<1>2. KeysIn(s) \subseteq AllKeys
  <2>1. Range(s) \subseteq Tuples
    BY EmptyIffNoLength DEF Range
  <2> QED
    BY <2>1 DEF KeysIn, AllKeys, Tuples
<1>3. ASSUME NEW keys PROVE KeysIn(Keep(s, keys)) = KeysIn(s) \cap keys
  BY KeepRange DEF KeysIn
<1>4. ASSUME NEW t \in Tuples PROVE KeysIn(Append(s, t)) = KeysIn(s) \cup {KeyOf[t[1]]}
  <2>1. Range(Append(s, t)) = Range(s) \cup {t}
    BY RangeOfAppend
  <2> QED
    BY <2>1 DEF KeysIn
<1> QED
  BY <1>1, <1>2, <1>3, <1>4

(* A name's entry with one more tuple. *)
LEMMA EntryOfAppend ==
    ASSUME NEW mine \in Seq(Tuples), NEW t \in Tuples
    PROVE  /\ EntryOf(mine).values \in Seq(AnyValue)
           /\ EntryOf(<<>>).values = <<>>
           /\ EntryOf(Append(mine, t)) =
                 [name |-> IF mine = <<>> THEN t[1] ELSE EntryOf(mine).name,
                  values |-> Append(EntryOf(mine).values, t[2])]
<1> DEFINE n == Len(mine)
           longer == Append(mine, t)
           said == EntryOf(mine).values
<1>1. /\ n \in Nat /\ DOMAIN mine = 1..n
      /\ \A i \in 1..n : mine[i] \in Tuples
      /\ mine = <<>> <=> n = 0
      /\ longer \in Seq(Tuples) /\ Len(longer) = n + 1 /\ longer[n + 1] = t
      /\ DOMAIN longer = 1..(n + 1)
      /\ \A i \in 1..n : longer[i] = mine[i]
  BY AppendFacts, EmptyIffNoLength
<1>2. \A u \in Tuples : u[2] \in AnyValue
  BY DEF Tuples
<1>3. said \in Seq(AnyValue) /\ Len(said) = n /\ \A i \in 1..n : said[i] = mine[i][2]
  BY <1>1, <1>2 DEF EntryOf
<1>4. EntryOf(<<>>).values = <<>>
  BY DEF EntryOf
<1>5. EntryOf(longer).values = Append(said, t[2])
  <2>1. /\ Append(said, t[2]) \in Seq(AnyValue) /\ Len(Append(said, t[2])) = n + 1
        /\ \A i \in 1..n : Append(said, t[2])[i] = said[i]
        /\ Append(said, t[2])[n + 1] = t[2]
    BY <1>2, <1>3, AppendFacts
  <2> DEFINE new == EntryOf(longer).values
  <2>2. /\ new = [i \in 1..(n + 1) |-> longer[i][2]]
    BY <1>1 DEF EntryOf
  <2>3. \A i \in 1..(n + 1) : longer[i] \in Tuples
    BY <1>1, EmptyIffNoLength
  <2>4. new \in Seq(AnyValue) /\ Len(new) = n + 1
    <3> HIDE DEF new, longer, n
    <3> QED
      BY <1>1, <1>2, <2>2, <2>3
  <2>5. \A i \in 1..(n + 1) : new[i] = Append(said, t[2])[i]
    <3> HIDE DEF new, longer, said, n
    <3> QED
      BY <1>1, <1>3, <2>1, <2>2
  <2> HIDE DEF new, said, longer
  <2> QED
    BY <2>1, <2>4, <2>5, SeqEqual DEF new
<1>6. EntryOf(longer).name = IF mine = <<>> THEN t[1] ELSE EntryOf(mine).name
  <2>1. longer[1] = IF mine = <<>> THEN t ELSE mine[1]
    BY <1>1
  <2> HIDE DEF longer
  <2> QED
    BY <2>1 DEF EntryOf
<1>7. EntryOf(longer) = [name |-> EntryOf(longer).name, values |-> EntryOf(longer).values]
  BY DEF EntryOf
<1> QED
  BY <1>3, <1>4, <1>5, <1>6, <1>7

(* append() *)
LEMMA AppendMakesHeaders ==
    ASSUME NEW s \in Seq(Tuples), NEW t \in Tuples
    PROVE  AppendTo(HeadersOf(s), t[1], t[2]) = HeadersOf(Append(s, t))
<1> DEFINE h == HeadersOf(s)
           key == KeyOf[t[1]]
           longer == Append(s, t)
           entry == [name |-> IF Has(h, key) THEN h.store[key].name ELSE t[1],
                     values |-> Append(Get(h, key), t[2])]
<1>0. t = <<t[1], t[2]>>
  BY DEF Tuples
<1>1. KeysIn(longer) = KeysIn(s) \cup {key}
  BY KeysInFacts
<1>2. \A k : /\ Keep(s, {k}) \in Seq(Tuples)
             /\ Keep(longer, {k}) = IF key = k THEN Append(Keep(s, {k}), t) ELSE Keep(s, {k})
  BY KeepStep DEF KeepNext
<1>3. DOMAIN h.store = KeysIn(s) /\ \A k \in KeysIn(s) : h.store[k] = EntryOf(Keep(s, {k}))
  BY DEF HeadersOf
<1>4. entry = EntryOf(Keep(longer, {key}))
  <2> DEFINE mine == Keep(s, {key})
  <2>1. mine = <<>> <=> key \notin KeysIn(s)
    BY KeysInFacts
  <2>2. Get(h, key) = EntryOf(mine).values
    <3>1. CASE key \in KeysIn(s)
      BY <1>3, <3>1 DEF Get, Has
    <3>2. CASE key \notin KeysIn(s)
      <4>1. EntryOf(mine).values = <<>>
        BY <2>1, <3>2, <1>2, EntryOfAppend
      <4> QED
        BY <1>3, <3>2, <4>1 DEF Get, Has
    <3> QED
      BY <3>1, <3>2
  <2>3. (IF Has(h, key) THEN h.store[key].name ELSE t[1])
           = IF mine = <<>> THEN t[1] ELSE EntryOf(mine).name
    BY <1>3, <2>1 DEF Has
  <2>4. EntryOf(Append(mine, t)) = [name |-> IF mine = <<>> THEN t[1] ELSE EntryOf(mine).name,
                                   values |-> Append(EntryOf(mine).values, t[2])]
    BY <1>2, EntryOfAppend
  <2>5. Keep(longer, {key}) = Append(mine, t)
    BY <1>2
  <2> HIDE DEF h, mine, longer
  <2> QED
    BY <2>2, <2>3, <2>4, <2>5
<1>5. Stored(h, key, entry) = [k \in KeysIn(longer) |-> EntryOf(Keep(longer, {k}))]
  <2>1. \A k \in KeysIn(longer) : k # key => k \in KeysIn(s) /\ Keep(longer, {k}) = Keep(s, {k})
    BY <1>1, <1>2
  <2> HIDE DEF h, entry, longer, key
  <2>2. \A k \in KeysIn(longer) :
           (IF k = key THEN entry ELSE h.store[k]) = EntryOf(Keep(longer, {k}))
    BY <1>3, <1>4, <2>1
  <2> QED
    BY <1>1, <1>3, <2>2 DEF Stored
<1>6. AppendTo(h, t[1], t[2]) = [store |-> Stored(h, key, entry), entriesList |-> longer]
  BY <1>0 DEF AppendTo, HeadersOf
<1> HIDE DEF h, entry, longer, key
<1>7. AppendTo(h, t[1], t[2]) = HeadersOf(longer)
  BY <1>5, <1>6 DEF HeadersOf
<1> QED
  BY <1>7 DEF h, longer

(* delete(), of any number of keys *)
LEMMA DeleteMakesHeaders ==
    ASSUME NEW s \in Seq(Tuples), NEW keys
    PROVE  DeleteFrom(HeadersOf(s), keys) = HeadersOf(Keep(s, AllKeys \ keys))
<1> DEFINE h == HeadersOf(s)
           rest == Keep(s, AllKeys \ keys)
<1>1. KeysIn(rest) = KeysIn(s) \ keys
  BY KeysInFacts
<1>2. ASSUME NEW k \in KeysIn(rest) PROVE Keep(rest, {k}) = Keep(s, {k})
  <2>1. (AllKeys \ keys) \cap {k} = {k}
    BY <1>1, KeysInFacts
  <2>2. Keep(rest, {k}) = Keep(s, (AllKeys \ keys) \cap {k})
    BY KeepTwice
  <2> QED
    BY <2>1, <2>2
<1>3. DOMAIN h.store = KeysIn(s) /\ \A k \in KeysIn(s) : h.store[k] = EntryOf(Keep(s, {k}))
  BY DEF HeadersOf
<1>4. DeleteFrom(h, keys) = [store |-> [k \in KeysIn(s) \ keys |-> h.store[k]],
                             entriesList |-> rest]
  BY DEF DeleteFrom, Without, HeadersOf
<1> HIDE DEF h, rest
<1>5. [k \in KeysIn(s) \ keys |-> h.store[k]] = [k \in KeysIn(rest) |-> EntryOf(Keep(rest, {k}))]
  BY <1>1, <1>2, <1>3
<1>6. DeleteFrom(h, keys) = HeadersOf(rest)
  BY <1>4, <1>5 DEF HeadersOf
<1> QED
  BY <1>6 DEF h, rest

(* set() is delete() and then append(). *)
LEMMA SetIsDeleteAndAppend ==
    ASSUME NEW h, NEW name, NEW value
    PROVE  SetIn(h, name, value) = AppendTo(DeleteFrom(h, {KeyOf[name]}), name, value)
<1> DEFINE key == KeyOf[name]
           d == DeleteFrom(h, {key})
<1>1. /\ DOMAIN d.store = DOMAIN h.store \ {key}
      /\ \A k \in DOMAIN d.store : d.store[k] = h.store[k]
      /\ d.entriesList = Without(h, {key})
  BY DEF DeleteFrom
<1> HIDE DEF d
<1>2. ~Has(d, key) /\ Get(d, key) = <<>>
  BY <1>1 DEF Has, Get
<1>3. Append(<<>>, value) = <<value>>
  OBVIOUS
<1>4. AppendTo(d, name, value) =
         [store |-> Stored(d, key, [name |-> name, values |-> <<value>>]),
          entriesList |-> Append(d.entriesList, <<name, value>>)]
  BY <1>2, <1>3 DEF AppendTo
<1>5. ASSUME NEW entry PROVE Stored(d, key, entry) = Stored(h, key, entry)
  <2>1. DOMAIN d.store \cup {key} = DOMAIN h.store \cup {key}
    BY <1>1
  <2>2. \A k \in DOMAIN h.store \cup {key} :
           (IF k = key THEN entry ELSE d.store[k]) = (IF k = key THEN entry ELSE h.store[k])
    BY <1>1
  <2> QED
    BY <2>1, <2>2 DEF Stored
<1>6. AppendTo(d, name, value) = SetIn(h, name, value)
  BY <1>1, <1>4, <1>5 DEF SetIn
<1> QED
  BY <1>6 DEF d

(* set() *)
LEMMA SetMakesHeaders ==
    ASSUME NEW s \in Seq(Tuples), NEW t \in Tuples
    PROVE  SetIn(HeadersOf(s), t[1], t[2])
              = HeadersOf(Append(Keep(s, AllKeys \ {KeyOf[t[1]]}), t))
<1> DEFINE rest == Keep(s, AllKeys \ {KeyOf[t[1]]})
<1>1. SetIn(HeadersOf(s), t[1], t[2]) = AppendTo(HeadersOf(rest), t[1], t[2])
  BY SetIsDeleteAndAppend, DeleteMakesHeaders
<1>2. rest \in Seq(Tuples)
  BY KeepType
<1> QED
  BY <1>1, <1>2, AppendMakesHeaders

(* An object without headers. *)
LEMMA NoHeadersAtAll == HeadersOf(<<>>) = NoHeaders
<1>1. KeysIn(<<>>) = {}
  BY DEF KeysIn, Range
<1> QED
  BY <1>1 DEF HeadersOf, NoHeaders

(* new Headers(tuples) says those tuples, in both representations. *)
THEOREM FromTuplesMakesHeaders ==
    ASSUME NEW s \in Seq(Tuples)
    PROVE  FromTuples(s) = HeadersOf(s)
<1> DEFINE n == Len(s)
           Body(f) == [i \in 0..n |->
                         IF i = 0 THEN NoHeaders ELSE AppendTo(f[i - 1], s[i][1], s[i][2])]
           said == [i \in 0..n |-> HeadersOf(SubSeq(s, 1, i))]
           read == CHOOSE f : f = Body(f)
<1>1. n \in Nat /\ \A i \in 1..n : s[i] \in Tuples
  BY EmptyIffNoLength
<1>2. said[0] = NoHeaders /\ said[n] = HeadersOf(s)
  <2>1. 0 \in 0..n /\ n \in 0..n
    BY <1>1
  <2>2. said[0] = HeadersOf(SubSeq(s, 1, 0)) /\ said[n] = HeadersOf(SubSeq(s, 1, n))
    BY <2>1
  <2>3. SubSeq(s, 1, 0) = <<>> /\ SubSeq(s, 1, n) = s
    BY PrefixFacts
  <2> HIDE DEF said, n
  <2> QED
    BY <2>2, <2>3, NoHeadersAtAll
<1>3. ASSUME NEW i \in 1..n PROVE said[i] = AppendTo(said[i - 1], s[i][1], s[i][2])
  <2>1. i - 1 \in 0..n /\ i \in 0..n
    BY <1>1
  <2>2. /\ SubSeq(s, 1, i - 1) \in Seq(Tuples)
        /\ SubSeq(s, 1, i) = Append(SubSeq(s, 1, i - 1), s[i])
    BY <2>1, PrefixFacts
  <2>3. AppendTo(HeadersOf(SubSeq(s, 1, i - 1)), s[i][1], s[i][2]) = HeadersOf(SubSeq(s, 1, i))
    BY <1>1, <2>2, AppendMakesHeaders
  <2> QED
    BY <2>1, <2>3
<1>4. said = Body(said)
  <2>1. \A i \in 0..n : i = 0 \/ i \in 1..n
    BY <1>1
  <2>2. ASSUME NEW i \in 0..n PROVE said[i] = Body(said)[i]
    <3> HIDE DEF said, n
    <3> QED
      BY <1>2, <1>3, <2>1
  <2> HIDE DEF n
  <2> QED
    BY <2>2
<1>5. read = Body(read)
  BY <1>4
<1>6. FromTuples(s) = read[n]
  BY DEF FromTuples
<1>7. \A i \in 0..n : read[i] = said[i]
  <2> DEFINE same == {i \in 0..n : read[i] = said[i]}
  <2>1. 0 \in same
    <3>1. 0 \in 0..n /\ Body(read)[0] = NoHeaders
      BY <1>1
    <3> HIDE DEF read, Body, said
    <3> QED
      BY <1>2, <1>5, <3>1
  <2>2. \A i \in 1..n : i - 1 \in same => i \in same
    <3> SUFFICES ASSUME NEW i \in 1..n, read[i - 1] = said[i - 1] PROVE i \in same
      OBVIOUS
    <3>1. i \in 0..n /\ i # 0
      BY <1>1
    <3>2. Body(read)[i] = AppendTo(read[i - 1], s[i][1], s[i][2])
      <4> HIDE DEF read, n
      <4> QED
        BY <3>1
    <3> HIDE DEF read, Body, said, n
    <3> QED
      BY <1>3, <1>5, <3>1, <3>2
  <2>3. 0..n \subseteq same
    <3> HIDE DEF same, n
    <3> QED
      BY <1>1, <2>1, <2>2, IntervalInduction
  <2> QED
    BY <2>3
<1>8. n \in 0..n
  BY <1>1
<1> HIDE DEF read, said, n
<1> QED
  BY <1>2, <1>6, <1>7, <1>8

(* Both representations of such an object agree, and a copy is the same. *)
LEMMA HeadersAgree ==
    ASSUME NEW s \in Seq(Tuples)
    PROVE  Agree(HeadersOf(s)) /\ CopyOf(HeadersOf(s)) = HeadersOf(s)
<1> DEFINE h == HeadersOf(s)
<1>1. h.entriesList = s /\ h.store = [k \in KeysIn(s) |-> EntryOf(Keep(s, {k}))]
  BY DEF HeadersOf
<1> HIDE DEF h
<1>2. KeysIn(s) = {KeyAt(h, i) : i \in DOMAIN h.entriesList}
  BY <1>1 DEF KeysIn, KeyAt, Range
<1>3. ASSUME NEW k \in KeysIn(s)
      PROVE  /\ h.store[k].name = Keep(s, {k})[1][1]
             /\ h.store[k].values = [i \in DOMAIN Keep(s, {k}) |-> Keep(s, {k})[i][2]]
  <2>1. h.store[k] = EntryOf(Keep(s, {k}))
    BY <1>1
  <2> QED
    BY <2>1 DEF EntryOf
<1>4. Agree(h)
  BY <1>1, <1>2, <1>3 DEF Agree
<1>5. CopyOf(h) = h
  BY <1>1, FromTuplesMakesHeaders DEF CopyOf, h
<1> QED
  BY <1>4, <1>5 DEF h

(* The client's headers merged with those of a call: again both            *)
(* representations agree, and no tuple comes from elsewhere.               *)
LEMMA MergeMakesHeaders ==
    ASSUME NEW d \in Seq(Tuples), NEW e \in Seq(Tuples)
    PROVE  \E q \in Seq(Tuples) :
              MergeHeaders(d, e) = HeadersOf(q) /\ Range(q) \subseteq Range(d) \cup Range(e)
<1> DEFINE tuples == d \o e
           n == Len(tuples)
           Body(f) == [i \in 0..n |->
                         IF i = 0 THEN NoHeaders ELSE SetIn(f[i - 1], tuples[i][1], tuples[i][2])]
           merged == CHOOSE f : f = Body(f)
           Lists == {q \in Seq(Tuples) : Range(q) \subseteq Range(tuples)}
           H == {HeadersOf(q) : q \in Lists}
           step == [i \in 1..n |-> [h \in H |-> SetIn(h, tuples[i][1], tuples[i][2])]]
<1>1. /\ tuples \in Seq(Tuples) /\ n \in Nat
      /\ \A i \in 1..n : tuples[i] \in Tuples /\ tuples[i] \in Range(tuples)
      /\ Range(tuples) = Range(d) \cup Range(e)
  <2>1. tuples \in Seq(Tuples)
    OBVIOUS
  <2>2. Range(tuples) = Range(d) \cup Range(e)
    BY RangeConcatenation
  <2> HIDE DEF tuples
  <2> QED
    BY <2>1, <2>2, EmptyIffNoLength DEF Range
<1>2. MergeHeaders(d, e) = merged[n]
  <2>1. FromTuples(d).entriesList = d /\ FromTuples(e).entriesList = e
    BY FromTuplesMakesHeaders DEF HeadersOf
  <2> QED
    BY <2>1 DEF MergeHeaders
<1>3. NoHeaders \in H
  <2>1. <<>> \in Lists
    BY DEF Range
  <2> HIDE DEF Lists
  <2> QED
    BY <2>1, NoHeadersAtAll
<1>4. ASSUME NEW i \in 1..n, NEW h \in H PROVE SetIn(h, tuples[i][1], tuples[i][2]) \in H
  <2>1. PICK q \in Lists : h = HeadersOf(q)
    OBVIOUS
  <2> DEFINE t == tuples[i]
             rest == Keep(q, AllKeys \ {KeyOf[t[1]]})
             new == Append(rest, t)
  <2>2. t \in Tuples /\ t \in Range(tuples) /\ rest \in Seq(Tuples) /\ Range(rest) \subseteq Range(q)
    BY <1>1, KeepType, KeepRange
  <2>3. new \in Seq(Tuples) /\ Range(new) = Range(rest) \cup {t}
    <3> HIDE DEF rest, t
    <3> QED
      BY <2>2, RangeOfAppend
  <2>4. new \in Lists
    BY <2>2, <2>3
  <2>5. SetIn(h, t[1], t[2]) = HeadersOf(new)
    BY <2>1, <2>2, SetMakesHeaders
  <2> HIDE DEF new, Lists, t
  <2>6. SetIn(h, t[1], t[2]) \in H
    BY <2>4, <2>5
  <2> QED
    BY <2>6 DEF t
<1>5. step \in [1..n -> [H -> H]]
  <2> HIDE DEF H, n, tuples
  <2> QED
    BY <1>4
<1>6. PICK f \in [0..n -> H] : Follows(f, n, NoHeaders, step)
  <2> HIDE DEF step, n, H
  <2> QED
    BY <1>1, <1>3, <1>5, RecursionExists
<1>7. /\ f[0] = NoHeaders
      /\ \A i \in 1..n : f[i] = SetIn(f[i - 1], tuples[i][1], tuples[i][2])
  <2>1. f[0] = NoHeaders /\ \A i \in 1..n : f[i] = step[i][f[i - 1]]
    BY <1>6 DEF Follows
  <2>2. \A i \in 1..n : f[i - 1] \in H
    <3>1. \A i \in 1..n : i - 1 \in 0..n
      BY <1>1
    <3> HIDE DEF H, n
    <3> QED
      BY <3>1
  <2> HIDE DEF H, n, tuples
  <2> QED
    BY <2>1, <2>2
<1>8. f = Body(f)
  <2>1. \A i \in 0..n : i = 0 \/ i \in 1..n
    BY <1>1
  <2>2. ASSUME NEW i \in 0..n PROVE f[i] = Body(f)[i]
    <3> HIDE DEF n, tuples
    <3> QED
      BY <1>7, <2>1
  <2> HIDE DEF n, tuples
  <2> QED
    BY <2>2
<1>9. merged = Body(merged)
  BY <1>8
<1>10. \A i \in 0..n : merged[i] = f[i]
  <2> DEFINE same == {i \in 0..n : merged[i] = f[i]}
  <2>1. 0 \in same
    <3>1. 0 \in 0..n /\ Body(merged)[0] = NoHeaders
      BY <1>1
    <3> HIDE DEF merged, Body, n
    <3> QED
      BY <1>7, <1>9, <3>1
  <2>2. \A i \in 1..n : i - 1 \in same => i \in same
    <3> SUFFICES ASSUME NEW i \in 1..n, merged[i - 1] = f[i - 1] PROVE i \in same
      OBVIOUS
    <3>1. i \in 0..n /\ i # 0
      BY <1>1
    <3>2. Body(merged)[i] = SetIn(merged[i - 1], tuples[i][1], tuples[i][2])
      <4> HIDE DEF merged, n, tuples
      <4> QED
        BY <3>1
    <3> HIDE DEF merged, Body, n, tuples
    <3> QED
      BY <1>7, <1>9, <3>1, <3>2
  <2>3. 0..n \subseteq same
    <3> HIDE DEF same, n
    <3> QED
      BY <1>1, <2>1, <2>2, IntervalInduction
  <2> QED
    BY <2>3
<1>11. merged[n] \in H
  <2>1. n \in 0..n
    BY <1>1
  <2> HIDE DEF merged, n, H
  <2> QED
    BY <1>10, <2>1
<1> HIDE DEF merged, n, tuples
<1> QED
  BY <1>1, <1>2, <1>11

-----------------------------------------------------------------------------
(* The policy and the Referer of a redirect.                               *)

(* The last token of a Referrer-Policy header that is a policy counts, as  *)
(* the standard says, and without one the policy stays.                    *)
THEOREM LastPolicyCounts ==
    ASSUME NEW tokens \in Seq(STRING), known \in Policies
    PROVE  /\ ResponseReferrerPolicy(tokens, known) = Known(tokens)
           /\ Known(tokens) \in Policies
<1> DEFINE n == Len(tokens)
           Body(f) == [i \in 0..n |->
                         IF i = 0 THEN known
                         ELSE IF tokens[i] \in Policies THEN tokens[i] ELSE f[i - 1]]
           policyBy == CHOOSE f : f = Body(f)
           named(i) == {j \in 1..i : tokens[j] \in Policies}
           last(i) == CHOOSE j \in named(i) : \A k \in named(i) : k <= j
           policyAt(i) == IF named(i) = {} THEN known ELSE tokens[last(i)]
           said == [i \in 0..n |-> policyAt(i)]
<1>1. n \in Nat /\ DOMAIN tokens = 1..n
  BY EmptyIffNoLength
<1>2. said[0] = known /\ said[n] = Known(tokens)
  <2>1. 0 \in 0..n /\ n \in 0..n /\ named(0) = {}
    BY <1>1
  <2>2. said[n] = Known(tokens)
    BY <1>1, <2>1 DEF Known
  <2> QED
    BY <2>1, <2>2
<1>3. ASSUME NEW i \in 1..n
      PROVE  said[i] = IF tokens[i] \in Policies THEN tokens[i] ELSE said[i - 1]
  <2>1. i \in Nat /\ i \in 0..n /\ i - 1 \in 0..n
    BY <1>1
  <2>2. CASE tokens[i] \in Policies
    <3>1. i \in named(i) /\ \A k \in named(i) : k <= i
      BY <2>1, <2>2
    <3>2. last(i) \in named(i) /\ \A k \in named(i) : k <= last(i)
      <4> HIDE DEF named
      <4> QED
        BY <3>1
    <3>3. last(i) = i
      <4> HIDE DEF last
      <4> QED
        BY <2>1, <3>1, <3>2
    <3> HIDE DEF last, named
    <3> QED
      BY <2>1, <2>2, <3>1, <3>3
  <2>3. CASE tokens[i] \notin Policies
    <3>1. named(i) = named(i - 1)
      BY <2>1, <2>3
    <3> HIDE DEF named
    <3> QED
      BY <2>1, <2>3, <3>1
  <2> QED
    BY <2>2, <2>3
<1>4. said = [i \in 0..n |-> said[i]]
  <2> HIDE DEF policyAt
  <2> QED
    OBVIOUS
<1> HIDE DEF said
<1>5. said = Body(said)
  <2>1. \A i \in 0..n : i = 0 \/ i \in 1..n
    BY <1>1
  <2>2. ASSUME NEW i \in 0..n PROVE said[i] = Body(said)[i]
    <3> HIDE DEF n
    <3> QED
      BY <1>2, <1>3, <2>1
  <2> HIDE DEF n
  <2> QED
    BY <1>4, <2>2
<1>6. policyBy = Body(policyBy)
  BY <1>5
<1>7. ResponseReferrerPolicy(tokens, known) = policyBy[n]
  BY DEF ResponseReferrerPolicy
<1>8. \A i \in 0..n : policyBy[i] = said[i] /\ said[i] \in Policies
  <2> DEFINE same == {i \in 0..n : policyBy[i] = said[i] /\ said[i] \in Policies}
  <2>1. 0 \in same
    <3>1. 0 \in 0..n /\ Body(policyBy)[0] = known
      BY <1>1
    <3> HIDE DEF policyBy, Body, n
    <3> QED
      BY <1>2, <1>6, <3>1
  <2>2. \A i \in 1..n : i - 1 \in same => i \in same
    <3> SUFFICES ASSUME NEW i \in 1..n, policyBy[i - 1] = said[i - 1], said[i - 1] \in Policies
                 PROVE  i \in same
      OBVIOUS
    <3>1. i \in 0..n /\ i # 0
      BY <1>1
    <3>2. Body(policyBy)[i] = IF tokens[i] \in Policies THEN tokens[i] ELSE policyBy[i - 1]
      <4> HIDE DEF policyBy, n
      <4> QED
        BY <3>1
    <3> HIDE DEF policyBy, Body, n
    <3> QED
      BY <1>3, <1>6, <3>1, <3>2
  <2>3. 0..n \subseteq same
    <3> HIDE DEF same, n
    <3> QED
      BY <1>1, <2>1, <2>2, IntervalInduction
  <2> QED
    BY <2>3
<1>9. n \in 0..n
  BY <1>1
<1> HIDE DEF policyBy, n
<1> QED
  BY <1>2, <1>7, <1>8, <1>9

\* A Referer as a redirect writes it, which is all that the code may write.
Rewritten == [origin : Origins, shows : {"origin", "path"}]

\* What the standard makes of a referrer on the way to an origin.
CutDown(r, p, to) ==
    IF r = NoReferer \/ Discloses(p, r.origin, to) = "nothing" THEN NoReferer
    ELSE [r EXCEPT !.shows = IF Discloses(p, r.origin, to) = "origin" THEN "origin" ELSE @]

(* The switch of applyRedirectReferrerPolicy is the standard's answer for  *)
(* each of the policies: what must not be shown is deleted, and the rest   *)
(* is written.                                                             *)
THEOREM SwitchFollowsStandard ==
    ASSUME NEW h, NEW p \in Policies, NEW to, ParseReferrer(h) \in Rewritten \cup {NoReferer}
    PROVE  ApplyRedirectReferrerPolicy(h, to, p) =
             LET r == CutDown(ParseReferrer(h), p, to) IN
             IF r = NoReferer THEN DeleteFrom(h, {"referer"}) ELSE SetIn(h, "Referer", r)
<1> DEFINE r == ParseReferrer(h)
           downgrade == r.origin \in Secure /\ to \in Insecure
           same == r.origin = to
           dropped == \/ p = "no-referrer"
                      \/ p \in {"no-referrer-when-downgrade", "strict-origin"} /\ downgrade
                      \/ p = "same-origin" /\ ~same
                      \/ p = "strict-origin-when-cross-origin" /\ ~same /\ downgrade
           toOrigin == \/ p \in {"origin", "strict-origin"}
                       \/ /\ p \in {"origin-when-cross-origin", "strict-origin-when-cross-origin"}
                          /\ ~same
           shown == IF toOrigin THEN [r EXCEPT !.shows = "origin"] ELSE r
<1>1. ApplyRedirectReferrerPolicy(h, to, p) =
        IF r = NoReferer \/ dropped THEN DeleteFrom(h, {"referer"}) ELSE SetIn(h, "Referer", shown)
  BY DEF ApplyRedirectReferrerPolicy, Policies
<1>2. CASE r = NoReferer
  BY <1>1, <1>2 DEF CutDown
<1>3. CASE r \in Rewritten
  <2>1. r # NoReferer /\ shown # NoReferer /\ r = [r EXCEPT !.shows = @]
    <3> HIDE DEF r
    <3>1. ASSUME NEW q \in Rewritten
          PROVE  q # NoReferer /\ [q EXCEPT !.shows = "origin"] # NoReferer
                    /\ q = [q EXCEPT !.shows = @]
      <4>1. q.shows # "nothing" /\ [q EXCEPT !.shows = "origin"].shows # "nothing"
        BY <3>1 DEF Rewritten
      <4>2. NoReferer.shows = "nothing"
        BY DEF NoReferer
      <4>3. q = [q EXCEPT !.shows = @]
        BY <3>1 DEF Rewritten
      <4> QED
        BY <4>1, <4>2, <4>3
    <3> QED
      BY <1>3, <3>1
  <2>0. same <=> r.origin = to
    OBVIOUS
  <2>2. /\ dropped <=> Discloses(p, r.origin, to) = "nothing"
        /\ ~dropped => (toOrigin <=> Discloses(p, r.origin, to) = "origin")
    <3> DEFINE nothing == {"no-referrer"}
                   \cup (IF r.origin # to THEN {"same-origin"} ELSE {})
                   \cup (IF downgrade THEN {"no-referrer-when-downgrade", "strict-origin",
                                           "strict-origin-when-cross-origin"} ELSE {})
               everything == {"unsafe-url", "no-referrer-when-downgrade"}
                      \cup (IF r.origin = to THEN {"same-origin", "origin-when-cross-origin",
                                              "strict-origin-when-cross-origin"} ELSE {})
    <3>1. Discloses(p, r.origin, to)
            = IF p \in nothing THEN "nothing" ELSE IF p \in everything THEN "path" ELSE "origin"
      BY DEF Discloses
    <3>2. ~(same /\ downgrade)
      BY RedirectAssumption
    <3> HIDE DEF r, same, downgrade
    <3> QED
      BY <2>0, <3>1, <3>2 DEF Policies
  <2>4. ~dropped => CutDown(r, p, to) = shown
    BY <2>1, <2>2 DEF CutDown
  <2>5. dropped => CutDown(r, p, to) = NoReferer
    BY <2>2 DEF CutDown
  <2> HIDE DEF r, dropped, shown
  <2> QED
    BY <1>1, <2>1, <2>4, <2>5 DEF r
<1> QED
  BY <1>2, <1>3

(* What get() tells after append(), set() and delete(). *)
LEMMA GetAfter ==
    ASSUME NEW h, NEW name, NEW value, NEW key
    PROVE  /\ Get(SetIn(h, name, value), key) = IF key = KeyOf[name] THEN <<value>> ELSE Get(h, key)
           /\ key # KeyOf[name] => Get(AppendTo(h, name, value), key) = Get(h, key)
           /\ \A keys : Get(DeleteFrom(h, keys), key) = IF key \in keys THEN <<>> ELSE Get(h, key)
<1>1. ASSUME NEW entry, NEW list, NEW own
      PROVE  Get([store |-> Stored(h, own, entry), entriesList |-> list], key)
               = IF key = own THEN entry.values ELSE Get(h, key)
  BY DEF Get, Has, Stored
<1>2. Get(SetIn(h, name, value), key) = IF key = KeyOf[name] THEN <<value>> ELSE Get(h, key)
  BY <1>1 DEF SetIn
<1>3. key # KeyOf[name] => Get(AppendTo(h, name, value), key) = Get(h, key)
  BY <1>1 DEF AppendTo
<1>4. ASSUME NEW keys
      PROVE  Get(DeleteFrom(h, keys), key) = IF key \in keys THEN <<>> ELSE Get(h, key)
  BY DEF Get, Has, DeleteFrom
<1> QED
  BY <1>2, <1>3, <1>4

-----------------------------------------------------------------------------
(* The inductive invariant. *)

(* Both representations say the tuples, each of which has a value that its *)
(* name may have at this origin.                                           *)
WellSaid ==
    /\ headers.entriesList \in Seq(Tuples)
    /\ headers = HeadersOf(headers.entriesList)
    /\ \A t \in Range(headers.entriesList) : t[2] \in ValuesOf(t[1])

(* A Referer that a redirect has left is the one the standard asks for. *)
RefererDue ==
    /\ due \in Rewritten \cup {NoReferer, Given}
    /\ due # Given => Get(headers, "referer") = IF due = NoReferer THEN <<>> ELSE <<due>>

IInv ==
    /\ at \in Origins
    /\ WellSaid
    /\ policy \in Policies /\ policy = known
    /\ RefererDue

(* The tuples that the program may add now. *)
LEMMA TuplesOfValues ==
    ASSUME at \in Origins, NEW n \in Names, NEW v \in ValuesOf(n)
    PROVE  <<n, v>> \in Tuples
BY DEF ValuesOf, Tuples, AnyValue

(* What a redirect reads from the Referer is a URL it may write. *)
LEMMA ParsedReferrer ==
    ASSUME WellSaid
    PROVE  ParseReferrer(headers) \in Rewritten \cup {NoReferer}
<1> DEFINE s == headers.entriesList
           mine == Keep(s, {"referer"})
           values == Get(headers, "referer")
<1>1. mine \in Seq(Tuples) /\ \A i \in 1..Len(mine) : mine[i] \in Range(mine)
  BY KeepType, EmptyIffNoLength DEF WellSaid, Range
<1>2. \A t \in Range(mine) : t[2] \in Referers
  <2>1. \A t \in Range(mine) : t \in Range(s) /\ KeyOf[t[1]] \in {"referer"}
    BY KeepRange DEF WellSaid
  <2> HIDE DEF mine, s
  <2> QED
    BY <2>1 DEF WellSaid, ValuesOf, s
<1>3. values = EntryOf(mine).values
  <2>1. headers = HeadersOf(s) /\ s \in Seq(Tuples)
    BY DEF WellSaid
  <2> HIDE DEF s
  <2>2. mine = <<>> <=> "referer" \notin KeysIn(s)
    BY <2>1, KeysInFacts
  <2>3. EntryOf(<<>>).values = <<>>
    BY DEF EntryOf
  <2>4. values = IF "referer" \in KeysIn(s) THEN EntryOf(mine).values ELSE <<>>
    BY <2>1 DEF Get, Has, HeadersOf
  <2> HIDE DEF values, mine
  <2> QED
    BY <2>2, <2>3, <2>4
<1>4. values = [i \in 1..Len(mine) |-> mine[i][2]] /\ Len(mine) \in Nat
  BY <1>1, <1>3, EmptyIffNoLength DEF EntryOf
<1>5. values \in Seq(Referers)
  <2> HIDE DEF mine, values
  <2> QED
    BY <1>1, <1>2, <1>4
<1>6. CASE values = <<>>
  BY <1>6 DEF ParseReferrer
<1>7. CASE values # <<>>
  <2> HIDE DEF values
  <2>1. Head(values) \in Referers
    BY <1>5, <1>7, TailFacts
  <2>2. CASE Head(values) = NoReferer
    BY <2>2 DEF ParseReferrer, values
  <2>3. CASE Head(values) # NoReferer
    <3>1. Head(values).origin \in Origins
      BY <2>1, <2>3 DEF Referers
    <3> QED
      BY <1>7, <2>3, <3>1 DEF ParseReferrer, Rewritten, values
  <2> QED
    BY <2>2, <2>3
<1> QED
  BY <1>6, <1>7

(* The call starts with the client's headers and its own. *)
LEMMA InitInv == Init => IInv
<1> SUFFICES ASSUME Init PROVE IInv
  OBVIOUS
<1>1. at \in Origins /\ policy \in Policies /\ policy = known /\ due = Given
  BY DEF Init, Policies
<1>2. PICK d \in Defaults, n \in Names : \E v \in ValuesOf(n) :
         /\ \A i \in DOMAIN d : d[i][2] \in ValuesOf(d[i][1])
         /\ headers = MergeHeaders(d, << <<n, v>> >>)
  BY DEF Init
<1>3. PICK v \in ValuesOf(n) :
         /\ \A i \in DOMAIN d : d[i][2] \in ValuesOf(d[i][1])
         /\ headers = MergeHeaders(d, << <<n, v>> >>)
  BY <1>2
<1> DEFINE own == << <<n, v>> >>
           Mine == {t \in Tuples : t[2] \in ValuesOf(t[1])}
<1>4. own \in Seq(Tuples) /\ Range(own) \subseteq Mine
  <2>1. <<n, v>> \in Tuples
    BY <1>1, TuplesOfValues
  <2>2. own \in Seq(Tuples)
    BY <2>1
  <2>3. Range(own) = {<<n, v>>}
    BY DEF Range
  <2> QED
    BY <2>1, <2>2, <2>3
<1>5. d \in Seq(Tuples) /\ Range(d) \subseteq Mine
  <2>1. d \in Seq(Range(d)) /\ DOMAIN d = 1..Len(d) /\ Len(d) \in Nat
    BY RedirectAssumption, EmptyIffNoLength DEF Range
  <2>2. \A i \in DOMAIN d : d[i] \in Tuples
    <3> SUFFICES ASSUME NEW i \in DOMAIN d PROVE d[i] \in Tuples
      OBVIOUS
    <3>1. d[i][1] \in Names /\ d[i] = <<d[i][1], d[i][2]>>
      BY RedirectAssumption
    <3>2. d[i][2] \in ValuesOf(d[i][1])
      BY <1>3
    <3>3. <<d[i][1], d[i][2]>> \in Tuples
      BY <1>1, <3>1, <3>2, TuplesOfValues
    <3> QED
      BY <3>1, <3>3
  <2>3. Range(d) \subseteq Mine
    BY <1>3, <2>2 DEF Range
  <2>4. d \in Seq(Tuples)
    <3>1. Range(d) \subseteq Tuples
      BY <2>3
    <3> QED
      BY <2>1, <3>1, SeqMonotonic
  <2> QED
    BY <2>3, <2>4
<1>6. PICK q \in Seq(Tuples) :
         MergeHeaders(d, own) = HeadersOf(q) /\ Range(q) \subseteq Range(d) \cup Range(own)
  <2> HIDE DEF own
  <2> QED
    BY <1>4, <1>5, MergeMakesHeaders
<1>7. WellSaid
  <2>1. headers = HeadersOf(q) /\ headers.entriesList = q
    BY <1>3, <1>6 DEF HeadersOf
  <2>2. Range(q) \subseteq Mine
    BY <1>4, <1>5, <1>6
  <2> HIDE DEF own
  <2> QED
    BY <2>1, <2>2 DEF WellSaid
<1> QED
  BY <1>1, <1>7 DEF IInv, RefererDue

(* An edit of the program or of a hook. *)
LEMMA EditStep ==
    ASSUME IInv, NEW n \in Names, NEW v,
           \/ v \in ValuesOf(n) /\ (AppendHeader(n, v) \/ SetHeader(n, v))
           \/ DeleteHeader(n)
    PROVE  IInv'
<1> DEFINE s == headers.entriesList
           t == <<n, v>>
           key == KeyOf[n]
           rest == Keep(s, AllKeys \ {key})
<1>0. /\ at \in Origins /\ s \in Seq(Tuples) /\ headers = HeadersOf(s)
      /\ \A u \in Range(s) : u[2] \in ValuesOf(u[1])
      /\ t[1] = n /\ t[2] = v
      /\ v \in ValuesOf(n) => t \in Tuples
  BY TuplesOfValues DEF IInv, WellSaid
<1>1. /\ due' = IF key = "referer" THEN Given ELSE due
      /\ at' = at /\ policy' = policy /\ known' = known
      /\ \/ headers' = AppendTo(headers, n, v) /\ v \in ValuesOf(n)
         \/ headers' = SetIn(headers, n, v) /\ v \in ValuesOf(n)
         \/ headers' = DeleteFrom(headers, {key})
  BY DEF AppendHeader, SetHeader, DeleteHeader, Edited
<1>2. rest \in Seq(Tuples) /\ Range(rest) \subseteq Range(s)
  BY <1>0, KeepType, KeepRange
<1>3. PICK q \in Seq(Tuples) :
         headers' = HeadersOf(q) /\ \A u \in Range(q) : u[2] \in ValuesOf(u[1])
  <2> HIDE DEF s, t, rest
  <2>1. CASE headers' = AppendTo(headers, n, v) /\ v \in ValuesOf(n)
    <3>1. headers' = HeadersOf(Append(s, t))
      BY <1>0, <2>1, AppendMakesHeaders
    <3>2. Append(s, t) \in Seq(Tuples) /\ Range(Append(s, t)) = Range(s) \cup {t}
      BY <1>0, <2>1, RangeOfAppend
    <3> QED
      BY <1>0, <2>1, <3>1, <3>2
  <2>2. CASE headers' = SetIn(headers, n, v) /\ v \in ValuesOf(n)
    <3>1. headers' = HeadersOf(Append(rest, t))
      BY <1>0, <2>2, SetMakesHeaders DEF rest
    <3>2. Append(rest, t) \in Seq(Tuples) /\ Range(Append(rest, t)) = Range(rest) \cup {t}
      BY <1>0, <1>2, <2>2, RangeOfAppend
    <3> QED
      BY <1>0, <1>2, <2>2, <3>1, <3>2
  <2>3. CASE headers' = DeleteFrom(headers, {key})
    <3>1. headers' = HeadersOf(rest)
      BY <1>0, <2>3, DeleteMakesHeaders DEF rest
    <3> QED
      BY <1>0, <1>2, <3>1
  <2> QED
    BY <1>1, <2>1, <2>2, <2>3
<1>4. WellSaid'
  <2>1. headers'.entriesList = q
    BY <1>3 DEF HeadersOf
  <2> HIDE DEF s, t
  <2> QED
    BY <1>1, <1>3, <2>1 DEF WellSaid, ValuesOf
<1>5. key # "referer" => Get(headers', "referer") = Get(headers, "referer")
  BY <1>1, GetAfter
<1>6. RefererDue'
  BY <1>1, <1>5 DEF IInv, RefererDue
<1> QED
  BY <1>1, <1>4, <1>6 DEF IInv

(* A redirect: the headers are copied, stripped and given a new Referer. *)
LEMMA RedirectStep ==
    ASSUME IInv, NEW to \in Origins, NEW bodyDropped \in BOOLEAN, NEW tokens \in PolicyLists,
           Redirect(to, bodyDropped, tokens)
    PROVE  IInv'
<1> DEFINE s == headers.entriesList
           gone == {"host", "content-length"}
                      \cup (IF bodyDropped THEN {"content-type"} ELSE {})
                      \cup (IF at # to THEN Credentials ELSE {})
           left == Keep(s, AllKeys \ gone)
           stripped == DeleteFrom(headers, gone)
           r == CutDown(ParseReferrer(headers), known', to)
<1>0. /\ at \in Origins /\ s \in Seq(Tuples) /\ headers = HeadersOf(s)
      /\ \A t \in Range(s) : t[2] \in ValuesOf(t[1])
  BY DEF IInv, WellSaid
<1>1. /\ at' = to
      /\ policy' = known' /\ known' \in Policies
  <2>1. tokens \in Seq(STRING) /\ known \in Policies /\ policy = known
    BY RedirectAssumption DEF IInv
  <2>2. ResponseReferrerPolicy(tokens, known) = Known(tokens) /\ Known(tokens) \in Policies
    BY <2>1, LastPolicyCounts
  <2> QED
    BY <2>1, <2>2 DEF Redirect
<1>2. headers' = ApplyRedirectReferrerPolicy(stripped, to, policy')
  <2>1. CopyOf(headers) = headers
    BY <1>0, HeadersAgree
  <2>2. StripRedirectSensitiveHeaders(headers, at, to, bodyDropped) = stripped
    BY DEF StripRedirectSensitiveHeaders
  <2> QED
    BY <2>1, <2>2 DEF Redirect
<1>3. Get(stripped, "referer") = Get(headers, "referer")
  <2>1. "referer" \notin gone
    BY DEF Credentials
  <2> QED
    BY <2>1, GetAfter
<1>4. ParseReferrer(stripped) = ParseReferrer(headers)
  BY <1>3 DEF ParseReferrer
<1>5. ParseReferrer(headers) \in Rewritten \cup {NoReferer}
  BY ParsedReferrer DEF IInv
<1>6. headers' = IF r = NoReferer THEN DeleteFrom(stripped, {"referer"})
                 ELSE SetIn(stripped, "Referer", r)
  <2> HIDE DEF stripped
  <2> QED
    BY <1>1, <1>2, <1>4, <1>5, SwitchFollowsStandard
<1>7. r \in Rewritten \cup {NoReferer}
  BY <1>5 DEF CutDown, Rewritten
<1>8. due' = r
  <2>1. due # Given => ParseReferrer(headers) = due
    <3> SUFFICES ASSUME due # Given PROVE ParseReferrer(headers) = due
      OBVIOUS
    <3>1. CASE due = NoReferer
      BY <3>1 DEF IInv, RefererDue, ParseReferrer
    <3>2. CASE due \in Rewritten
      <4>1. due # NoReferer /\ due.shows \in {"origin", "path"}
              /\ due = [origin |-> due.origin, shows |-> due.shows]
        <5>1. due.shows \in {"origin", "path"} /\ due = [origin |-> due.origin, shows |-> due.shows]
          BY <3>2 DEF Rewritten
        <5>2. NoReferer.shows = "nothing"
          BY DEF NoReferer
        <5> QED
          BY <5>1, <5>2
      <4>2. Get(headers, "referer") = <<due>>
        BY <4>1 DEF IInv, RefererDue
      <4>3. Head(<<due>>) = due /\ Len(<<due>>) = 1 /\ <<due>> # <<>>
        OBVIOUS
      <4> QED
        BY <4>1, <4>2, <4>3 DEF ParseReferrer
    <3> QED
      BY <3>1, <3>2 DEF IInv, RefererDue
  <2>2. due' = Due(known', to)
    BY DEF Redirect
  <2> QED
    BY <2>1, <2>2 DEF Due, CutDown
<1>9. left \in Seq(Tuples) /\ stripped = HeadersOf(left)
  BY <1>0, KeepType, DeleteMakesHeaders
<1>10. \A t \in Range(left) : t[2] \in ValuesOf(t[1])'
  <2> SUFFICES ASSUME NEW t \in Range(left) PROVE t[2] \in ValuesOf(t[1])'
    OBVIOUS
  <2>1. t \in Range(s) /\ KeyOf[t[1]] \in AllKeys \ gone
    BY <1>0, KeepRange
  <2>2. t[2] \in ValuesOf(t[1])
    BY <1>0, <2>1
  <2>3. KeyOf[t[1]] \in Credentials => at = to
    BY <2>1
  <2> HIDE DEF s, left, gone
  <2> QED
    BY <1>1, <2>2, <2>3 DEF ValuesOf
<1> HIDE DEF r, stripped, left, gone, s
<1>11. WellSaid'
  <2>1. PICK q \in Seq(Tuples) :
           headers' = HeadersOf(q) /\ \A t \in Range(q) : t \in Range(left) \/ t = <<"Referer", r>>
    <3>1. CASE r = NoReferer
      <4> DEFINE q == Keep(left, AllKeys \ {"referer"})
      <4>1. headers' = HeadersOf(q) /\ q \in Seq(Tuples)
        BY <1>6, <1>9, <3>1, DeleteMakesHeaders, KeepType
      <4>2. Range(q) \subseteq Range(left)
        BY <1>9, KeepRange
      <4> QED
        BY <4>1, <4>2
    <3>2. CASE r # NoReferer
      <4> DEFINE rest == Keep(left, AllKeys \ {KeyOf["Referer"]})
                 t == <<"Referer", r>>
                 q == Append(rest, t)
      <4>1. t \in Tuples /\ t[1] = "Referer" /\ t[2] = r
        BY <1>7, <3>2, RedirectAssumption DEF Tuples, AnyValue, Referers, Rewritten
      <4>2. rest \in Seq(Tuples) /\ Range(rest) \subseteq Range(left)
        BY <1>9, KeepType, KeepRange
      <4>3. headers' = HeadersOf(q)
        <5>1. SetIn(HeadersOf(left), t[1], t[2]) = HeadersOf(Append(Keep(left, AllKeys \ {KeyOf[t[1]]}), t))
          BY <1>9, <4>1, SetMakesHeaders
        <5> QED
          BY <1>6, <1>9, <3>2, <4>1, <5>1
      <4>4. q \in Seq(Tuples) /\ Range(q) = Range(rest) \cup {t}
        <5> HIDE DEF rest, t
        <5> QED
          BY <4>1, <4>2, RangeOfAppend
      <4> HIDE DEF rest, q
      <4> QED
        BY <4>2, <4>3, <4>4
    <3> QED
      BY <3>1, <3>2
  <2>2. headers'.entriesList = q
    BY <2>1 DEF HeadersOf
  <2>3. r # NoReferer => r \in Referers
    BY <1>7 DEF Rewritten, Referers
  <2>4. \A t \in Range(q) : t[2] \in ValuesOf(t[1])'
    <3> SUFFICES ASSUME NEW t \in Range(q) PROVE t[2] \in ValuesOf(t[1])'
      OBVIOUS
    <3>1. CASE t \in Range(left)
      BY <1>10, <3>1
    <3>2. CASE t = <<"Referer", r>>
      <4>1. KeyOf[t[1]] = "referer" /\ t[2] = r
        BY <3>2, RedirectAssumption
      <4>2. r \in Referers
        BY <1>7 DEF Rewritten, Referers
      <4> QED
        BY <4>1, <4>2 DEF ValuesOf
    <3> QED
      BY <2>1, <3>1, <3>2
  <2> QED
    BY <2>1, <2>2, <2>4 DEF WellSaid
<1>12. RefererDue'
  <2>1. r # Given
    <3>1. Given.shows = "as given" /\ NoReferer.shows = "nothing"
      BY DEF Given, NoReferer
    <3> QED
      BY <1>7, <3>1 DEF Rewritten
  <2>2. Get(headers', "referer") = IF r = NoReferer THEN <<>> ELSE <<r>>
    <3>1. \A h : Get(SetIn(h, "Referer", r), "referer") = <<r>>
      BY GetAfter, RedirectAssumption
    <3>2. \A h : Get(DeleteFrom(h, {"referer"}), "referer") = <<>>
      BY GetAfter
    <3> QED
      BY <1>6, <3>1, <3>2
  <2> QED
    BY <1>7, <1>8, <2>1, <2>2 DEF RefererDue
<1> QED
  BY <1>1, <1>11, <1>12 DEF IInv

(* Every step keeps the invariant. *)
LEMMA NextStep == IInv /\ [Next]_vars => IInv'
<1> SUFFICES ASSUME IInv, [Next]_vars PROVE IInv'
  OBVIOUS
<1>1. ASSUME NEW n \in Names, NEW v \in ValuesOf(n), AppendHeader(n, v) \/ SetHeader(n, v)
      PROVE  IInv'
  BY <1>1, EditStep
<1>2. ASSUME NEW n \in Names, DeleteHeader(n) PROVE IInv'
  BY <1>2, EditStep
<1>3. ASSUME NEW to \in Origins, NEW bodyDropped \in BOOLEAN, NEW tokens \in PolicyLists,
             Redirect(to, bodyDropped, tokens)
      PROVE  IInv'
  BY <1>3, RedirectStep
<1>4. CASE UNCHANGED vars
  BY <1>4 DEF vars, IInv, WellSaid, RefererDue, ValuesOf
<1> QED
  BY <1>1, <1>2, <1>3, <1>4 DEF Next

(* The inductive invariant holds in every behaviour. *)
THEOREM Invariance == Spec => []IInv
<1> QED
  BY InitInv, NextStep, PTL DEF Spec

(* What get() and has() tell is what goes to the wire, whatever edits,     *)
(* merges, copies and redirects came before, in any spelling.              *)
THEOREM OneTruth == Spec => []RepresentationsAgree
<1>1. IInv => RepresentationsAgree
  BY HeadersAgree DEF IInv, WellSaid, RepresentationsAgree
<1> QED
  BY <1>1, Invariance, PTL

(* Credentials stay at their origin, and after any number of redirects     *)
(* the Referer shows what the Referrer Policy standard allows, no more and *)
(* no less.                                                                *)
THEOREM RevealNoMore == Spec => []RedirectsRevealNoMore
<1>1. IInv => RedirectsRevealNoMore
  <2> SUFFICES ASSUME IInv PROVE RedirectsRevealNoMore
    OBVIOUS
  <2>1. ASSUME NEW i \in DOMAIN headers.entriesList, KeyAt(headers, i) \in Credentials
        PROVE  headers.entriesList[i][2] = at
    <3>1. headers.entriesList[i] \in Range(headers.entriesList)
      BY DEF Range
    <3>2. "referer" \notin Credentials
      BY DEF Credentials
    <3> QED
      BY <2>1, <3>1, <3>2 DEF IInv, WellSaid, ValuesOf, KeyAt
  <2> QED
    BY <2>1 DEF IInv, RefererDue, RedirectsRevealNoMore
<1> QED
  BY <1>1, Invariance, PTL
=============================================================================
