------------------------------- MODULE Headers --------------------------------
(***************************************************************************)
(* The Headers class (src/headers/index.ts).  It keeps every header twice: *)
(* `store`, a Map from lower-case names that get() and has() read, and     *)
(* `entriesList`, the tuples in order and as written, which is what goes   *)
(* to the wire.  A name stands for one spelling, KeyOf for lower-casing.   *)
(* The loops are recursive functions, which the provers can reason about.  *)
(***************************************************************************)
EXTENDS Naturals, Sequences

CONSTANTS
    Names,          \* header names as they are spelled
    KeyOf           \* the lower-case name of each

AllKeys == {KeyOf[name] : name \in Names}

NoHeaders == [store |-> [key \in {} |-> <<>>], entriesList |-> <<>>]

\* The tuples whose names are among the keys, in their order.
Keep(tuples, keys) ==
    LET kept[i \in 0..Len(tuples)] ==
            IF i = 0 THEN <<>>
            ELSE IF KeyOf[tuples[i][1]] \in keys THEN Append(kept[i - 1], tuples[i])
            ELSE kept[i - 1]
    IN kept[Len(tuples)]

KeyAt(h, i) == KeyOf[h.entriesList[i][1]]
Without(h, keys) == Keep(h.entriesList, AllKeys \ keys)
Has(h, key) == key \in DOMAIN h.store
Get(h, key) == IF Has(h, key) THEN h.store[key].values ELSE <<>>

\* store.set(key, entry)
Stored(h, key, entry) ==
    [k \in DOMAIN h.store \cup {key} |-> IF k = key THEN entry ELSE h.store[k]]

AppendTo(h, name, value) ==
    LET key == KeyOf[name]
        entry == [name |-> IF Has(h, key) THEN h.store[key].name ELSE name,
                  values |-> Append(Get(h, key), value)]
    IN [store |-> Stored(h, key, entry),
        entriesList |-> Append(h.entriesList, <<name, value>>)]

\* Defect: tuples that spell the name in another way stay.
SetInSpelling(h, name, value) ==
    [store |-> Stored(h, KeyOf[name], [name |-> name, values |-> <<value>>]),
     entriesList |-> Append(SelectSeq(h.entriesList, LAMBDA t : t[1] # name), <<name, value>>)]

SetIn(h, name, value) ==
    [store |-> Stored(h, KeyOf[name], [name |-> name, values |-> <<value>>]),
     entriesList |-> Append(Without(h, {KeyOf[name]}), <<name, value>>)]

\* delete() of each of the keys.
DeleteFrom(h, keys) ==
    [store |-> [k \in DOMAIN h.store \ keys |-> h.store[k]],
     entriesList |-> Without(h, keys)]

\* new Headers(tuples), and a copy of another Headers.
FromTuples(tuples) ==
    LET read[i \in 0..Len(tuples)] ==
            IF i = 0 THEN NoHeaders ELSE AppendTo(read[i - 1], tuples[i][1], tuples[i][2])
    IN read[Len(tuples)]
CopyOf(h) == FromTuples(h.entriesList)

\* mergeHeaders of src/client/index.ts: the later source wins, name by name.
MergeHeaders(defaults, init) ==
    LET tuples == FromTuples(defaults).entriesList \o FromTuples(init).entriesList
        merged[i \in 0..Len(tuples)] ==
            IF i = 0 THEN NoHeaders ELSE SetIn(merged[i - 1], tuples[i][1], tuples[i][2])
    IN merged[Len(tuples)]

\* The two representations say the same: each name has the same values in the same order
\* in both, and is spelled in `store` as it is first on the wire.
Agree(h) ==
    /\ DOMAIN h.store = {KeyAt(h, i) : i \in DOMAIN h.entriesList}
    /\ \A k \in DOMAIN h.store :
          LET mine == Keep(h.entriesList, {k}) IN
          /\ h.store[k].values = [i \in DOMAIN mine |-> mine[i][2]]
          /\ h.store[k].name = mine[1][1]
=============================================================================
