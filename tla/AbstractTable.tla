--------------------------- MODULE AbstractTable ---------------------------
(***************************************************************************)
(* What the hash table of Threads/pet_hashtable.c promises its callers:    *)
(* for each key a stack of values.  A call that names a key is about the   *)
(* top of its stack.  As the header says of repeated keys, when the table  *)
(* changes size the order of retrieval is reversed, for every key, which   *)
(* an insertion may bring about.  `answer' is what the last call by key    *)
(* returned: a value, -1 for done, 0 when the key has no value.            *)
(***************************************************************************)
EXTENDS Integers, Sequences, SequencesExt

CONSTANTS
    Entries,        \* the identities of pairs
    Keys,
    ValMod          \* values are 0 .. ValMod - 1

VARIABLES
    contents,       \* the stack of each key, of [entry, value]
    answer          \* <<key, returned>>, or <<>> after any other call

Init == contents = [k \in Keys |-> <<>>] /\ answer = <<>>

Stored == {s.entry : s \in UNION {ToSet(contents[k]) : k \in Keys}}

(* the contents after an insertion's call of hashtable_expand *)
Ordered == {contents, [k \in Keys |-> Reverse(contents[k])]}

Insert(e, k, v) ==
    /\ answer' = <<>>
    /\ e \notin Stored
    /\ \E c \in Ordered :
          contents' = [c EXCEPT ![k] = <<[entry |-> e, value |-> v]>> \o @]

Update(k, v) ==
    /\ answer' = <<k, -1>>
    /\ contents[k] # <<>>
    /\ contents' = [contents EXCEPT ![k][1].value = v]

Search(k) ==
    /\ contents[k] # <<>>
    /\ answer' = <<k, Head(contents[k]).value>>
    /\ UNCHANGED contents

RemoveTop(k) ==
    /\ contents[k] # <<>>
    /\ answer' = <<k, Head(contents[k]).value>>
    /\ contents' = [contents EXCEPT ![k] = Tail(@)]

Absent(k) ==
    /\ answer' = <<k, 0>>
    /\ contents[k] = <<>>
    /\ UNCHANGED contents

(* An iterator removes one pair, wherever it is. *)
IterRemove(k) ==
    /\ answer' = <<>>
    /\ \E n \in DOMAIN contents[k] :
          contents' = [contents EXCEPT ![k] = RemoveAt(@, n)]

(* An insertion that gets no memory for its pair, and the iterators' calls. *)
Other == answer' = <<>> /\ contents' \in Ordered

Next ==
    \/ Other
    \/ \E k \in Keys :
          \/ Search(k) \/ RemoveTop(k) \/ Absent(k) \/ IterRemove(k)
          \/ \E v \in 0 .. ValMod - 1 : Update(k, v) \/ \E e \in Entries : Insert(e, k, v)

Spec == Init /\ [][Next]_<<contents, answer>>

============================================================================
