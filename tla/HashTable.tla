----------------------------- MODULE HashTable -----------------------------
(***************************************************************************)
(* The chained hash table of Threads/pet_hashtable.c: an array of chains   *)
(* that grows along a list of primes when it holds more entries than its   *)
(* load limit, and iterators that keep a position in it.                   *)
(*                                                                         *)
(* A chain is the sequence of its entries; Entries are the addresses that  *)
(* calloc gives.  calloc and realloc may fail at every call.  When calloc  *)
(* fails and realloc does not, hashtable_expand clears memory through a    *)
(* pointer that it reads from uninitialised memory: the model stops there  *)
(* with `harm' set.                                                        *)
(*                                                                         *)
(* There is one table, one iterator, and one client who stays within what  *)
(* the iterators bear: no entry is removed by key and the table does not   *)
(* grow while there is an iterator, and whoever uses an iterator either    *)
(* inserts meanwhile or removes through it, not both.                      *)
(***************************************************************************)
EXTENDS Integers, Sequences, SequencesExt, FiniteSets

CONSTANTS
    primes,         \* the sizes of the table
    load_factors,   \* entries allowed at each size
    Keys,           \* keys, as numbers
    HashMod,        \* bound: number of hash values
    ValMod,         \* number of values: 2^64
    MinSizes,       \* sizes asked for
    Entries,        \* addresses of entries; bound: their number
    NULL            \* the null pointer

ASSUME SizesAssumption ==
    /\ primes \in Seq(Nat \ {0}) /\ load_factors \in Seq(Nat)
    /\ Len(primes) = Len(load_factors)
    /\ \A n \in MinSizes : \E p \in DOMAIN primes : primes[p] > n
ASSUME KeysAssumption ==
    /\ Keys \subseteq Nat /\ MinSizes \subseteq Nat /\ {HashMod, ValMod} \subseteq Nat \ {0}
    /\ NULL \notin Entries

NoIter == [entry |-> NULL]
Values == 0 .. ValMod - 1

VARIABLES
    htable,         \* table, prime_index, entry_count, load_limit
    iter,           \* index, entry, parent, and what the client has done:
                    \* wrote, "inserted" or "removed"; owed, the entries there
                    \* were at the start; seen, the entries it was at; or NoIter
    answer,         \* what the last call by key returned
    harm,           \* has memory that is not the table's been written
    freed           \* has pet_free_htable been called

table_vars == <<htable, iter, answer, harm, freed>>

(* pet_create_htable: the first prime that is large enough *)
TableInit ==
    /\ \E min_size \in MinSizes :
          LET p == Min({n \in DOMAIN primes : primes[n] > min_size})
          IN  htable = [table |-> [i \in 0 .. primes[p] - 1 |-> <<>>],
                        prime_index |-> p, entry_count |-> 0,
                        load_limit |-> load_factors[p]]
    /\ iter = NoIter
    /\ answer = <<>>
    /\ harm = FALSE
    /\ freed = FALSE

Live == ~harm /\ ~freed

(* do_hash, with the table's function of the key (pet_hash_ptr and          *)
(* pet_hash_buffer are the two there are): two keys may have one value      *)
do_hash(key) == key % HashMod

(* indexFor *)
indexFor(table_length, key) == do_hash(key) % table_length

Length(h) == Cardinality(DOMAIN h.table)
Index(key) == indexFor(Length(htable), key)
Chain(key) == htable.table[Index(key)]

(* the loop of every call by key: the place of its first entry, or 0 *)
Find(key) == SelectInSeq(Chain(key), LAMBDA e : e.key = key)

(* the addresses of a chain's entries, and of all entries of a table *)
AddressesOf(chain) == {e.entry : e \in ToSet(chain)}
Addresses(table) == UNION {AddressesOf(table[i]) : i \in DOMAIN table}

(* the entries of a chain that have one of these keys, in the chain's order *)
Only(chain, keys) ==
    LET f[n \in 0 .. Len(chain)] ==
            IF n = 0 THEN <<>>
            ELSE IF chain[n].key \in keys THEN Append(f[n - 1], chain[n]) ELSE f[n - 1]
    IN  f[Len(chain)]

----------------------------------------------------------------------------
(* Insertion. *)

(* the entries of one old chain that have these keys, each put at the head  *)
Relinked(chain, keys) == Reverse(Only(chain, keys))

(* one new chain: the entries come to its head chain after chain *)
NewChain(h, keys) ==
    LET f[n \in 0 .. Length(h)] ==
            IF n = 0 THEN <<>> ELSE Relinked(h.table[n - 1], keys) \o f[n - 1]
    IN  f[Length(h)]

(* hashtable_expand's first plan *)
Rehashed(h, size) ==
    [i \in 0 .. size - 1 |-> NewChain(h, {k \in Keys : indexFor(size, k) = i})]

(* Mutant: prime_index stays ahead when there is no memory. *)
ExpandFailedAhead(h) == [h EXCEPT !.prime_index = @ + 1]

(* both calloc and realloc have failed *)
ExpandFailed(h) == h

(* hashtable_expand, without its second plan: the outcomes *)
Expand(h) ==
    IF h.prime_index = Len(primes) THEN {h}
    ELSE LET p == h.prime_index + 1
         IN  {ExpandFailed(h),
              [h EXCEPT !.table = Rehashed(h, primes[p]), !.prime_index = p,
                        !.load_limit = load_factors[p]]}

(* the tests of pet_htable_insert and hashtable_expand *)
Full == htable.entry_count + 1 > htable.load_limit
CanGrow == Full /\ htable.prime_index < Len(primes)

(* the table h with a new entry at the head of its chain *)
Linked(h, e) ==
    [h EXCEPT !.entry_count = @ + 1,
              !.table[indexFor(Length(h), e.key)] = <<e>> \o @]

(* Who has an iterator does not let the table grow. *)
MayInsert ==
    /\ Live
    /\ iter # NoIter => ~CanGrow /\ iter.wrote # "removed"

(* pet_htable_insert *)
pet_htable_insert(key, value) ==
    /\ MayInsert
    /\ \E h \in IF Full THEN Expand(htable) ELSE {htable} :
       \E new_entry \in Entries \ Addresses(htable.table) :
          htable' = Linked(h, [entry |-> new_entry, key |-> key, value |-> value])
    /\ iter' = IF iter = NoIter THEN NoIter ELSE [iter EXCEPT !.wrote = "inserted"]
    /\ answer' = <<>>
    /\ UNCHANGED <<harm, freed>>

(* no memory for the entry, after the table may have grown *)
InsertFails ==
    /\ MayInsert
    /\ htable' \in IF Full THEN Expand(htable) ELSE {htable}
    /\ answer' = <<>>
    /\ UNCHANGED <<iter, harm, freed>>

(* hashtable_expand's second plan: realloc gives memory where calloc did not *)
ExpandByRealloc ==
    /\ MayInsert /\ CanGrow
    /\ harm' = TRUE
    /\ UNCHANGED <<htable, iter, answer, freed>>

----------------------------------------------------------------------------
(* The calls by key. *)

(* a call whose loop finds nothing returns 0 *)
NotFound(key) ==
    /\ Live /\ Find(key) = 0
    /\ answer' = <<key, 0>>
    /\ UNCHANGED <<htable, iter, harm, freed>>

Store(key, value) ==
    htable' = [htable EXCEPT !.table[Index(key)][Find(key)].value = value]

Found(key) == Chain(key)[Find(key)]

(* pet_htable_change, pet_htable_inc and pet_htable_dec *)
Update(key, value) ==
    /\ Live /\ Find(key) # 0
    /\ \/ Store(key, value)                                           \* change
       \/ Store(key, (Found(key).value + value) % ValMod)             \* inc
       \/ Store(key, (Found(key).value + ValMod - value) % ValMod)    \* dec
    /\ answer' = <<key, -1>>
    /\ UNCHANGED <<iter, harm, freed>>

pet_htable_search(key) ==
    /\ Live /\ Find(key) # 0
    /\ answer' = <<key, Found(key).value>>
    /\ UNCHANGED <<htable, iter, harm, freed>>

pet_htable_remove(key) ==
    /\ Live /\ iter = NoIter /\ Find(key) # 0
    /\ htable' = [htable EXCEPT !.table[Index(key)] = RemoveAt(@, Find(key)),
                                !.entry_count = @ - 1]
    /\ answer' = <<key, Found(key).value>>
    /\ UNCHANGED <<iter, harm, freed>>

----------------------------------------------------------------------------
(* Iterators. *)

(* the first chain from i on that has an entry, or the length of the table *)
FirstFrom(i) ==
    LET n == Length(htable)
    IN  Min({n} \cup {j \in i .. n - 1 : htable.table[j] # <<>>})

(* the address of the first entry of chain i *)
HeadOf(i) == IF i \in DOMAIN htable.table /\ htable.table[i] # <<>>
             THEN Head(htable.table[i]).entry ELSE NULL

(* the iterator moved to a position, which the client has then seen *)
MovedTo(it, index, entry, parent) ==
    [it EXCEPT !.index = index, !.entry = entry, !.parent = parent,
               !.seen = IF entry = NULL THEN @ ELSE Append(@, entry)]

pet_htable_create_iter ==
    /\ Live /\ iter = NoIter
    /\ LET first == FirstFrom(0)
       IN  iter' = MovedTo([index |-> 0, entry |-> NULL, parent |-> NULL,
                            wrote |-> "nothing", owed |-> Addresses(htable.table), seen |-> <<>>],
                           first, HeadOf(first), NULL)
    /\ answer' = <<>>
    /\ UNCHANGED <<htable, harm, freed>>

(* the entries of the iterator's chain, its own place among them, and the   *)
(* place of the entry that it has as parent                                 *)
IterChain == htable.table[iter.index]
PlaceOf(entry) == SelectInSeq(IterChain, LAMBDA e : e.entry = entry)

(* Mutant: looks at the same chain again. *)
AdvancedInPlace ==
    LET after == PlaceOf(iter.entry) + 1
        next == FirstFrom(iter.index)
    IN  IF after <= Len(IterChain)
        THEN [index |-> iter.index, entry |-> IterChain[after].entry,
              parent |-> iter.entry]
        ELSE [index |-> next, entry |-> HeadOf(next), parent |-> NULL]

(* where pet_htable_iter_advance gets to: the next entry of the chain, or   *)
(* the first of the next chain that has one                                 *)
Advanced ==
    LET after == PlaceOf(iter.entry) + 1
        next == FirstFrom(iter.index + 1)
    IN  IF after <= Len(IterChain)
        THEN [index |-> iter.index, entry |-> IterChain[after].entry,
              parent |-> iter.entry]
        ELSE [index |-> next, entry |-> HeadOf(next), parent |-> NULL]

pet_htable_iter_advance ==
    /\ Live /\ iter # NoIter /\ iter.entry # NULL
    /\ iter' = MovedTo(iter, Advanced.index, Advanced.entry, Advanced.parent)
    /\ answer' = <<>>
    /\ UNCHANGED <<htable, harm, freed>>

(* Mutant: the freed entry stays the parent. *)
ParentKept(parent) == parent

(* the parent after the entry has gone: its own parent *)
ParentAfter(parent) == IF parent = iter.entry THEN iter.parent ELSE parent

(* pet_htable_iter_remove: the entry's successor takes its place in the     *)
(* array or in its parent, and the iterator advances                        *)
pet_htable_iter_remove ==
    LET before == IF iter.parent = NULL THEN 0 ELSE PlaceOf(iter.parent)
    IN  /\ Live /\ iter # NoIter /\ iter.entry # NULL /\ iter.wrote # "inserted"
        /\ htable' = [htable EXCEPT
                         !.table[iter.index] =
                             SubSeq(@, 1, before)
                                 \o SubSeq(@, PlaceOf(iter.entry) + 1, Len(@)),
                         !.entry_count = @ - 1]
        /\ iter' = [MovedTo(iter, Advanced.index, Advanced.entry,
                            ParentAfter(Advanced.parent))
                       EXCEPT !.wrote = "removed"]
        /\ answer' = <<>>
        /\ UNCHANGED <<harm, freed>>

(* pet_htable_iter_search, which takes the iterator elsewhere *)
pet_htable_iter_search(key) ==
    LET n == Find(key)
    IN  /\ Live /\ iter # NoIter /\ n # 0
        /\ iter' = MovedTo([iter EXCEPT !.owed = {}, !.seen = <<>>], Index(key),
                           Chain(key)[n].entry,
                           IF n = 1 THEN NULL ELSE Chain(key)[n - 1].entry)
        /\ answer' = <<>>
        /\ UNCHANGED <<htable, harm, freed>>

pet_htable_free_iter ==
    /\ Live /\ iter # NoIter
    /\ iter' = NoIter
    /\ answer' = <<>>
    /\ UNCHANGED <<htable, harm, freed>>

(* pet_free_htable *)
pet_free_htable ==
    /\ Live /\ iter = NoIter
    /\ freed' = TRUE
    /\ UNCHANGED <<htable, iter, answer, harm>>

TableNext ==
    \/ \E key \in Keys :
          \/ \E value \in Values : pet_htable_insert(key, value) \/ Update(key, value)
          \/ NotFound(key)
          \/ pet_htable_search(key)
          \/ pet_htable_remove(key)
          \/ pet_htable_iter_search(key)
    \/ InsertFails
    \/ ExpandByRealloc
    \/ pet_htable_create_iter
    \/ pet_htable_iter_advance
    \/ pet_htable_iter_remove
    \/ pet_htable_free_iter
    \/ pet_free_htable

TableSpec == TableInit /\ [][TableNext]_table_vars

----------------------------------------------------------------------------
(* The table is what its fields say: the size and the load limit are those  *)
(* of prime_index, also after an expansion that got no memory; entry_count  *)
(* is the number of entries; every entry is linked once, in the chain of    *)
(* its hash.                                                                *)
LinkedOnce(table) ==
    \A i, j \in DOMAIN table : \A m \in DOMAIN table[i], n \in DOMAIN table[j] :
        table[i][m].entry = table[j][n].entry => i = j /\ m = n
WellHashed(table, size) ==
    \A i \in DOMAIN table : \A n \in DOMAIN table[i] : indexFor(size, table[i][n].key) = i
WellFormed ==
    /\ Length(htable) = primes[htable.prime_index]
    /\ htable.load_limit = load_factors[htable.prime_index]
    /\ htable.entry_count = Cardinality(Addresses(htable.table))
    /\ LinkedOnce(htable.table)
    /\ WellHashed(htable.table, Length(htable))

(* The calls behave as those on one stack of values per key: whatever was   *)
(* inserted is found under its key, the newest first, until it is removed,  *)
(* through growth, which reverses the stacks as the header says of repeated *)
(* keys, failed growth, collisions and removals by an iterator.             *)
OfKey(key) ==
    LET of == Only(Chain(key), {key})
    IN  [n \in DOMAIN of |-> [entry |-> of[n].entry, value |-> of[n].value]]
Contents == [key \in Keys |-> OfKey(key)]
Table == INSTANCE AbstractTable WITH contents <- Contents
TableContract == Table!Spec

(* An iterator that has come to the end has been at every entry that was    *)
(* there when it was made, and at no entry twice, whatever was removed      *)
(* through it or inserted without growth in the meantime.                   *)
IterComplete ==
    iter # NoIter =>
        /\ \A m, n \in DOMAIN iter.seen : iter.seen[m] = iter.seen[n] => m = n
        /\ iter.entry = NULL => iter.owed \subseteq ToSet(iter.seen)

(* The types, with the client's marks on the iterator.                      *)
Entry == [entry : Entries, key : Keys, value : Values]
TableTypeOK ==
    /\ htable.prime_index \in DOMAIN primes
    /\ htable \in [table : [0 .. primes[htable.prime_index] - 1 -> Seq(Entry)],
                   prime_index : DOMAIN primes, entry_count : Nat, load_limit : Nat]
    /\ iter # NoIter =>
          iter \in [index : Nat, entry : Entries \cup {NULL}, parent : Entries \cup {NULL},
                    wrote : {"nothing", "inserted", "removed"},
                    owed : SUBSET Entries, seen : Seq(Entries)]
    /\ {harm, freed} \subseteq BOOLEAN

(* The addresses of the entries behind place n of chain i.                  *)
EntriesAhead(table, i, n) ==
    {table[i][m].entry : m \in {m \in DOMAIN table[i] : m > n}}
        \cup UNION {AddressesOf(table[j]) : j \in {j \in DOMAIN table : j > i}}

(* An iterator is at an entry: what it owes it has seen or is ahead of it,  *)
(* and it has seen nothing of what is ahead.                                *)
AtPlace(table, it, n) ==
    /\ table[it.index][n].entry = it.entry
    /\ it.owed \subseteq ToSet(it.seen) \cup EntriesAhead(table, it.index, n)
    /\ ToSet(it.seen) \cap EntriesAhead(table, it.index, n) = {}
    /\ it.entry \in ToSet(it.seen)
    /\ it.wrote # "inserted" =>
          it.parent = IF n = 1 THEN NULL ELSE table[it.index][n - 1].entry

(* No entry that an iterator has seen has gone before the first removal     *)
(* through it, so an insertion cannot be given its address.                 *)
IterRight(table, it) ==
    /\ \A m, n \in DOMAIN it.seen : it.seen[m] = it.seen[n] => m = n
    /\ it.wrote # "removed" => ToSet(it.seen) \subseteq Addresses(table)
    /\ IF it.entry = NULL THEN it.owed \subseteq ToSet(it.seen)
       ELSE /\ it.index \in DOMAIN table
            /\ \E n \in DOMAIN table[it.index] : AtPlace(table, it, n)

(* The inductive invariant.                                                 *)
TableInv ==
    /\ TableTypeOK /\ WellFormed
    /\ IsFiniteSet(Addresses(htable.table))
    /\ iter # NoIter => IterRight(htable.table, iter)

============================================================================
