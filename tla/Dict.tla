-------------------------------- MODULE Dict --------------------------------
(***************************************************************************)
(* The dictionaries of dict.c: pairs in hash chains and in a members list, *)
(* reference-counted dicts and reference-counted values that dict_copy     *)
(* shares between dicts, and the buffers that carry a dict.                *)
(*                                                                         *)
(* dict_get and dict_get_with_ref use the pair they found after the        *)
(* unlock, and dict_foreach takes no lock: nothing in dict.c keeps a pair  *)
(* in place for them.  The clients modelled here therefore change a dict   *)
(* only while no one else has a reference on it (Exclusive); then a        *)
(* critical section of a dict is one step, and what runs concurrently is   *)
(* reading, the counting of dicts and the counting of shared values.       *)
(*                                                                         *)
(* A call of several critical sections leaves the rest of its work in      *)
(* todo, one element per step that other threads can come between.         *)
(***************************************************************************)
EXTENDS Integers, Sequences, FiniteSets, FiniteSetsExt, SequencesExt

CONSTANTS
    Dicts,      \* addresses of dict_t's
    Keys,       \* strings used as keys; "ref:%p", made when none is given, is one more
    Datas,      \* addresses of data_t's: integers; CALLOC returns the lowest free one
    Contents,   \* what data->data points to, with its length
    Threads,
    HashSize,   \* dict->hash_size: 1 in dict_new and get_new_dict
    Hash(_),    \* SuperFastHash (key) % hash_size
    KeyLen(_),  \* strlen (key)
    ValLen(_),  \* data->len
    Settings,   \* what clients set: [key, content]
    Buffers,    \* serialized dicts that arrive: sequences of [key, content]
    Cuts,       \* how many bytes are missing from a buffer that arrives
    MaxRef,     \* bound: references on one dict
    MaxPairs,   \* bound: pairs that clients set in one dict
    NULL

ASSUME DatasAssumption == Datas \subseteq Nat
ASSUME FiniteAssumption == IsFiniteSet(Dicts) /\ IsFiniteSet(Datas) /\ IsFiniteSet(Threads)
ASSUME NullAssumption == NULL \notin Threads /\ "free" \notin Contents \cup {NULL}
ASSUME HashAssumption ==
    HashSize \in Nat \ {0} /\ \A k \in Keys : Hash(k) \in 0 .. HashSize - 1
ASSUME LenAssumption ==
    /\ \A k \in Keys : KeyLen(k) \in Nat
    /\ \A c \in Contents : ValLen(c) \in Nat
ASSUME ClientsAssumption ==
    /\ Settings \subseteq [key : Keys, content : Contents \cup {NULL}]
    /\ Buffers \subseteq Seq([key : Keys, content : Contents \cup {NULL}])

VARIABLES
    state,     \* of a dict_t: "free", "live", or "dying" once dict_destroy runs
    refcount,  \* dict->refcount
    held,      \* held[t][d]: references on d that thread t has
    maker,     \* the thread that has a dict without a reference (get_new_dict)
    list,      \* dict->members_list, from the head: [key, value]
    chain,     \* dict->members: for each hash value the keys, from the head
    count,     \* dict->count
    content,   \* content of an allocated data_t, or "free"
    refs,      \* data->refcount
    todo       \* what is left of the call each thread is in

dictVars == <<state, refcount, held, maker>>
pairVars == <<list, chain, count>>
dataVars == <<content, refs>>
vars == <<dictVars, pairVars, dataVars, todo>>

\* data_from_static_ptr (0) makes a data_t without contents.
AllContents == Contents \cup {NULL}

Len0(c) == IF c = NULL THEN 0 ELSE ValLen(c)

Idle(t) == todo[t] = <<>>

\* t may use d, and t is the only one who can.
Holds(t, d) == state[d] = "live" /\ (held[t][d] > 0 \/ maker[d] = t)

Exclusive(t, d) ==
    /\ state[d] = "live"
    /\ \/ refcount[d] = 1 /\ held[t][d] = 1
       \/ maker[d] = t

-----------------------------------------------------------------------------
(* Values and pairs.  A store is the part of the state that setting a pair *)
(* of dict d changes; dead lists the values whose last reference went.     *)

Store(d) == [list |-> list[d], chain |-> chain[d], count |-> count[d],
             content |-> content, refs |-> refs, dead |-> <<>>]

\* s becomes the state of d; the values that died are then destroyed.
Commit(t, d, s, rest) ==
    /\ list' = [list EXCEPT ![d] = s.list]
    /\ chain' = [chain EXCEPT ![d] = s.chain]
    /\ count' = [count EXCEPT ![d] = s.count]
    /\ content' = s.content
    /\ refs' = s.refs
    /\ todo' = [todo EXCEPT
                  ![t] = [i \in DOMAIN s.dead |-> [op |-> "free", data |-> s.dead[i]]] \o rest]

\* data_unref: the count goes down under data->lock; at zero, destroy.
data_unref(s, x) ==
    [s EXCEPT !.refs[x] = @ - 1,
              !.dead = IF s.refs[x] = 1 THEN Append(@, x) ELSE @]

data_ref(s, x) == [s EXCEPT !.refs[x] = @ + 1]

\* _dict_lookup: the chain of the key's hash value is searched.
_dict_lookup(s, k) == k \in Range(s.chain[Hash(k)])

\* The elements of a sequence that are in a set, in their order.
Only(set, seq) ==
    LET part[n \in 0 .. Len(seq)] ==
            IF n = 0 THEN <<>>
            ELSE IF seq[n] \in set THEN Append(part[n - 1], seq[n]) ELSE part[n - 1]
    IN  part[Len(seq)]

Position(s, k) == CHOOSE i \in DOMAIN s.list : s.list[i].key = k

\* Mutant: the replaced value keeps the reference of the pair.
DictSetKeepsOld(s, k, x, mem) ==
    IF _dict_lookup(s, k)
    THEN [data_ref(s, x) EXCEPT !.list[Position(s, k)].value = x]
    ELSE IF mem
    THEN [data_ref(s, x) EXCEPT !.list = <<[key |-> k, value |-> x]>> \o @,
                                !.chain[Hash(k)] = <<k>> \o @,
                                !.count = @ + 1]
    ELSE s

\* Mutant: the old value is unreferenced before the new one is referenced.
DictSetUnrefFirst(s, k, x, mem) ==
    IF _dict_lookup(s, k)
    THEN LET i == Position(s, k)
         IN  data_ref([data_unref(s, s.list[i].value) EXCEPT !.list[i].value = x], x)
    ELSE IF mem
    THEN [data_ref(s, x) EXCEPT !.list = <<[key |-> k, value |-> x]>> \o @,
                                !.chain[Hash(k)] = <<k>> \o @,
                                !.count = @ + 1]
    ELSE s

\* _dict_set: replace the value of the pair, or make a pair at both heads.
\* When CALLOC fails (~mem) the new pair is not made and value is not referenced.
_dict_set(s, k, x, mem) ==
    IF _dict_lookup(s, k)
    THEN LET i == Position(s, k)
         IN  data_unref([data_ref(s, x) EXCEPT !.list[i].value = x], s.list[i].value)
    ELSE IF mem
    THEN [data_ref(s, x) EXCEPT !.list = <<[key |-> k, value |-> x]>> \o @,
                                !.chain[Hash(k)] = <<k>> \o @,
                                !.count = @ + 1]
    ELSE s

\* Mutant: the pair stays in its hash chain.
UnlinkFromListOnly(s, k) ==
    LET i == Position(s, k)
    IN  data_unref([s EXCEPT !.list = RemoveAt(@, i), !.count = @ - 1], s.list[i].value)

\* The unlinking of dict_del: the pair leaves its chain and the list.
Unlink(s, k) ==
    LET i == Position(s, k)
    IN  data_unref([s EXCEPT !.chain[Hash(k)] = Only(Keys \ {k}, @),
                             !.list = RemoveAt(@, i),
                             !.count = @ - 1],
                   s.list[i].value)

\* get_new_data and the data_from_* constructors: a data_t with no reference yet.
FreeDatas(s) == {x \in Datas : s.content[x] = "free"}

get_new_data(s, c) ==
    LET x == Min(FreeDatas(s))
    IN  [s EXCEPT !.content[x] = c, !.refs[x] = 0]

-----------------------------------------------------------------------------
(* dict_new, get_new_dict, dict_ref, dict_unref, dict_destroy *)

Fresh(d) ==
    /\ state[d] = "free"
    /\ state' = [state EXCEPT ![d] = "live"]
    /\ list' = [list EXCEPT ![d] = <<>>]
    /\ chain' = [chain EXCEPT ![d] = [h \in 0 .. HashSize - 1 |-> <<>>]]
    /\ count' = [count EXCEPT ![d] = 0]

dict_new(t, d) ==
    /\ Idle(t)
    /\ Fresh(d)
    /\ refcount' = [refcount EXCEPT ![d] = 1]
    /\ held' = [held EXCEPT ![t][d] = 1]
    /\ UNCHANGED <<maker, dataVars, todo>>

\* The new dict has no reference: the caller destroys it or takes one.
get_new_dict(t, d) ==
    /\ Idle(t)
    /\ Fresh(d)
    /\ refcount' = [refcount EXCEPT ![d] = 0]
    /\ maker' = [maker EXCEPT ![d] = t]
    /\ UNCHANGED <<held, dataVars, todo>>

\* t takes a reference, for itself or to hand d to thread u.
dict_ref(t, u, d) ==
    /\ Idle(t)
    /\ Holds(t, d)
    /\ refcount[d] < MaxRef
    /\ refcount' = [refcount EXCEPT ![d] = @ + 1]
    /\ held' = [held EXCEPT ![u][d] = @ + 1]
    /\ maker' = [maker EXCEPT ![d] = NULL]
    /\ UNCHANGED <<state, pairVars, dataVars, todo>>

dict_unref(t, d) ==
    /\ Idle(t)
    /\ held[t][d] > 0
    /\ refcount' = [refcount EXCEPT ![d] = @ - 1]
    /\ held' = [held EXCEPT ![t][d] = @ - 1]
    /\ todo' = IF refcount[d] = 1 THEN [todo EXCEPT ![t] = <<[op |-> "destroy", dict |-> d]>>]
                                  ELSE todo
    /\ UNCHANGED <<state, maker, pairVars, dataVars>>

\* A dict that never had a reference is destroyed by the thread that made it.
dict_destroy(t, d) ==
    /\ Idle(t)
    /\ maker[d] = t
    /\ maker' = [maker EXCEPT ![d] = NULL]
    /\ todo' = [todo EXCEPT ![t] = <<[op |-> "destroy", dict |-> d]>>]
    /\ UNCHANGED <<state, refcount, held, pairVars, dataVars>>

\* dict_destroy: the values are unreferenced in list order, then the dict freed.
Destroy(t) ==
    /\ todo[t] # <<>>
    /\ todo[t][1].op = "destroy"
    /\ LET d == todo[t][1].dict
       IN  /\ state' = [state EXCEPT ![d] = "dying"]
           /\ list' = [list EXCEPT ![d] = <<>>]
           /\ chain' = [chain EXCEPT ![d] = [h \in 0 .. HashSize - 1 |-> <<>>]]
           /\ count' = [count EXCEPT ![d] = 0]
           /\ todo' = [todo EXCEPT
                         ![t] = [i \in DOMAIN list[d] |->
                                   [op |-> "unref", data |-> list[d][i].value]]
                                \o <<[op |-> "gone", dict |-> d]>>]
    /\ UNCHANGED <<refcount, held, maker, dataVars>>

Gone(t) ==
    /\ todo[t] # <<>>
    /\ todo[t][1].op = "gone"
    /\ state' = [state EXCEPT ![todo[t][1].dict] = "free"]
    /\ todo' = [todo EXCEPT ![t] = Tail(@)]
    /\ UNCHANGED <<refcount, held, maker, pairVars, dataVars>>

-----------------------------------------------------------------------------
(* Steps on values *)

DataUnref(t) ==
    /\ todo[t] # <<>>
    /\ todo[t][1].op = "unref"
    /\ LET x == todo[t][1].data
           s == data_unref([refs |-> refs, dead |-> <<>>], x)
       IN  /\ refs' = s.refs
           /\ todo' = [todo EXCEPT
                         ![t] = [i \in DOMAIN s.dead |-> [op |-> "free", data |-> x]] \o Tail(@)]
    /\ UNCHANGED <<dictVars, pairVars, content>>

data_destroy(t) ==
    /\ todo[t] # <<>>
    /\ todo[t][1].op = "free"
    /\ content' = [content EXCEPT ![todo[t][1].data] = "free"]
    /\ todo' = [todo EXCEPT ![t] = Tail(@)]
    /\ UNCHANGED <<dictVars, pairVars, refs>>

-----------------------------------------------------------------------------
(* dict_set, dict_del, dict_get_with_ref, dict_copy *)

\* dict_set_str, dict_set_ptr, ...: a new value under a key; when dict_set
\* fails the value is left behind.
dict_set(t, d, k, c) ==
    /\ Idle(t)
    /\ Exclusive(t, d)
    /\ FreeDatas(Store(d)) # {}
    /\ LET x == Min(FreeDatas(Store(d)))
       IN  /\ _dict_lookup(Store(d), k) \/ Len(list[d]) < MaxPairs
           /\ \E mem \in BOOLEAN :
                 Commit(t, d, _dict_set(get_new_data(Store(d), c), k, x, mem), <<>>)
    /\ UNCHANGED dictVars

dict_del(t, d, k) ==
    /\ Idle(t)
    /\ Exclusive(t, d)
    /\ _dict_lookup(Store(d), k)
    /\ Commit(t, d, Unlink(Store(d), k), <<>>)
    /\ UNCHANGED dictVars

\* dict_get_ptr, dict_get_str, dict_get_bin: look the pair up under the lock...
dict_get_with_ref(t, d, k) ==
    /\ Idle(t)
    /\ Holds(t, d)
    /\ _dict_lookup(Store(d), k)
    /\ todo' = [todo EXCEPT ![t] = <<[op |-> "ref", dict |-> d, key |-> k]>>]
    /\ UNCHANGED <<dictVars, pairVars, dataVars>>

\* ... reference pair->value after the unlock, read it and unreference it.
DataRef(t) ==
    /\ todo[t] # <<>>
    /\ todo[t][1].op = "ref"
    /\ LET d == todo[t][1].dict
           x == list[d][Position(Store(d), todo[t][1].key)].value
       IN  /\ refs' = data_ref([refs |-> refs], x).refs
           /\ todo' = [todo EXCEPT ![t] = <<[op |-> "unref", data |-> x]>>]
    /\ UNCHANGED <<dictVars, pairVars, content>>

\* dict_copy and dict_copy_with_ref into a dict of the caller; with no dict
\* given they begin with get_new_dict and dict_new.
dict_copy(t, from, to) ==
    /\ Idle(t)
    /\ Holds(t, from)
    /\ Exclusive(t, to)
    /\ Cardinality({p.key : p \in Range(list[from]) \cup Range(list[to])}) =< MaxPairs
    /\ todo' = [todo EXCEPT
                  ![t] = [i \in DOMAIN list[from] |->
                            [op |-> "copy", from |-> from, to |-> to, at |-> i]]]
    /\ UNCHANGED <<dictVars, pairVars, dataVars>>

\* _copy, called by dict_foreach: dict_set on the copy shares the value.
CopyPair(t) ==
    /\ todo[t] # <<>>
    /\ todo[t][1].op = "copy"
    /\ LET j == todo[t][1]
           pair == list[j.from][j.at]
       IN  \E mem \in BOOLEAN :
              Commit(t, j.to, _dict_set(Store(j.to), pair.key, pair.value, mem), Tail(todo[t]))
    /\ UNCHANGED dictVars

-----------------------------------------------------------------------------
(* The buffer: count:4, then for each pair keylen:4 vallen:4 key '\0' value. *)

DICT_HDR_LEN == 4
DICT_DATA_HDR_KEY_LEN == 4
DICT_DATA_HDR_VAL_LEN == 4

PairLen(k, c) ==
    DICT_DATA_HDR_KEY_LEN + DICT_DATA_HDR_VAL_LEN + KeyLen(k) + 1 + Len0(c)

\* The first count pairs of the list; the walks end there, or at the list's end.
Counted(d) == SubSeq(list[d], 1, Min({count[d], Len(list[d])}))

\* _dict_serialized_length: negative when the count is, or when pairs are missing.
_dict_serialized_length(d) ==
    IF count[d] < 0 \/ count[d] > Len(list[d])
    THEN -1
    ELSE FoldLeft(LAMBDA len, pair : len + PairLen(pair.key, content[pair.value]),
                  DICT_HDR_LEN, Counted(d))

\* _dict_serialize: what has been written when the pairs end or the first value
\* without contents is met; its two lengths and key are in the buffer by then.
_dict_serialize(d) ==
    LET out == FoldLeft(
                 LAMBDA b, pair :
                   LET c == content[pair.value]
                   IN  IF b.ret # 0 THEN b
                       ELSE [pairs |-> Append(b.pairs, [key |-> pair.key, content |-> c]),
                             written |-> b.written + PairLen(pair.key, c),
                             ret |-> IF c = NULL THEN -1 ELSE 0],
                 [pairs |-> <<>>, written |-> DICT_HDR_LEN, ret |-> 0], Counted(d))
    IN  IF count[d] < 0 THEN [pairs |-> <<>>, written |-> 0, ret |-> -1]
        ELSE IF count[d] > Len(list[d]) THEN [out EXCEPT !.ret = -1]
        ELSE out

\* dict_allocate_and_serialize: the buffer that is returned; on failure it is
\* freed again.  The dict does not change.
dict_allocate_and_serialize(d) ==
    IF _dict_serialized_length(d) < 0 \/ _dict_serialize(d).ret < 0
    THEN NULL
    ELSE _dict_serialize(d).pairs

Size(w) == FoldLeft(LAMBDA len, p : len + PairLen(p.key, p.content), DICT_HDR_LEN, w)

\* Mutant: the test for the value starts at the '\0' of the key.
RoomWithoutNul(buf, p, size) ==
    LET keylenEnd == buf + DICT_DATA_HDR_KEY_LEN
        vallenEnd == keylenEnd + DICT_DATA_HDR_VAL_LEN
    IN  /\ keylenEnd =< size
        /\ vallenEnd =< size
        /\ vallenEnd + KeyLen(p.key) =< size
        /\ vallenEnd + KeyLen(p.key) + Len0(p.content) =< size

\* The four tests of the loop: keylen, vallen, key, and value after the '\0'.
Room(buf, p, size) ==
    LET keylenEnd == buf + DICT_DATA_HDR_KEY_LEN
        vallenEnd == keylenEnd + DICT_DATA_HDR_VAL_LEN
    IN  /\ keylenEnd =< size
        /\ vallenEnd =< size
        /\ vallenEnd + KeyLen(p.key) =< size
        /\ vallenEnd + KeyLen(p.key) + 1 + Len0(p.content) =< size

\* The pairs that dict_unserialize sets from the first size bytes of buffer w.
Parse(w, size) ==
    IF DICT_HDR_LEN > size
    THEN [pairs |-> <<>>, buf |-> 0, ret |-> -1]
    ELSE LET parsed[n \in 0 .. Len(w)] ==
                 IF n = 0 THEN [pairs |-> <<>>, buf |-> DICT_HDR_LEN, ret |-> 0]
                 ELSE LET b == parsed[n - 1]
                      IN  IF b.ret = 0 /\ Room(b.buf, w[n], size)
                          THEN [b EXCEPT !.pairs = Append(@, w[n]),
                                         !.buf = @ + PairLen(w[n].key, w[n].content)]
                          ELSE [b EXCEPT !.ret = -1]
         IN  parsed[Len(w)]

\* One new value per pair; a failing dict_set is not noticed.
Fill(s, pairs, mem) ==
    LET filled[n \in 0 .. Len(pairs)] ==
            IF n = 0 THEN [s EXCEPT !.count = 0]
            ELSE LET r == filled[n - 1]
                 IN  _dict_set(get_new_data(r, pairs[n].content), pairs[n].key,
                               Min(FreeDatas(r)), mem[n])
    IN  filled[Len(pairs)]

\* The count of the dict is reset, its members stay.
dict_unserialize(t, d, w, size) ==
    LET in == Parse(w, size)
    IN  /\ Idle(t)
        /\ Exclusive(t, d)
        /\ Cardinality(FreeDatas(Store(d))) >= Len(in.pairs)
        /\ Cardinality({p.key : p \in Range(list[d]) \cup Range(in.pairs)}) =< MaxPairs
        /\ IF DICT_HDR_LEN > size
           THEN UNCHANGED <<pairVars, dataVars, todo>>
           ELSE \E mem \in [DOMAIN in.pairs -> BOOLEAN] :
                   Commit(t, d, Fill(Store(d), in.pairs, mem), <<>>)
        /\ UNCHANGED dictVars

-----------------------------------------------------------------------------
Init ==
    /\ state = [d \in Dicts |-> "free"]
    /\ refcount = [d \in Dicts |-> 0]
    /\ held = [t \in Threads |-> [d \in Dicts |-> 0]]
    /\ maker = [d \in Dicts |-> NULL]
    /\ list = [d \in Dicts |-> <<>>]
    /\ chain = [d \in Dicts |-> [h \in 0 .. HashSize - 1 |-> <<>>]]
    /\ count = [d \in Dicts |-> 0]
    /\ content = [x \in Datas |-> "free"]
    /\ refs = [x \in Datas |-> 0]
    /\ todo = [t \in Threads |-> <<>>]

Call(t, d) ==
    \/ dict_new(t, d)
    \/ get_new_dict(t, d)
    \/ \E u \in Threads : dict_ref(t, u, d)
    \/ dict_unref(t, d)
    \/ dict_destroy(t, d)
    \/ \E s \in Settings : dict_set(t, d, s.key, s.content)
    \/ \E k \in Keys : dict_del(t, d, k)
    \/ \E k \in Keys : dict_get_with_ref(t, d, k)
    \/ \E to \in Dicts : dict_copy(t, d, to)
    \/ \E w \in Buffers, cut \in Cuts : Size(w) >= cut /\ dict_unserialize(t, d, w, Size(w) - cut)

Continue(t) ==
    \/ Destroy(t)
    \/ Gone(t)
    \/ DataUnref(t)
    \/ data_destroy(t)
    \/ DataRef(t)
    \/ CopyPair(t)

Next == \E t \in Threads : Continue(t) \/ \E d \in Dicts : Call(t, d)

Spec == Init /\ [][Next]_vars

-----------------------------------------------------------------------------
(* Properties *)

Live == {d \in Dicts : state[d] = "live"}

Pair == [key : Keys, value : Datas]
Op == [op : {"destroy", "gone"}, dict : Dicts]
      \cup [op : {"unref", "free"}, data : Datas]
      \cup [op : {"ref"}, dict : Dicts, key : Keys]
      \cup [op : {"copy"}, from : Dicts, to : Dicts, at : Nat \ {0}]

\* Types.
TypeOK ==
    /\ state \in [Dicts -> {"free", "live", "dying"}]
    /\ refcount \in [Dicts -> Nat]
    /\ held \in [Threads -> [Dicts -> Nat]]
    /\ maker \in [Dicts -> Threads \cup {NULL}]
    /\ list \in [Dicts -> Seq(Pair)]
    /\ chain \in [Dicts -> [0 .. HashSize - 1 -> Seq(Keys)]]
    /\ count \in [Dicts -> Int]
    /\ content \in [Datas -> AllContents \cup {"free"}]
    /\ refs \in [Datas -> Nat]
    /\ todo \in [Threads -> Seq(Op)]

\* The elements of the sets F[a], each with its a.
Tagged(F) == UNION {{a} \X F[a] : a \in DOMAIN F}

\* How many references on value x will be given back: those of the pairs of all
\* dicts, and those of threads that in getters and in dict_destroy have a
\* data_unref still to make.  (The pairs of a dict are different: ChainsMatchList.)
Owners(x) ==
    Cardinality(Tagged([d \in Dicts |-> {p \in Range(list[d]) : p.value = x}]))
    + Cardinality(Tagged([t \in Threads |->
                             {i \in DOMAIN todo[t] :
                                todo[t][i].op = "unref" /\ todo[t][i].data = x}]))

\* data->refcount is the number of owners and dict->refcount the number of
\* references the threads have: dict_copy, dict_set over an old value and
\* dict_destroy in several threads neither leak nor free too early.  (A value that
\* a failing dict_set leaves at count zero has no owner and the right count: that
\* nobody will free it is not seen here.)
RefsAccounted ==
    /\ \A x \in Datas : IF content[x] = "free" THEN Owners(x) = 0 ELSE refs[x] = Owners(x)
    /\ \A d \in Live : refcount[d] = Cardinality(Tagged([t \in Threads |-> 1 .. held[t][d]]))

\* Among clients that change a dict only while they have the one reference on it
\* (Exclusive), no call uses what another has freed: a value that several dicts
\* share is destroyed once, when nobody owns it, although the dicts are copied,
\* set and destroyed by several threads at once; a pair found under the lock is
\* there after the unlock; the dict that is destroyed has no users.  Clients that
\* set a dict while others read it are outside of this: dict_get_with_ref
\* references the value after the unlock (dict.c:1248), when a set may have
\* freed it, and nothing in dict.c prevents that.
NoDanglingUse ==
    \A t \in Threads : todo[t] # <<>> =>
        LET j == todo[t][1]
        IN  CASE j.op = "free" ->
                   /\ content[j.data] # "free"
                   /\ Owners(j.data) = 0
                   /\ \A u \in Threads \ {t} : \A i \in DOMAIN todo[u] : todo[u][i] # j
              [] j.op = "unref" -> content[j.data] # "free" /\ refs[j.data] > 0
              [] j.op = "ref" -> state[j.dict] = "live" /\ j.key \in {p.key : p \in Range(list[j.dict])}
              [] j.op = "copy" ->
                   /\ Holds(t, j.from) /\ Exclusive(t, j.to)
                   /\ j.at \in DOMAIN list[j.from]
                   /\ content[list[j.from][j.at].value] # "free"
              [] j.op \in {"destroy", "gone"} ->
                   /\ state[j.dict] # "free"
                   /\ \A u \in Threads : held[u][j.dict] = 0
                   /\ maker[j.dict] = NULL

\* The hash chains and the members list hold the same keys, each once and each
\* in the chain of its hash value, through every mix of set, delete, copy and
\* unserialize; the walks of count pairs never leave the list, although
\* dict_unserialize resets the count of a dict that has members.
ChainsMatchList ==
    /\ TypeOK
    /\ \A d \in Live :
           /\ \A i, j \in DOMAIN list[d] : list[d][i].key = list[d][j].key => i = j
           /\ \A h \in 0 .. HashSize - 1 :
                 chain[d][h] = Only({k \in Keys : Hash(k) = h},
                                    [i \in DOMAIN list[d] |-> list[d][i].key])
           /\ count[d] =< Len(list[d])

\* _dict_serialize fills the buffer of _dict_serialized_length bytes exactly
\* when it succeeds, and never writes behind it when it fails.
LengthIsExact ==
    \A d \in Live :
        LET len == _dict_serialized_length(d)
            out == _dict_serialize(d)
        IN  /\ len < 0 => out.ret = -1
            /\ len >= 0 => out.written =< len
            /\ out.ret = 0 => out.written = len

\* dict_unserialize of the whole buffer into an empty dict makes the same dict
\* again; of a buffer cut anywhere it fails, and sets a prefix of the pairs, none
\* of which reaches behind the cut.
RoundTrip ==
    \A d \in Live :
        LET out == _dict_serialize(d)
            full == Parse(out.pairs, out.written)
            empty == [list |-> <<>>, chain |-> [h \in 0 .. HashSize - 1 |-> <<>>], count |-> 0,
                      content |-> [x \in Datas |-> "free"], refs |-> [x \in Datas |-> 0],
                      dead |-> <<>>]
            copy == Fill(empty, full.pairs, [i \in DOMAIN full.pairs |-> TRUE])
        IN  dict_allocate_and_serialize(d) # NULL =>
              /\ full.ret = 0
              /\ copy.count = count[d]
              /\ {<<p.key, copy.content[p.value]>> : p \in Range(copy.list)}
                   = {<<p.key, content[p.value]>> : p \in Range(Counted(d))}
              /\ \A size \in 0 .. out.written - 1 :
                    LET cut == Parse(out.pairs, size)
                    IN  cut.ret = -1 /\ cut.buf =< size /\ IsPrefix(cut.pairs, out.pairs)

\* A dict is written into exactly the bytes that dict_serialized_length announced,
\* and read back from exactly all of them.
SerializesExactly == LengthIsExact /\ RoundTrip
=============================================================================
