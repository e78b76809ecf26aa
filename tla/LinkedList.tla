----------------------------- MODULE LinkedList -----------------------------
(***************************************************************************)
(* The circular doubly linked lists of list.h, seen as the sequence of     *)
(* entries met when list_for_each_entry walks from the head node.  An      *)
(* entry has one embedded list_head, so it is on at most one list at a     *)
(* time and occurs at most once on it: the sequences have no duplicates.   *)
(***************************************************************************)
EXTENDS Naturals, Sequences, Functions

\* The entries on list s.
Entries(s) == Range(s)

\* list_add: new becomes the first entry after the head node.
list_add(new, s) == <<new>> \o s

\* list_add_tail: new becomes the last entry before the head node.
list_add_tail(new, s) == Append(s, new)

\* The place of an entry on its list.
Place(x, s) == CHOOSE i \in DOMAIN s : s[i] = x

\* list_del and list_del_init: unlink the entry from the list that holds it.
\* The C code unlinks through the entry's own pointers, whatever list that is;
\* a list that does not hold the entry keeps its value.
list_del(old, s) ==
    IF old \in Entries(s)
    THEN [i \in 1 .. Len(s) - 1 |-> IF i < Place(old, s) THEN s[i] ELSE s[i + 1]]
    ELSE s

list_empty(s) == s = <<>>

\* What list_for_each_entry_safe leaves on s when its body unlinks every entry
\* that is not in keep.
list_keep(s, keep) ==
    IF Entries(s) \cap keep = {} THEN <<>> ELSE SelectSeq(s, LAMBDA x : x \in keep)
=============================================================================
