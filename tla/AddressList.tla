---------------------------- MODULE AddressList ----------------------------
(***************************************************************************)
(* The fixed-capacity address arrays of debugger.c.  An array and its      *)
(* count are one sequence: what lies beyond the count is never read.       *)
(***************************************************************************)
EXTENDS Integers, Sequences

address_list_contains(list, addr) == \E i \in 1 .. Len(list) : list[i] = addr

\* The new list; an address already listed or a full array changes nothing.
address_list_add(list, capacity, addr) ==
    IF address_list_contains(list, addr) \/ Len(list) = capacity
    THEN list
    ELSE Append(list, addr)

\* Mutation: the last element is dropped, the one found stays.
address_list_remove_Last(list, addr) ==
    IF ~address_list_contains(list, addr)
    THEN list
    ELSE SubSeq(list, 1, Len(list) - 1)

\* The last element takes the place of the first one that is addr.
address_list_remove(list, addr) ==
    IF ~address_list_contains(list, addr)
    THEN list
    ELSE LET i == CHOOSE i \in 1 .. Len(list) :
                    list[i] = addr /\ \A j \in 1 .. i - 1 : list[j] # addr
         IN  SubSeq([list EXCEPT ![i] = list[Len(list)]], 1, Len(list) - 1)

\* The set a list stands for, and the lists that stand for one faithfully.
Listed(list) == {list[i] : i \in 1 .. Len(list)}
IsSetList(list, capacity) ==
    /\ Len(list) <= capacity
    /\ \A i, j \in 1 .. Len(list) : list[i] = list[j] => i = j

=============================================================================
