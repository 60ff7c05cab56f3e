----------------------------- MODULE OrderedSet -----------------------------
(***************************************************************************)
(* What a priority queue of distinct numbers promises: a set, and the      *)
(* answers of the calls that change or read it.  op is the last call: its  *)
(* name, its argument and what it returned (0 where there is neither).     *)
(* PairingHeap is shown to implement it.                                   *)
(***************************************************************************)
EXTENDS Integers, Sequences

CONSTANTS Elements,   \* positive numbers
          Visits      \* how many elements one enumeration returns at most

VARIABLES set, op

None == 0
Least(S) == IF S = {} THEN None ELSE CHOOSE n \in S : \A m \in S : n <= m

Init == set = {} /\ op = [name |-> "new", arg |-> None, ret |-> <<None>>]

Called(name, arg, ret) == op' = [name |-> name, arg |-> arg, ret |-> ret]

Insert(n) ==
  Called("insert", n, <<None>>) /\ n \notin set /\ set' = set \cup {n}

Remove(n) == Called("remove", n, <<None>>) /\ n \in set /\ set' = set \ {n}

First == Called("first", None, <<Least(set)>>) /\ UNCHANGED set

RemoveFirst ==
  Called("remove_first", None, <<Least(set)>>) /\ set' = set \ {Least(set)}

(* Any element will do. *)
RemoveAny ==
  \/ Called("remove_any", None, <<None>>) /\ set = {} /\ UNCHANGED set
  \/ \E n \in set : Called("remove_any", None, <<n>>) /\ set' = set \ {n}

(* Elements in any order, each of them once, and as many as allowed. *)
Enumerate ==
  /\ op'.name = "enumerate" /\ op'.arg = None
  /\ set # {}
  /\ UNCHANGED set
  /\ LET seen == op'.ret
     IN  /\ \A i \in 1 .. Len(seen) : seen[i] \in set
         /\ \A i, j \in 1 .. Len(seen) : seen[i] = seen[j] => i = j
         /\ Len(seen) = Visits \/ \A n \in set : \E i \in 1 .. Len(seen) :
                                                   seen[i] = n

Next == \/ \E n \in Elements : Insert(n) \/ Remove(n)
        \/ First \/ RemoveFirst \/ RemoveAny \/ Enumerate

Spec == Init /\ [][Next]_<<set, op>>
=============================================================================
