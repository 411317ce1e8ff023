------------------------------ MODULE SwapList ------------------------------
(***************************************************************************)
(* What a segmented_vector is to its user: a list that grows at the end,   *)
(* and whose last element takes the place of an erased one.                *)
(***************************************************************************)
EXTENDS Naturals, Sequences, SequencesExt

CONSTANTS Values, MaxSize

VARIABLE list

ListInit == list = <<>>

Add(x) == list' = Append(list, x)

FillWithLast(k) == list' = Front([list EXCEPT ![k] = Last(list)])

(* The others stay, in some order. *)
RemoveAll(P) ==
  /\ list' \in Seq(Values \ P)
  /\ \A x \in Values \ P :
       Cardinality({k \in DOMAIN list' : list'[k] = x})
         = Cardinality({k \in DOMAIN list : list[k] = x})

GrowTo(size, x) == list' = list \o [k \in 1 .. size - Len(list) |-> x]

Empty == list' = <<>>

ListNext ==
  \/ \E x \in Values : Add(x)
  \/ \E k \in DOMAIN list : FillWithLast(k)
  \/ \E P \in SUBSET Values : RemoveAll(P)
  \/ \E size \in Len(list) .. MaxSize, x \in Values : GrowTo(size, x)
  \/ Empty

ListSpec == ListInit /\ [][ListNext]_list

=============================================================================
