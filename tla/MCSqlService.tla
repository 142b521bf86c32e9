----------------------------- MODULE MCSqlService -----------------------------
(* Two rows, two columns of bits, and calls that name one row or both and  *)
(* one column or both.                                                     *)
EXTENDS SqlService

CONSTANTS i1, i2, a, b

ToCall(do, ids, set, code) ==
  [do |-> do, ids |-> ids, set |-> set, values |-> [k \in Column |-> 1],
   notFoundCode |-> code]

MCCall ==
  {ToCall("create", ids, Column, TRUE) : ids \in {{i1}, {i1, i2}}}
  \cup {ToCall("updateById", {i1}, set, code) : set \in {{a}, Column}, code \in BOOLEAN}
  \cup {ToCall("updateOne", Id, {b}, TRUE), ToCall("updateMany", Id, Column, FALSE),
        ToCall("deleteOne", {i1}, {}, TRUE), ToCall("deleteMany", Id, {}, FALSE)}
=============================================================================
