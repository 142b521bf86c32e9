---------------------------- MODULE MCMongoService ----------------------------
(* Two documents, two fields, and calls that set one field or increment    *)
(* the other, in one document or both.                                     *)
EXTENDS MongoService

CONSTANTS i1, i2, a, b

ToCall(do, ids, set, vb, code) ==
  [do |-> do, ids |-> ids, set |-> set, notFoundCode |-> code,
   values |-> [k \in Column |-> IF k = b THEN vb ELSE 1]]

MCCall ==
  {ToCall("create", ids, Column, 1, TRUE) : ids \in {{i1}, {i1, i2}}}
  \cup {ToCall("updateOne", ids, {b}, Inc, code) : ids \in {{i1}, Id}, code \in BOOLEAN}
  \cup {ToCall("updateOne", {i1}, Column, Inc, TRUE),
        ToCall("updateMany", Id, {b}, Inc, FALSE), ToCall("updateMany", Id, {a}, 1, FALSE),
        ToCall("deleteOne", {i1}, {}, 1, TRUE), ToCall("deleteMany", Id, {}, 1, FALSE)}
=============================================================================
