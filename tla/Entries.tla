------------------------------ MODULE Entries ------------------------------
(***************************************************************************)
(* Conditions as the clients and the repositories write them: a sequence   *)
(* of entries, the properties of a JavaScript object.  An entry names a    *)
(* field and the value it shall have (is = "value"), criteria on a field   *)
(* ("criteria"), or $and / $or and a sequence of conditions ("list").      *)
(***************************************************************************)
EXTENDS Naturals, Sequences

CONSTANT Null        \* no value

Entry(key, is, of) == [key |-> key, is |-> is, of |-> of]
Elements(s) == {s[i] : i \in DOMAIN s}
=============================================================================
