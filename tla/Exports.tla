------------------------------ MODULE Exports ------------------------------
(***************************************************************************)
(* The export of rows to a workbook: the columns that a client asks for,   *)
(* each a path of one or two fields, are looked up among those that the    *)
(* entity defines and made into a tree, which says what to read of a row   *)
(* and of the rows related to it; then every row that was read, a tree     *)
(* itself, is flattened into lines.  A row with a list takes a line for    *)
(* each item.  The first sheet repeats the row's own values on each of its *)
(* lines, the second one, written if a row has several lines, does not.    *)
(*                                                                         *)
(* A document is a sequence of entries (Conditions), in the order of its   *)
(* keys: is = "value", "json" (an object that is stored in the row),       *)
(* "object" or "list" (a related row, or several).  No entity declares a   *)
(* field as hasMany or object, and relations do not nest: of two entities  *)
(* that refer to each other the one that is loaded first does not find the *)
(* other.  The dates' format and the length of a cell are left out.        *)
(***************************************************************************)
EXTENDS Conditions, SequencesExt, FiniteSets, TLC

CONSTANT Fields   \* the fields that an entity defines: [field, target], where
                  \* target is an entity, Null, or "name" for one that is given
                  \* by its name instead of its class

RECURSIVE Defines(_, _)
\* getExportDefinition: the paths below a path to an entity.
Defines(entity, above) ==
  IF entity \notin DOMAIN Fields THEN {}
  ELSE UNION {{Append(above, f.field)} \cup Defines(f.target, Append(above, f.field)) :
              f \in Elements(Fields[entity])}

\* Metadata is not kept of a name: looking it up throws.
Throws(entity) == \E f \in Elements(Fields[entity]) : f.target = "name"

\* Every field on the way to a column.
Tree(definitions) == UNION {{SubSeq(d, 1, n) : n \in DOMAIN d} : d \in definitions}

Children(tree, key) == {k \in tree : Front(k) = key}

\* SqlUtil: what is read of a row, everything if nothing is named.
Attributes(tree, key) == {Last(k) : k \in {c \in Children(tree, key) : Children(tree, c) = {}}}

\* MongoUtil: which relations are followed.
Populated(tree, key) == {Last(k) : k \in {c \in Children(tree, key) : Children(tree, c) # {}}}

RECURSIVE Loaded(_, _, _)
Loaded(tree, key, doc) ==
  LET asked == Attributes(tree, key)
      read(e) == CASE e.is \in {"value", "json"}  -> asked = {} \/ e.key \in asked
                   [] e.is \in {"object", "list"} -> e.key \in Populated(tree, key)
      below(e) == Loaded(tree, Append(key, e.key), e.of)
      kept == SelectSeq(doc, read)
      load(e) == CASE e.is = "object" -> [e EXCEPT !.of = below(e)]
                   [] e.is = "list" ->
                        [e EXCEPT !.of = [i \in DOMAIN @ |-> Loaded(tree, Append(key, e.key), @[i])]]
                   [] OTHER -> e
  IN  [i \in DOMAIN kept |-> load(kept[i])]

-----------------------------------------------------------------------------
(* Lines are functions from paths to values. *)

\* The first sheet's lines too begin with nothing.
NewRowEmpty(line, type) == <<>>

\* Of the line of the first item, all that has been written to it so far.
NewRow(line, type) == IF type = "partial" THEN <<>> ELSE line

RECURSIVE Dfs(_, _, _, _, _, _)
\* The lines after a document is written to the one numbered at.
Dfs(lines, at, doc, above, columns, type) ==
  LET write(ls, e) ==
        LET key == Append(above, e.key)
            item(done, i) ==
              IF i = 1 THEN Dfs(done, at, e.of[i], key, columns, type)
              ELSE Dfs(Append(done, NewRow(done[at], type)), Len(done) + 1, e.of[i],
                       key, columns, type)
        IN  IF key \notin columns THEN ls
            ELSE CASE e.is = "value"  -> IF e.of = Null THEN ls
                                         ELSE [ls EXCEPT ![at] = (key :> e.of) @@ @]
                   [] e.is = "json"   -> ls
                   [] e.is = "object" -> Dfs(ls, at, e.of, key, columns, type)
                   [] e.is = "list"   -> FoldLeft(item, ls, [i \in DOMAIN e.of |-> i])
  IN  FoldLeft(write, lines, doc)

\* getData: the lines of each document after those of the one before.
Lines(docs, columns, type) ==
  FlattenSeq([i \in DOMAIN docs |-> Dfs(<< <<>> >>, 1, docs[i], <<>>, columns, type)])

\* getWorkSheet: the cells of the columns that were asked for.
WorkSheet(lines, definitions) ==
  [n \in DOMAIN lines |-> [d \in DOMAIN lines[n] \cap definitions |-> lines[n][d]]]

\* The keys that are looked at are, once more, those of the tree.
SetKeys(definitions) == Tree(definitions)

Book(docs, definitions) ==
  LET columns == SetKeys(definitions)
      full == Lines(docs, columns, "full")
      partial == IF Len(full) > Len(docs) THEN Lines(docs, columns, "partial") ELSE <<>>
  IN  [full |-> WorkSheet(full, definitions), partial |-> WorkSheet(partial, definitions)]
=============================================================================
