---------------------------- MODULE EntityTable ----------------------------
(***************************************************************************)
(* A table of TypeORM entities, and the two statements of save(entity): a  *)
(* SELECT by id, then an UPDATE of the columns in which the entity differs *)
(* from the row selected, or an INSERT when there was none.  The program   *)
(* saves whole entities that it found some awaits earlier.                 *)
(***************************************************************************)

(* The columns the UPDATE will set. *)
Changed(rows, id, entity) ==
  {c \in DOMAIN entity : entity[c] # rows[id][c]}

(* UPDATE ... WHERE id: nothing when the row has gone meanwhile. *)
UpdateColumns(rows, id, entity, columns) ==
  [i \in DOMAIN rows |->
     IF i = id
       THEN [c \in DOMAIN rows[i] |->
               IF c \in columns THEN entity[c] ELSE rows[i][c]]
       ELSE rows[i]]

InsertRow(rows, id, entity) ==
  [i \in DOMAIN rows \cup {id} |-> IF i = id THEN entity ELSE rows[i]]

(* DELETE, and the effect of manager.remove. *)
DeleteRow(rows, id) == [i \in DOMAIN rows \ {id} |-> rows[i]]
=============================================================================
