------------------------------- MODULE Schema -------------------------------
(***************************************************************************)
(* What the migrations need of MySQL: a catalog of tables, columns, indexes *)
(* and foreign keys, and the clauses of the statements that change it.  A   *)
(* statement is one ALTER TABLE, CREATE TABLE or UPDATE: all its clauses    *)
(* take effect or none does, and it is committed when it returns (DDL       *)
(* commits implicitly).                                                     *)
(*                                                                          *)
(* A table is <<t>>; a column, an index or a check is <<t, name>>; a column *)
(* whose data type the code looks up also has <<t, c, "int">>.  Types are   *)
(* kept only as far as foreign keys tell them apart: INT or BIGINT.  The    *)
(* length of a type, its default and ON DELETE rules are left out.          *)
(***************************************************************************)
EXTENDS SequencesExt

In(t, names) == {<<t, n>> : n \in names}

FK(name, at, to) == [name |-> name, at |-> at, to |-> to]

(* objs: what exists; links: the foreign keys; wide: the BIGINT columns;    *)
(* odd: columns in which some row holds no value (or one that refers to     *)
(* nothing), and tables with rows the upgrade has no place for;             *)
(* roots: columns in which some row refers to nothing on purpose, by NULL   *)
(* or by 0 as the upgrade has it: a 0 is odd, a NULL is not;                 *)
(* data: <<origin, column>>, the column holds the values the origin column  *)
(* of the first installation held.                                          *)
NoSchema == [objs |-> {}, links |-> {}, wide |-> {}, odd |-> {}, roots |-> {}, data |-> {}]

(* What a look-up in INFORMATION_SCHEMA finds: objects, constraints by      *)
(* name, and which column refers to which table.                            *)
Has(s, o) == o \in s.objs \/ \E f \in s.links : o \in {f.name, f.at \o <<f.to[1]>>}

LinksOf(c, s) == {f \in s.links : c \in {f.at, f.to}}

(* The clauses.                                                             *)
Table(t, names, wide, fks) ==
  [op |-> "table", c |-> <<t>>, objs |-> In(t, names), wide |-> In(t, wide), fks |-> fks]
DropTable(t)  == [op |-> "dropTable", c |-> <<t>>]
Add(c)        == [op |-> "add", c |-> c, odd |-> FALSE]
AddEmpty(c)   == [op |-> "add", c |-> c, odd |-> TRUE]
Drop(c)       == [op |-> "drop", c |-> c]
Move(c, d)    == [op |-> "move", c |-> c, d |-> d]
Require(c)    == [op |-> "require", c |-> c]
Widen(c)      == [op |-> "width", c |-> c, wide |-> TRUE]
Narrow(c)     == [op |-> "width", c |-> c, wide |-> FALSE]
Fill(c)       == [op |-> "fill", c |-> c]
Zero(c)       == [op |-> "zero", c |-> c]
Copy(c, d)    == [op |-> "copy", c |-> c, d |-> d]
Link(f)       == [op |-> "link", c |-> f.at, fk |-> f]
Unlink(n)     == [op |-> "unlink", c |-> n]
Refuse(o)     == [op |-> "refuse", c |-> o]

SameWidth(f, wide) == (f.at \in wide) = (f.to \in wide)

(* A foreign key needs both columns, of the same type, and a name of its    *)
(* own.                                                                     *)
CanLink(f, s) == /\ {f.at, f.to} \subseteq s.objs
                 /\ SameWidth(f, s.wide)
                 /\ f.name \notin {g.name : g \in s.links}

(* What the rows refuse: a look-up that finds some, a value that is missing *)
(* or refers to nothing.                                                    *)
RowsRefuse(k, s) == k.op \in {"refuse", "require", "link"} /\ k.c \in s.odd

(* What MySQL accepts whatever the rows are.                                *)
Accepts(k, s) ==
  CASE k.op = "table"     -> /\ k.c \notin s.objs
                             /\ \A f \in k.fks : CanLink(f, [s EXCEPT !.objs = @ \cup k.objs, !.wide = @ \cup k.wide])
    [] k.op = "dropTable" -> /\ k.c \in s.objs
                             /\ \A f \in s.links : f.to[1] = k.c[1] => f.at[1] = k.c[1]
    [] k.op = "add"       -> k.c \notin s.objs
    [] k.op = "drop"      -> k.c \in s.objs /\ LinksOf(k.c, s) = {}
    [] k.op = "move"      -> k.c \in s.objs /\ k.d \notin s.objs
    [] k.op = "width"     -> /\ k.c \in s.objs
                             /\ (k.c \in s.wide) = k.wide \/ LinksOf(k.c, s) = {}
    [] k.op = "copy"      -> {k.c, k.d} \subseteq s.objs
    [] k.op = "link"      -> CanLink(k.fk, s)
    [] k.op = "unlink"    -> \E f \in s.links : f.name = k.c
    [] OTHER              -> k.c \in s.objs

Renamed(x, c, d) == IF x = c THEN d ELSE x

(* A clause that was accepted; Carried are the columns whose values the     *)
(* upgrade is to keep.                                                      *)
Effect(k, s, Carried) ==
  CASE k.op = "table" ->
         [s EXCEPT !.objs = @ \cup {k.c} \cup k.objs, !.wide = @ \cup k.wide, !.links = @ \cup k.fks,
                   !.data = @ \cup {<<c, c>> : c \in k.objs \cap Carried}]
    [] k.op = "dropTable" ->
         [s EXCEPT !.objs = {o \in @ : o[1] # k.c[1]}, !.links = {f \in @ : f.at[1] # k.c[1]},
                   !.wide = {o \in @ : o[1] # k.c[1]}, !.odd = {o \in @ : o[1] # k.c[1]},
                   !.roots = {o \in @ : o[1] # k.c[1]}, !.data = {m \in @ : m[2][1] # k.c[1]}]
    [] k.op = "add" ->
         [s EXCEPT !.objs = @ \cup {k.c}, !.odd = IF k.odd THEN @ \cup {k.c} ELSE @]
    [] k.op = "drop" ->
         [s EXCEPT !.objs = @ \ {k.c, k.c \o <<"int">>}, !.wide = @ \ {k.c}, !.odd = @ \ {k.c},
                   !.data = {m \in @ : m[2] # k.c}]
    [] k.op = "move" ->
         [s EXCEPT !.objs = (@ \ {k.c}) \cup {k.d},
                   !.links = {[f EXCEPT !.at = Renamed(@, k.c, k.d), !.to = Renamed(@, k.c, k.d)] : f \in @},
                   !.wide = {Renamed(o, k.c, k.d) : o \in @}, !.odd = {Renamed(o, k.c, k.d) : o \in @},
                   !.data = {<<m[1], Renamed(m[2], k.c, k.d)>> : m \in @}]
    [] k.op = "width" ->
         [s EXCEPT !.wide = IF k.wide THEN @ \cup {k.c} ELSE @ \ {k.c}]
    [] k.op = "fill" -> [s EXCEPT !.odd = @ \ {k.c}]
    [] k.op = "zero" -> [s EXCEPT !.odd = @ \cup ({k.c} \cap s.roots)]
    [] k.op = "copy" ->
         [s EXCEPT !.data = @ \cup {<<m[1], k.d>> : m \in {n \in @ : n[2] = k.c}},
                   !.odd = @ \ {k.d}]
    [] k.op = "link" -> [s EXCEPT !.links = @ \cup {k.fk}]
    [] k.op = "unlink" -> [s EXCEPT !.links = {f \in @ : f.name # k.c}]
    [] OTHER -> s

(* One statement: its clauses in order, all or nothing.                     *)
Ran(ks, s, Carried) ==
  FoldLeft(LAMBDA r, k : CASE r.result # "done"    -> r
                           [] RowsRefuse(k, r.s)   -> [result |-> "refused", s |-> s]
                           [] ~ Accepts(k, r.s)    -> [result |-> "stuck", s |-> s]
                           [] OTHER                -> [r EXCEPT !.s = Effect(k, @, Carried)],
           [result |-> "done", s |-> s], ks)
=============================================================================
