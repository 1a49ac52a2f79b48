------------------------------ MODULE SchemaOps ------------------------------
(***************************************************************************)
(* The alembic operations the migrations use, as PostgreSQL executes them. *)
(* A schema is three relations:                                            *)
(*   cols : {<<table, column>>}                                            *)
(*   json : the columns of type json, which has none of jsonb's operators  *)
(*          and no implicit cast to it                                     *)
(*   objs : {<<kind, name, table, columns, ref>>}, kind one of             *)
(*          "ix" index, "ux" unique index, "uq" unique constraint,         *)
(*          "ck" check constraint, "fk" foreign key (to table ref).        *)
(* Other types, defaults and primary keys are left out.  Whether the rows  *)
(* of a populated table satisfy a constraint being added is data the       *)
(* schema does not hold: Demand(o) names the data an operation needs, and  *)
(* the set clean of a transaction the demands it has already met.          *)
(***************************************************************************)
EXTENDS FiniteSets, Sequences

Empty == [cols |-> {}, json |-> {}, objs |-> {}]
Tables(db) == {x[1] : x \in db.cols}
ColumnsOf(db, t) == {x[2] : x \in {y \in db.cols : y[1] = t}}

\* Indexes and the indexes behind unique constraints share one namespace.
IsIndex(x) == x[1] \in {"ix", "ux"}
NamesAnIndex(x) == x[1] \in {"ix", "ux", "uq"}
IndexNames(db) == {x[2] : x \in {y \in db.objs : NamesAnIndex(y)}}
ConstraintsOf(db, t) == {x \in db.objs : ~IsIndex(x) /\ x[3] = t}

\* The parts of a create_table, and the argument of a create_*_constraint.
Uq(n, c) == <<"uq", n, c, "">>
Ck(n, c) == <<"ck", n, c, "">>
Fk(n, c, ref) == <<"fk", n, c, ref>>
On(t, p) == <<p[1], p[2], t, p[3], p[4]>>

Create(t, c, parts) == [op |-> "create", t |-> t, c |-> c, parts |-> parts]
Drop(t) == [op |-> "drop", t |-> t]
DropCascade(t) == [op |-> "drop_cascade", t |-> t]
Rename(t, u) == [op |-> "rename", t |-> t, u |-> u]
AddColumns(t, c) == [op |-> "add_columns", t |-> t, c |-> c]
DropColumns(t, c) == [op |-> "drop_columns", t |-> t, c |-> c]
RenameColumn(t, c, d) == [op |-> "rename_column", t |-> t, c |-> c, d |-> d]
Index(n, t, c) == [op |-> "index", n |-> n, t |-> t, c |-> c, kind |-> "ix"]
UniqueIndex(n, t, c) == [op |-> "index", n |-> n, t |-> t, c |-> c, kind |-> "ux"]
IndexIfNotExists(n, t, c) == [op |-> "index_if", n |-> n, t |-> t, c |-> c]
DropIndex(n) == [op |-> "drop_index", n |-> n]
DropIndexIfExists(n) == [op |-> "drop_index_if", n |-> n]
RenameIndex(n, m) == [op |-> "rename_index", n |-> n, m |-> m]
Add(t, part) == [op |-> "add", t |-> t, part |-> part]
DropConstraint(t, n) == [op |-> "drop_constraint", t |-> t, n |-> n]
DropFksOn(t, c) == [op |-> "drop_fks_on", t |-> t, c |-> c]
RenameConstraint(t, n, m) == [op |-> "rename_constraint", t |-> t, n |-> n, m |-> m]
SetNotNull(t, c) == [op |-> "set_not_null", t |-> t, c |-> {c}]
\* A statement that reads or writes rows, or alters a column's type or default.
Touch(t, c) == [op |-> "touch", t |-> t, c |-> c]
\* Columns created as json, or altered to json or to jsonb.
ToJson(t, c) == [op |-> "to_json", t |-> t, c |-> c]
ToJsonb(t, c) == [op |-> "to_jsonb", t |-> t, c |-> c]
\* A statement that mixes the columns with jsonb values.
ReadJsonb(t, c) == [op |-> "read_jsonb", t |-> t, c |-> c]
\* A statement after which every row of t meets the demand <<k, t, c>>.
Fix(k, t, c) == [op |-> "fix", k |-> k, t |-> t, c |-> c]
Comment(ts) == [op |-> "comment", ts |-> ts]
\* A downgrade that raises: the migration is one-way.
Refuse == [op |-> "refuse"]

Migration(r, d, u, w) == [revision |-> r, down_revision |-> d, upgrade |-> u, downgrade |-> w]

----------------------------------------------------------------------------
\* May o be executed on db?  PostgreSQL raises when it may not.
PartOk(db, t, c, p) ==
  /\ p[3] \subseteq c
  /\ p[1] = "uq" => p[2] \notin IndexNames(db)
  /\ p[1] = "fk" => p[4] \in Tables(db) \cup {t}
  /\ \A x \in ConstraintsOf(db, t) : x[2] # p[2]

Ok(o, db) ==
  CASE o.op = "create" -> /\ o.t \notin Tables(db)
                          /\ \A p \in o.parts : PartOk(db, o.t, o.c, p)
    [] o.op = "drop" -> /\ o.t \in Tables(db)
                        /\ \A x \in db.objs : x[1] = "fk" /\ x[5] = o.t => x[3] = o.t
    [] o.op = "rename" -> o.t \in Tables(db) /\ o.u \notin Tables(db)
    [] o.op = "add_columns" -> o.t \in Tables(db) /\ o.c \cap ColumnsOf(db, o.t) = {}
    [] o.op \in {"drop_columns", "touch", "fix", "set_not_null", "to_json", "to_jsonb"} ->
         o.c \subseteq ColumnsOf(db, o.t)
    [] o.op = "read_jsonb" -> {o.t} \X o.c \subseteq db.cols \ db.json
    [] o.op = "rename_column" -> o.c \in ColumnsOf(db, o.t) /\ o.d \notin ColumnsOf(db, o.t)
    [] o.op = "index" -> o.n \notin IndexNames(db) /\ o.c \subseteq ColumnsOf(db, o.t)
    [] o.op = "index_if" -> o.c \subseteq ColumnsOf(db, o.t)
    [] o.op = "drop_index" -> \E x \in db.objs : IsIndex(x) /\ x[2] = o.n
    [] o.op = "rename_index" -> o.n \in IndexNames(db) /\ o.m \notin IndexNames(db)
    [] o.op = "add" -> PartOk(db, o.t, ColumnsOf(db, o.t), o.part)
    [] o.op \in {"drop_constraint", "rename_constraint"} ->
         \E x \in ConstraintsOf(db, o.t) : x[2] = o.n
    [] o.op = "drop_fks_on" -> o.c \in ColumnsOf(db, o.t)
    [] o.op = "comment" -> o.ts \subseteq Tables(db)
    [] o.op = "drop_cascade" \/ o.op = "drop_index_if" -> TRUE
    [] o.op = "refuse" -> FALSE

\* A dropped column takes with it every index and constraint built on it.
DropColumn(db, t, c) ==
  [cols |-> db.cols \ ({t} \X c), json |-> db.json \ ({t} \X c),
   objs |-> {x \in db.objs : ~(x[3] = t /\ x[4] \cap c # {})}]
DropTable(db, t) ==
  [cols |-> {x \in db.cols : x[1] # t}, json |-> {x \in db.json : x[1] # t},
   objs |-> {x \in db.objs : x[3] # t /\ ~(x[1] = "fk" /\ x[5] = t)}]
\* A rename keeps the names of the table's indexes and constraints.
RenameTable(db, t, u) ==
  LET to(s) == IF s = t THEN u ELSE s IN
  [cols |-> {<<to(x[1]), x[2]>> : x \in db.cols},
   json |-> {<<to(x[1]), x[2]>> : x \in db.json},
   objs |-> {<<x[1], x[2], to(x[3]), x[4], to(x[5])>> : x \in db.objs}]
Recolumn(db, t, c, d) ==
  LET to(s) == IF s = c THEN d ELSE s
      moved(rel) == {IF x[1] = t THEN <<t, to(x[2])>> ELSE x : x \in rel} IN
  [cols |-> moved(db.cols), json |-> moved(db.json),
   objs |-> {IF x[3] = t THEN [x EXCEPT ![4] = {to(s) : s \in x[4]}] ELSE x : x \in db.objs}]
AddObjs(db, s) == [db EXCEPT !.objs = @ \cup s]
DropObjs(db, S) == [db EXCEPT !.objs = @ \ S]
RenameObjs(db, S, m) == [db EXCEPT !.objs = (@ \ S) \cup {[x EXCEPT ![2] = m] : x \in S}]

Apply(o, db) ==
  CASE o.op = "create" -> [db EXCEPT !.cols = @ \cup ({o.t} \X o.c),
                                     !.objs = @ \cup {On(o.t, p) : p \in o.parts}]
    [] o.op \in {"drop", "drop_cascade"} -> DropTable(db, o.t)
    [] o.op = "rename" -> RenameTable(db, o.t, o.u)
    [] o.op = "add_columns" -> [db EXCEPT !.cols = @ \cup ({o.t} \X o.c)]
    [] o.op = "to_json" -> [db EXCEPT !.json = @ \cup ({o.t} \X o.c)]
    [] o.op = "to_jsonb" -> [db EXCEPT !.json = @ \ ({o.t} \X o.c)]
    [] o.op = "drop_columns" -> DropColumn(db, o.t, o.c)
    [] o.op = "rename_column" -> Recolumn(db, o.t, o.c, o.d)
    [] o.op = "index" -> AddObjs(db, {<<o.kind, o.n, o.t, o.c, "">>})
    [] o.op = "index_if" -> IF o.n \in IndexNames(db) THEN db
                            ELSE AddObjs(db, {<<"ix", o.n, o.t, o.c, "">>})
    [] o.op \in {"drop_index", "drop_index_if"} ->
         DropObjs(db, {x \in db.objs : IsIndex(x) /\ x[2] = o.n})
    [] o.op = "rename_index" -> RenameObjs(db, {x \in db.objs : NamesAnIndex(x) /\ x[2] = o.n}, o.m)
    [] o.op = "add" -> AddObjs(db, {On(o.t, o.part)})
    [] o.op = "drop_constraint" ->
         DropObjs(db, {x \in db.objs : ~IsIndex(x) /\ x[3] = o.t /\ x[2] = o.n})
    [] o.op = "drop_fks_on" ->
         DropObjs(db, {x \in db.objs : x[1] = "fk" /\ x[3] = o.t /\ o.c \in x[4]})
    [] o.op = "rename_constraint" ->
         RenameObjs(db, {x \in db.objs : ~IsIndex(x) /\ x[3] = o.t /\ x[2] = o.n}, o.m)
    [] OTHER -> db

\* The data an operation needs of the rows already there: <<kind, table, columns>>.
Demand(o) ==
  CASE o.op = "set_not_null" -> {<<"nn", o.t, o.c>>}
    [] o.op = "index" -> IF o.kind = "ux" THEN {<<"uq", o.t, o.c>>} ELSE {}
    [] o.op = "add" -> IF o.part[1] \in {"uq", "fk"} THEN {<<o.part[1], o.t, o.part[3]>>} ELSE {}
    [] OTHER -> {}

\* A demand is met when the transaction made it hold, or holds on fewer columns.
Met(d, clean) == \E k \in clean : k[1] = d[1] /\ k[2] = d[2] /\ k[3] \subseteq d[3]

\* What o leaves known of the rows: a new column is all NULL, and the rows a dropped
\* unique index or constraint guarded still satisfy it.
Cleans(o, db, clean) ==
  CASE o.op = "fix" -> clean \cup {<<o.k, o.t, o.c>>}
    [] o.op = "add_columns" -> clean \cup {<<k, o.t, {c}>> : k \in {"uq", "fk"}, c \in o.c}
    [] o.op = "rename" -> {IF k[2] = o.t THEN <<k[1], o.u, k[3]>> ELSE k : k \in clean}
    [] o.op \in {"drop_index", "drop_index_if", "drop_constraint"} ->
         clean \cup {<<"uq", x[3], x[4]>> : x \in {y \in db.objs : y[2] = o.n /\ y[1] \in {"ux", "uq"}}}
    [] OTHER -> clean
==============================================================================
