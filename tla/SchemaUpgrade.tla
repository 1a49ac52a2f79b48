---------------------------- MODULE SchemaUpgrade ----------------------------
(***************************************************************************)
(* Running the migrations (persistence/migrations/env.py): `alembic        *)
(* upgrade head' of a deployment and `alembic downgrade -1' by hand, each  *)
(* in ONE transaction over all its revisions, on a database that holds     *)
(* rows once it has been used.  An operation PostgreSQL refuses, rows that *)
(* do not meet what it demands, or a crash roll the transaction back.      *)
(***************************************************************************)
EXTENDS Naturals, SchemaMigrations

S == INSTANCE SequencesExt

CONSTANT Heads  \* the revisions the deployed images have as their head

VARIABLES
  rev,        \* alembic_version.version_num, "base" when there is none
  schema,     \* the committed schema
  populated,  \* has the program written rows yet?
  tx          \* the running transaction, or None

vars == <<rev, schema, populated, tx>>

\* alembic_version.version_num is VARCHAR(32).
VersionWidth == 32

After(r) == CHOOSE m \in Versions : m.down_revision = r
At(r) == CHOOSE m \in Versions : m.revision = r
Chain[n \in 0..Cardinality(Versions)] == IF n = 0 THEN "base" ELSE After(Chain[n - 1]).revision
Rank == [r \in {m.revision : m \in Versions} \cup {"base"} |->
           CHOOSE n \in DOMAIN Chain : Chain[n] = r]
HeadRevision == Chain[Cardinality(Versions)]
ASSUME HeadsAssumption == Heads \subseteq {m.revision : m \in Versions}

None == [dir |-> "none"]
Begin(dir, target) == [dir |-> dir, target |-> target, at |-> rev, pc |-> 1,
                       db |-> schema, clean |-> {}]

\* The revision in progress, its operations, and the revision it ends in.
Current == IF tx.dir = "up" THEN After(tx.at) ELSE At(tx.at)
Ops == IF tx.dir = "up" THEN Current.upgrade ELSE Current.downgrade
Reached == IF tx.dir = "up" THEN Current.revision ELSE Current.down_revision
Running == tx.dir # "none" /\ tx.at # tx.target
Pending == Running /\ tx.pc <= Len(Ops)
Op == Ops[tx.pc]
\* Rows already there may fail what the operation demands of them.
RowsMayFail == populated /\ \E d \in Demand(Op) : ~Met(d, tx.clean)

Init == /\ rev = "base" /\ schema = Empty /\ populated = FALSE /\ tx = None

\* alembic upgrade head, run by a deployment of an image with a later head.
Upgrade(h) ==
  /\ tx = None /\ Rank[rev] < Rank[h]
  /\ tx' = Begin("up", h)
  /\ UNCHANGED <<rev, schema, populated>>

\* alembic downgrade -1.
Downgrade ==
  /\ tx = None /\ rev # "base"
  /\ tx' = Begin("down", At(rev).down_revision)
  /\ UNCHANGED <<rev, schema, populated>>

\* One operation of upgrade() or downgrade().
Execute ==
  /\ Pending /\ Ok(Op, tx.db)
  /\ tx' = [tx EXCEPT !.pc = @ + 1, !.db = Apply(Op, @), !.clean = Cleans(Op, tx.db, @)]
  /\ UNCHANGED <<rev, schema, populated>>

\* The script ends: its revision is written to alembic_version.
Stamp ==
  /\ Running /\ tx.pc > Len(Ops) /\ Len(Reached) <= VersionWidth
  /\ tx' = [tx EXCEPT !.at = Reached, !.pc = 1]
  /\ UNCHANGED <<rev, schema, populated>>

\* context.begin_transaction() exits: everything becomes visible at once.
Commit ==
  /\ tx # None /\ tx.at = tx.target
  /\ rev' = tx.at /\ schema' = tx.db /\ tx' = None
  /\ UNCHANGED populated

\* The operation (or the stamp) raises; alembic exits and the transaction rolls back.
Raise ==
  /\ \/ Pending /\ (~Ok(Op, tx.db) \/ RowsMayFail)
     \/ Running /\ tx.pc > Len(Ops) /\ Len(Reached) > VersionWidth
  /\ tx' = None
  /\ UNCHANGED <<rev, schema, populated>>

\* Fault: each operation is committed as it is executed.
CrashPartial ==
  /\ tx # None
  /\ tx' = None /\ schema' = tx.db
  /\ UNCHANGED <<rev, populated>>

\* The migration container or the database stops.
Crash ==
  /\ tx # None
  /\ tx' = None
  /\ UNCHANGED <<rev, schema, populated>>

\* The program runs on the migrated database and writes rows.
Serve ==
  /\ tx = None /\ rev # "base" /\ ~populated
  /\ populated' = TRUE
  /\ UNCHANGED <<rev, schema, tx>>

Next ==
  \/ \E h \in Heads : Upgrade(h)
  \/ Downgrade \/ Execute \/ Stamp \/ Commit \/ Raise \/ Crash \/ Serve

Spec == Init /\ [][Next]_vars

----------------------------------------------------------------------------
\* What the upgrades alone build, revision by revision.
Run(ops, db) == S!FoldLeft(LAMBDA d, o : Apply(o, d), db, ops)
Built[n \in 0..Cardinality(Versions)] ==
  IF n = 0 THEN Empty
  ELSE CHOOSE d \in {Run(After(Chain[n - 1]).upgrade, b) : b \in {Built[n - 1]}} : TRUE
SchemaAt == [r \in DOMAIN Rank |-> Built[Rank[r]]]

\* The revisions form one chain: every file is reached from base.
ASSUME OneChain == {Chain[n] : n \in DOMAIN Chain} = DOMAIN Rank

\* The payload 014 creates as jsonb and 025_theme3's downgrade creates again as json.
PayloadIsJson == <<"execution_audit_log", "payload">> \in tx.db.json

\* Upgrades meet only schemas they can be applied to: whichever images were deployed,
\* whatever was downgraded and upgraded again in between, every operation of every
\* upgrade() finds the tables, columns, indexes and constraints it names (with the
\* names older tables gave them before they were renamed) and every revision id fits
\* alembic_version.  There is one exception, the COALESCE(payload, '{}'::jsonb) of
\* 025_theme3_trade_order on the json column its own downgrade left.
UpgradeStuckOnlyByPayload ==
  tx.dir = "up" => /\ Pending => Ok(Op, tx.db) \/ (Op.op = "read_jsonb" /\ PayloadIsJson)
                   /\ Running => Len(Reached) <= VersionWidth

\* Without the exception: downgraded to 024_theme4_app_config once, the database can
\* not be upgraded again.
UpgradeNeverStuck ==
  tx.dir = "up" => /\ Pending => Ok(Op, tx.db)
                   /\ Running => Len(Reached) <= VersionWidth

\* alembic_version tells the truth about the columns: every downgrade restores the tables
\* and columns the chain of upgrades builds for the revision it stamps, also after failed,
\* crashed and repeated migrations (each is one transaction).
StampTruthful == schema.cols = SchemaAt[rev].cols

\* The uniqueness and reference guarantees of a schema, whatever their names.
Guarantees(objs) == {<<IF x[1] = "ux" THEN "uq" ELSE x[1], x[3], x[4], x[5]>> :
                       x \in {y \in objs : y[1] \in {"ux", "uq", "fk"}}}

\* From 025_theme3_trade_order on, a downgrade also restores every unique key and foreign
\* key of the revision it returns to: the older code's ON CONFLICT targets and references
\* are there again.  (A partial unique index counts as a key on its columns.)
KeysSurviveDowngrade ==
  Rank[rev] >= Rank["025_theme3_trade_order"] =>
    Guarantees(schema.objs) = Guarantees(SchemaAt[rev].objs)

\* The migrated database is the one the ORM is written for: the same tables and columns as
\* models.py, and every unique key and foreign key it declares.
HeadMatchesModels ==
  rev = HeadRevision =>
    /\ schema.cols = UNION {{m.t} \X m.c : m \in Models}
    /\ Guarantees(UNION {{On(m.t, p) : p \in m.parts} : m \in Models})
         \subseteq Guarantees(schema.objs)
==============================================================================
