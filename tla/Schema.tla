-------------------------------- MODULE Schema --------------------------------
(***************************************************************************)
(* How a start of the panel brings a database of any age to its models:    *)
(* create_all makes the tables that are missing, then the migrations run   *)
(* in the order of Migrations, each in a transaction.  A statement that    *)
(* fails leaves a transaction of PostgreSQL in which every other statement *)
(* fails too and whose commit undoes it, also where the code goes on after *)
(* the error.  What the migrations do to roles is in Startup.              *)
(***************************************************************************)
EXTENDS Migrations

CONSTANT MaxEvents     \* bound: failing statements, stops, and changes by users

VARIABLES
    db,       \* what is committed: columns, values of old rows, choices lost
    tx,       \* the same as the open transaction has it
    at,       \* the migration and the statement of a start; <<0, 1>>: stopped
    failed,   \* a statement of this start failed
    events

vars == <<db, tx, at, failed, events>>

Stopped == <<0, 1>>

Init ==
    /\ \E cols \in {{}, InitSql} \union {Release(n) : n \in 0..Len(Order)}
                   \union {Release(n) \ {<<"installed_apps", "snapshot_version">>} : n \in 0..Len(Order)} :
          db = [cols |-> cols,
                vals |-> [x \in Data |-> IF Column[x] \notin cols THEN "none"
                                         ELSE IF x = "icon" THEN "empty" ELSE "own"],
                lost |-> {}]
    /\ tx = [now |-> db, added |-> {}, aborted |-> FALSE]
    /\ at = Stopped
    /\ failed = FALSE /\ events = 0

-----------------------------------------------------------------------------
Serving == at[1] = Len(Order) + 1
Running == at[1] \in 1..Len(Order)
Current == Order[at[1]][at[2]]
Fresh(d) == [now |-> d, added |-> {}, aborted |-> FALSE]
NextMigration(d) == at' = <<at[1] + 1, 1>> /\ db' = d /\ tx' = Fresh(d)

\* A table of create_all has all columns, and no rows to fill.
Start ==
    /\ at = Stopped
    /\ LET d == [db EXCEPT !.cols = @ \union UNION {Whole(t) : t \in {t \in Tables : ~Exists(db, t)}},
                           !.vals = [x \in Data |-> IF Exists(db, Column[x][1]) THEN @[x] ELSE "own"]]
       IN  db' = d /\ tx' = Fresh(d)
    /\ at' = <<1, 1>> /\ failed' = FALSE
    /\ UNCHANGED events

Filled(d, x) ==
    IF d.vals[x] \in Matched(x)
    THEN [d EXCEPT !.vals[x] = "filled",
                   !.lost = IF d.vals[x] = "empty" THEN @ ELSE @ \union {<<x, d.vals[x]>>}]
    ELSE d

Added(d, st) ==
    LET pair == <<st.t, st.c>>
    IN  [d EXCEPT !.cols = @ \union {pair},
                  !.vals = [x \in Data |-> IF Column[x] = pair THEN "empty" ELSE @[x]]]

\* The next statement, or none more of this migration.
Goes == at' = <<at[1], at[2] + 1>>
Leaves == at' = <<at[1], Len(Order[at[1]]) + 1>>

Works(st) ==
    /\ ~tx.aborted
    /\ \/ /\ st.kind \in {"only if", "unless"}
          /\ IF (<<st.t, st.c>> \in tx.now.cols) = (st.kind = "only if") THEN Goes ELSE Leaves
          /\ UNCHANGED tx
       \/ /\ st.kind \in {"create", "add"}
          /\ Goes
          /\ IF <<st.t, st.c>> \in tx.now.cols THEN UNCHANGED tx
             ELSE tx' = [tx EXCEPT !.now = Added(@, st), !.added = @ \union {<<st.t, st.c>>}]
       \/ /\ st.kind = "fill" \/ (st.kind = "fill added" /\ Column[st.c] \in tx.added)
          /\ Goes /\ tx' = [tx EXCEPT !.now = Filled(@, st.c)]
       \/ /\ st.kind = "fill" /\ MayLeave(st.c)
          /\ Goes /\ UNCHANGED tx
       \/ /\ st.kind = "fill added" /\ Column[st.c] \notin tx.added
          /\ Goes /\ UNCHANGED tx
       \/ st.kind = "other" /\ Goes /\ UNCHANGED tx

More == Running /\ at[2] <= Len(Order[at[1]])

\* Mutant: every statement is committed for itself.
MutRun == More /\ Works(Current) /\ db' = tx'.now /\ UNCHANGED <<failed, events>>
Run == More /\ Works(Current) /\ UNCHANGED <<db, failed, events>>

\* A statement fails: swallowed, or the migration is rolled back.
Fails ==
    /\ More
    /\ \/ tx.aborted /\ UNCHANGED events
       \/ ~tx.aborted /\ events < MaxEvents /\ events' = events + 1
    /\ failed' = TRUE
    /\ IF Current.tried THEN Goes /\ tx' = [tx EXCEPT !.aborted = TRUE] /\ UNCHANGED db
                        ELSE NextMigration(db)

Commit ==
    /\ Running /\ ~More
    /\ NextMigration(IF tx.aborted THEN db ELSE tx.now)
    /\ UNCHANGED <<failed, events>>

\* The process ends, a start of it too; what is not committed is undone.
Stop ==
    /\ at # Stopped /\ events < MaxEvents
    /\ at' = Stopped /\ tx' = Fresh(db) /\ events' = events + 1
    /\ UNCHANGED <<db, failed>>

\* A user chooses: an icon, no workspace for a network, an address beside the
\* first of its guest, an owner or none.
Choose(x, v) ==
    /\ Serving /\ Column[x] \in db.cols
    /\ v = "cleared" => MayLeave(x)
    /\ events < MaxEvents /\ events' = events + 1
    /\ db' = [db EXCEPT !.vals[x] = v]
    /\ tx' = Fresh(db')
    /\ UNCHANGED <<at, failed>>

Next ==
    \/ Start \/ Run \/ Fails \/ Commit \/ Stop
    \/ \E x \in Data, v \in {"own", "cleared"} : Choose(x, v)

Spec == Init /\ [][Next]_vars

-----------------------------------------------------------------------------
TypeOK ==
    /\ db.cols \subseteq Models /\ tx.now.cols \subseteq Models /\ tx.added \subseteq Models
    /\ db.vals \in [Data -> {"none", "empty", "filled", "own", "cleared"}]
    /\ at[1] \in 0..(Len(Order) + 1) /\ at[2] \in Nat
    /\ failed \in BOOLEAN /\ events \in 0..MaxEvents

\* A start none of whose statements failed serves on a database that has every
\* column of the models, whatever release or failed start left it.
SchemaComplete == Serving /\ ~failed => db.cols = Models

\* Wherever a start ends or is ended, a column that was added has its values
\* in the old rows.
BackfillWithColumn == \A x \in {"source", "primary"} : db.vals[x] # "empty"

\* A start writes over nothing that was chosen since, but for an icon, and for
\* the choice to have no workspace or no owner.
ChoicesStand == db.lost \subseteq {<<"icon", "own">>, <<"workspace", "cleared">>, <<"owner", "cleared">>}
=============================================================================
