----------------------------- MODULE SqlConsole -----------------------------
(***************************************************************************)
(* The SQL console page (internal/web console.go) and `duckstore sql`: a   *)
(* script is typed, split, and run one statement after the other until one *)
(* fails.  The page runs it on a DuckDB connection of its own, and logs    *)
(* what it ran; or each statement in a read-only transaction of Postgres   *)
(* with a time limit, and there the log is what the tracer of the pool saw *)
(* go to the server; the command uses whatever connection its pool gives.  *)
(*                                                                         *)
(* What a statement returns, whether it fails, and whether it changes a    *)
(* setting of its session, is arbitrary (both databases: external).        *)
(***************************************************************************)
EXTENDS SqlSplit

CONSTANTS
  Keys,         \* what one keystroke types: sequences of characters
  MaxRows,      \* rows that are kept: consoleMaxRows, -max
  MaxTyped, MaxPosted, MaxFetched    \* bounds: keystrokes, those of a script that is run, rows

ASSUME SqlConsoleAssumption ==
  Keys \subseteq Seq(STRING) /\ {MaxRows, MaxTyped, MaxPosted, MaxFetched} \subseteq Nat \ {0}

VARIABLES
  script, typed,
  page,      \* "typing", what runs the script, or how that ended
  out,       \* the results so far
  log,       \* queryLog.entries of the request
  roTx,      \* the read-only transaction of a statement, how far it is
  conn,      \* the settings of the connection in use
  pool       \* the settings of the idle connections of the server

consoleVars == <<script, typed, page, out, log, roTx, conn, pool>>

Settings == {"default", "changed"}
Closed == "closed"

ConsoleInit ==
  /\ script = <<>> /\ typed = 0 /\ page = "typing"
  /\ out = <<>> /\ log = <<>> /\ roTx = "none" /\ conn = Closed /\ pool = {}

Type ==
  /\ page = "typing" /\ typed < MaxTyped
  /\ \E k \in Keys : script' = script \o k
  /\ typed' = typed + 1
  /\ UNCHANGED <<page, out, log, roTx, conn, pool>>

(* console: a POST; runSQL: the command.                                   *)
Submit ==
  /\ page = "typing" /\ typed <= MaxPosted
  /\ \E to \in {"connect", "postgres", "command"} : page' = to
  /\ UNCHANGED <<script, typed, out, log, roTx, conn, pool>>

(* consoleDuckDB: db.Conn takes an idle connection or opens one.           *)
Connect ==
  /\ page = "connect"
  /\ \/ \E c \in pool : conn' = c /\ page' = "duckdb" /\ pool' \in {pool, pool \ {c}}
     \/ conn' = "default" /\ page' = "duckdb" /\ UNCHANGED pool
     \/ page' = "failed" /\ UNCHANGED <<conn, pool>>
  /\ UNCHANGED <<script, typed, out, log, roTx>>

-----------------------------------------------------------------------------
NoRows == [err |-> FALSE, rows |-> 0, count |-> 0, truncated |-> FALSE]

(* add; runOnConn has the same in its loop.                                *)
add_Late(res) ==
  IF res.rows > MaxRows THEN [res EXCEPT !.count = @ + 1, !.truncated = TRUE]
  ELSE [res EXCEPT !.count = @ + 1, !.rows = @ + 1]
add(res) ==
  IF res.rows >= MaxRows THEN [res EXCEPT !.count = @ + 1, !.truncated = TRUE]
  ELSE [res EXCEPT !.count = @ + 1, !.rows = @ + 1]

(* DuckDB, Postgres: the rows, or an error.                                *)
Fetched[n \in 0..MaxFetched] == IF n = 0 THEN NoRows ELSE add(Fetched[n - 1])
Failed == [NoRows EXCEPT !.err = TRUE]
Outcomes == {Fetched[n] : n \in 0..MaxFetched} \cup {Failed}

HasFailed_Never == FALSE
HasFailed == out # <<>> /\ Last(out).res.err
Left == ~HasFailed /\ Len(out) < Len(Split(script))
Current == Split(script)[Len(out) + 1].sql

Shows(res) == out' = Append(out, [sql |-> Current, res |-> res])
Logs_OnSuccess(sql, err) == log' = IF err THEN log ELSE Append(log, [sql |-> sql, err |-> err])
Logs(sql, err) == log' = Append(log, [sql |-> sql, err |-> err])

(* A statement on DuckDB is logged before the page looks at its error; the *)
(* command logs nothing, and its connections are not the server's.         *)
Execute ==
  /\ page \in {"duckdb", "command"} /\ Left
  /\ \E res \in Outcomes :
       /\ Shows(res)
       /\ IF page = "duckdb" THEN Logs(Current, res.err) ELSE UNCHANGED log
       /\ conn' \in IF page = "duckdb" /\ ~res.err THEN {conn, "changed"} ELSE {conn}
  /\ UNCHANGED <<script, typed, page, roTx, pool>>

(* PostgresReadOnly: three statements to the server, each traced if it got *)
(* there; the page shows any error as the one of the visitor's statement.  *)
Traced(sql, err) == Logs(sql, err)

ReadOnly  == <<"begin read only">>
TimeLimit == <<"set local statement_timeout">>

BeginReadOnly ==
  /\ page = "postgres" /\ Left /\ roTx = "none"
  /\ \/ Traced(ReadOnly, FALSE) /\ roTx' = "begun" /\ UNCHANGED out
     \/ Traced(ReadOnly, TRUE) /\ Shows(Failed) /\ UNCHANGED roTx
     \/ Shows(Failed) /\ UNCHANGED <<log, roTx>>          \* no connection
  /\ UNCHANGED <<script, typed, page, conn, pool>>

SetTimeLimit_Unchecked ==
  /\ page = "postgres" /\ roTx = "begun"
  /\ roTx' = "limited" /\ \E err \in BOOLEAN : Traced(TimeLimit, err)
  /\ UNCHANGED <<script, typed, page, out, conn, pool>>
SetTimeLimit ==
  /\ page = "postgres" /\ roTx = "begun"
  /\ \/ Traced(TimeLimit, FALSE) /\ roTx' = "limited" /\ UNCHANGED out
     \/ Traced(TimeLimit, TRUE) /\ roTx' = "none" /\ Shows(Failed)
  /\ UNCHANGED <<script, typed, page, conn, pool>>

(* The statement, and the deferred Rollback, which is not traced: whatever *)
(* the statement set is undone with the transaction.                       *)
QueryReadOnly ==
  /\ page = "postgres" /\ roTx = "limited"
  /\ roTx' = "none" /\ \E res \in Outcomes : Traced(Current, res.err) /\ Shows(res)
  /\ UNCHANGED <<script, typed, page, conn, pool>>

(* driver.ErrBadConn: the pool does not take the connection back.          *)
Discards_Not == pool' = IF conn = Closed THEN pool ELSE pool \cup {conn}
Discards == pool' = pool

EndScript ==
  /\ page \in {"duckdb", "postgres", "command"} /\ ~Left
  /\ page' = CASE page = "duckdb" -> "shown" [] page = "postgres" -> "shown read-only"
               [] OTHER -> "printed"
  /\ conn' = Closed /\ Discards
  /\ UNCHANGED <<script, typed, out, log, roTx>>

(* Another page queries the warehouse on a connection of the pool (duck),  *)
(* and gives it back.                                                      *)
Dashboard ==
  /\ pool' = pool \cup {"default"}
  /\ page \in {"duckdb", "shown"} /\ pool' # pool
  /\ UNCHANGED <<script, typed, page, out, log, roTx, conn>>

ConsoleNext ==
  \/ Type \/ Submit \/ Connect \/ Execute \/ EndScript \/ Dashboard
  \/ BeginReadOnly \/ SetTimeLimit \/ QueryReadOnly

ConsoleSpec == ConsoleInit /\ [][ConsoleNext]_consoleVars

-----------------------------------------------------------------------------
Agrees == [i \in DOMAIN Split(script) |-> Split(script)[i].sql] = StatementsOf(script)

(* Quotes, comments and dollar-quoted strings that follow or cut off each  *)
(* other in any way: a ';' inside them does not split, one outside does,   *)
(* and only pieces without code are dropped (Split's comment).  Of scripts *)
(* without a comment in a comment and without a $ in a name.               *)
SplitIsLexical == page = "typing" /\ Beyond(script) = {} => Agrees

(* "It understands quotes, comments": the same of scripts with a comment   *)
(* in a comment, if every comment is closed.  Not so: the first end of a   *)
(* comment ends it for Split, whatever comments it is in.                  *)
CommentsDoNotSplit ==
  page = "typing" /\ Beyond(script) \subseteq {"comment"} /\ IsClosed(script) => Agrees

(* A statement that was split off is one statement, with the same label:   *)
(* what the console shows can be typed again.                              *)
StatementsStayWhole ==
  page = "typing" => \A i \in DOMAIN Split(script) : Split(Split(script)[i].sql) = <<Split(script)[i]>>

(* Together: Split takes a script apart where the SQL reader would.        *)
SplitIsSound == SplitIsLexical /\ StatementsStayWhole

(* The statements ran in the order of the script, up to the first that     *)
(* failed (the loops of consoleDuckDB, consolePostgres and runSQL).        *)
RunsInOrder ==
  LET done == [i \in DOMAIN out |-> out[i].sql]
      all == [i \in DOMAIN Split(script) |-> Split(script)[i].sql]
  IN  /\ IsPrefix(done, all)
      /\ \A i \in DOMAIN out : out[i].res.err => i = Len(out)
      /\ page \in {"shown", "shown read-only", "printed"} => done = all \/ Last(out).res.err

EntryOf(result) == [sql |-> result.sql, err |-> result.res.err]

(* The page's SQL log has each statement DuckDB was given, the one that    *)
(* failed too.                                                             *)
LogsWhatRan == page \in {"duckdb", "shown"} => log = [i \in DOMAIN out |-> EntryOf(out[i])]

(* What a visitor typed reaches Postgres only inside a transaction that    *)
(* was begun READ ONLY and got its time limit, without an error from       *)
(* either: in the log each statement follows its own pair of these.  Only  *)
(* the last entry may have failed, and a statement the page shows failed   *)
(* without an entry of its own was never sent.                             *)
Stage == CASE roTx = "none" -> 0 [] roTx = "begun" -> 1 [] OTHER -> 2
SentReadOnly ==
  page \in {"postgres", "shown read-only"} =>
    /\ \A i \in 1..(Len(out) + 1) :
         /\ 3 * i - 2 \in DOMAIN log => log[3 * i - 2].sql = ReadOnly
         /\ 3 * i - 1 \in DOMAIN log => log[3 * i - 1].sql = TimeLimit
         /\ 3 * i \in DOMAIN log => i <= Len(out) /\ log[3 * i] = EntryOf(out[i])
    /\ \A k \in DOMAIN log : log[k].err => k = Len(log) /\ HasFailed
    /\ ~HasFailed => Len(log) = 3 * Len(out) + Stage
    /\ HasFailed => \/ Len(log) = 3 * Len(out) - 3
                    \/ Len(log) \in (3 * Len(out) - 2)..(3 * Len(out)) /\ Last(log).err

(* A result says it was cut exactly when rows are missing.                 *)
ResultsAreHonest ==
  \A i \in DOMAIN out : LET res == out[i].res IN
    res.rows <= MaxRows /\ (res.truncated <=> res.rows < res.count)

(* Together: the page shows what the database was asked, and what it said. *)
PageIsHonest == RunsInOrder /\ LogsWhatRan /\ SentReadOnly /\ ResultsAreHonest

(* "so they never leak into the pool that the dashboard uses": after any   *)
(* script the idle connections have the settings they were opened with.    *)
PoolIsClean == pool \subseteq {"default"}

-----------------------------------------------------------------------------
(* Together with what a page has before a script runs: the inductive       *)
(* invariant of the console.                                               *)
Result    == [err : BOOLEAN, rows : Nat, count : Nat, truncated : BOOLEAN]
Statement == [sql : Seq(STRING), labelled : BOOLEAN]
Sent      == Seq(STRING) \cup {ReadOnly, TimeLimit}

ConsoleInv ==
  /\ script \in Seq(STRING) /\ typed \in 0..MaxTyped
  /\ page \in {"typing", "connect", "failed", "duckdb", "postgres", "command", "shown",
              "shown read-only", "printed"}
  /\ out \in Seq([sql : Seq(STRING), res : Result])
  /\ log \in Seq([sql : Sent, err : BOOLEAN])
  /\ roTx \in {"none", "begun", "limited"} /\ (roTx # "none" => page = "postgres" /\ Left)
  /\ conn \in Settings \cup {Closed} /\ (conn # Closed <=> page = "duckdb")
  /\ page \in {"typing", "connect", "failed"} => out = <<>> /\ log = <<>>
  /\ \A i \in DOMAIN out : out[i].res.rows <= out[i].res.count
  /\ PageIsHonest /\ PoolIsClean
=============================================================================
