------------------------------- MODULE Database -------------------------------
(***************************************************************************)
(* database: a connection to SQLite, its transactions and the columns it   *)
(* binds and reads.  begin_transaction opens a savepoint; ending it        *)
(* releases the savepoint, or rolls back to it, which keeps it open.       *)
(* Objects of class transaction nest like the scopes they live in.         *)
(***************************************************************************)
EXTENDS Integers, Sequences, SequencesExt

CONSTANTS
    Width,          \* bits of an integer column (64 in the code)
    MaxWrites,      \* bound: rows inserted
    MaxNest,        \* bound: savepoints open at once
    MaxCrashes      \* bound: crashes

\* The two facts about the powers hold for every such width; the provers know nothing of ^.
ASSUME WidthAssumption ==
    Width \in Nat \ {0} /\ 2 ^ (Width - 1) \in Nat \ {0} /\ 2 ^ Width = 2 * 2 ^ (Width - 1)

VARIABLES
    table,          \* the rows the connection sees
    onDisk,         \* the rows that survive a crash
    savepoints,     \* the table as it was at each open savepoint
    scopes,         \* the rows written in each transaction that is not over
    committed, undone, \* the rows of the outermost transactions that ended either way
    plain,          \* the rows inserted outside transactions
    written, crashes, rollbacks

dbVars == <<table, onDisk, savepoints, scopes, committed, undone, plain, written, crashes,
            rollbacks>>

DatabaseInit ==
    /\ table = {} /\ onDisk = {} /\ savepoints = <<>> /\ scopes = <<>>
    /\ committed = {} /\ undone = {} /\ plain = {}
    /\ written = 0 /\ crashes = 0 /\ rollbacks = 0

\* prepared_statement::execute: an INSERT, inside the open savepoints or committed at once; one
\* that throws changes nothing.
execute ==
    /\ written < MaxWrites /\ written' = written + 1
    /\ table' = table \cup {written'}
    /\ onDisk' = IF savepoints = <<>> THEN table' ELSE onDisk
    /\ IF scopes = <<>> THEN plain' = plain \cup {written'} /\ scopes' = scopes
       ELSE plain' = plain /\ scopes' = [scopes EXCEPT ![Len(scopes)] = @ \cup {written'}]
    /\ UNCHANGED <<savepoints, committed, undone, crashes, rollbacks>>

begin_transaction ==
    /\ Len(savepoints) < MaxNest
    /\ savepoints' = Append(savepoints, table) /\ scopes' = Append(scopes, {})
    /\ UNCHANGED <<table, onDisk, committed, undone, plain, written, crashes, rollbacks>>

\* RELEASE SAVEPOINT: the innermost one goes, and the last of them commits.
release == savepoints' = Front(savepoints) /\ onDisk' = IF Len(savepoints) = 1 THEN table ELSE onDisk

\* The destructor of transaction: no exception passes through it.
Commit ==
    /\ scopes # <<>>
    /\ release
    /\ LET rest == Front(scopes) wrote == Last(scopes)
       IN  IF rest = <<>> THEN scopes' = rest /\ committed' = committed \cup {wrote}
           ELSE /\ scopes' = [rest EXCEPT ![Len(rest)] = @ \cup wrote]
                /\ committed' = committed
    /\ UNCHANGED <<table, undone, plain, written, crashes, rollbacks>>

rollback_Release ==
    savepoints' = Front(savepoints) /\ table' = table /\ onDisk' = onDisk

\* ROLLBACK TO SAVEPOINT: the table is as at the savepoint, which stays open.
rollback == savepoints' = savepoints /\ table' = Last(savepoints) /\ onDisk' = onDisk

Rollback ==
    /\ scopes # <<>>
    /\ rollback
    /\ scopes' = Front(scopes) /\ undone' = undone \cup Last(scopes) /\ rollbacks' = rollbacks + 1
    /\ UNCHANGED <<committed, plain, written, crashes>>

\* The process dies, or closes the connection, and opens the file again.
Crash ==
    /\ crashes < MaxCrashes /\ crashes' = crashes + 1
    /\ table' = onDisk /\ savepoints' = <<>> /\ scopes' = <<>>
    /\ undone' = undone \cup UNION Range(scopes)
    /\ UNCHANGED <<onDisk, committed, plain, written, rollbacks>>

DatabaseNext == execute \/ begin_transaction \/ Commit \/ Rollback \/ Crash

-----------------------------------------------------------------------------
Signed(x) == IF x < 2 ^ (Width - 1) THEN x ELSE x - 2 ^ Width
Wrap(x) == Signed(((x % 2 ^ Width) + 2 ^ Width) % 2 ^ Width)

\* bind of an unsigned integer: the column holds it shifted into the signed range.
bind_uint64(v) == Wrap(v - 2 ^ (Width - 1))
\* value of an unsigned column, back again.
value_uint64(sv) == (sv + 2 ^ (Width - 1)) % 2 ^ Width
\* bind and value of a time point, in ticks of a tenth of a second.
bind_time(v) == v \div 10
value_time(sv) == sv * 10

\* Transactions are atomic: what ended by a rollback, or was open at a crash, is never on disk,
\* and what was committed is there whole or not at all.  The table is without what was rolled
\* back, and the disk has all that was committed or inserted outside a transaction, only while
\* no savepoint is left over: every savepoint has the same name, so after a rollback the next
\* end of a transaction ends the wrong one.  The columns keep the order of unsigned integers and
\* give them back, and a time to the second.
TransactionsAtomic ==
    /\ undone \cap onDisk = {}
    /\ \A r \in committed : r \subseteq onDisk \/ r \cap onDisk = {}
    /\ rollbacks <= 1 => undone \cap table = {}
    /\ rollbacks = 0 => plain \subseteq onDisk /\ \A r \in committed : r \subseteq onDisk
    /\ written = 1 /\ crashes = 0 => \A u, v \in 0 .. 2 ^ Width - 1 :
          /\ value_uint64(bind_uint64(v)) = v
          /\ u < v <=> bind_uint64(u) < bind_uint64(v)
          /\ value_time(bind_time(v)) \in v - 9 .. v
=============================================================================
