------------------------------- MODULE Migrate -------------------------------
(***************************************************************************)
(* The start of queue-server (cmd/server/main.go) up to the point where it *)
(* serves: WaitForDB and Migrate of internal/database/database.go, run by  *)
(* several server processes on one database, any of which may be killed at *)
(* any point.  The ledger is read outside the transaction that applies a   *)
(* migration, so two servers may both find it missing.                     *)
(***************************************************************************)
EXTENDS Integers, Sequences

CONSTANTS
  Server,
  Migrations,   \* how many files are embedded; in filename order 1, 2, ...
  MaxFailures   \* bound: kills and database errors

VARIABLES
  ledger,    \* schema_migrations, as committed
  schema,    \* the bodies whose effect is committed, in that order
  pc,        \* where each server is
  next,      \* the migration each server looks at
  failures   \* kills and database errors so far

mvars == <<ledger, schema, pc, next, failures>>

ASSUME MigrateAssumption == Migrations \in Nat /\ MaxFailures \in Nat

MInit ==
  /\ ledger = {}
  /\ schema = <<>>
  /\ pc = [s \in Server |-> "down"]
  /\ next = [s \in Server |-> 1]
  /\ failures = 0

BootWhenKilled(s) ==
  /\ pc[s] = "down"
  /\ pc' = [pc EXCEPT ![s] = "check"]
  /\ next' = [next EXCEPT ![s] = 1]
  /\ UNCHANGED <<ledger, schema, failures>>

(* The process starts and reaches the database. *)
Boot(s) ==
  /\ pc[s] \in {"down", "rejected"}
  /\ pc' = [pc EXCEPT ![s] = "check"]
  /\ next' = [next EXCEPT ![s] = 1]
  /\ UNCHANGED <<ledger, schema, failures>>

CheckPastTheEnd(s) ==
  /\ pc[s] = "check"
  /\ IF next[s] \in ledger
     THEN next' = [next EXCEPT ![s] = @ + 1] /\ UNCHANGED pc
     ELSE pc' = [pc EXCEPT ![s] = "apply"] /\ UNCHANGED next
  /\ UNCHANGED <<ledger, schema, failures>>

(* SELECT EXISTS ... outside any transaction. *)
Check(s) ==
  /\ pc[s] = "check" /\ next[s] <= Migrations
  /\ IF next[s] \in ledger
     THEN next' = [next EXCEPT ![s] = @ + 1] /\ UNCHANGED pc
     ELSE pc' = [pc EXCEPT ![s] = "apply"] /\ UNCHANGED next
  /\ UNCHANGED <<ledger, schema, failures>>

(* The body runs in a transaction of its own.  The same DDL in another     *)
(* open transaction makes it wait on the catalog.                          *)
Apply(s) ==
  /\ pc[s] = "apply"
  /\ \A t \in Server \ {s} : ~(pc[t] = "record" /\ next[t] = next[s])
  /\ pc' = [pc EXCEPT ![s] = "record"]
  /\ UNCHANGED <<ledger, schema, next, failures>>

RecordAnyway(s) ==
  /\ pc[s] = "record"
  /\ ledger' = ledger \cup {next[s]}
  /\ schema' = Append(schema, next[s])
  /\ next' = [next EXCEPT ![s] = @ + 1]
  /\ pc' = [pc EXCEPT ![s] = "check"]
  /\ UNCHANGED failures

(* INSERT and COMMIT.  The primary key of the ledger refuses a version     *)
(* that is already there: the transaction is rolled back, Migrate returns  *)
(* the error and the process exits.                                        *)
Record(s) ==
  /\ pc[s] = "record"
  /\ IF next[s] \in ledger
     THEN /\ pc' = [pc EXCEPT ![s] = "rejected"]
          /\ UNCHANGED <<ledger, schema, next>>
     ELSE /\ ledger' = ledger \cup {next[s]}
          /\ schema' = Append(schema, next[s])
          /\ next' = [next EXCEPT ![s] = @ + 1]
          /\ pc' = [pc EXCEPT ![s] = "check"]
  /\ UNCHANGED failures

ServeEarly(s) ==
  /\ pc[s] = "check" /\ next[s] >= Migrations
  /\ pc' = [pc EXCEPT ![s] = "serving"]
  /\ UNCHANGED <<ledger, schema, next, failures>>

(* Migrate has returned without an error. *)
Serve(s) ==
  /\ pc[s] = "check" /\ next[s] > Migrations
  /\ pc' = [pc EXCEPT ![s] = "serving"]
  /\ UNCHANGED <<ledger, schema, next, failures>>

(* A kill or a database error at any point; an open transaction is rolled  *)
(* back.                                                                   *)
Exit(s) ==
  /\ pc[s] # "down" /\ failures < MaxFailures
  /\ pc' = [pc EXCEPT ![s] = "down"]
  /\ failures' = failures + 1
  /\ UNCHANGED <<ledger, schema, next>>

Step(s) == Boot(s) \/ Check(s) \/ Apply(s) \/ Record(s) \/ Serve(s)

MNext == \E s \in Server : Step(s) \/ Exit(s)

(* A server process runs its code and is restarted when it exits. *)
MSpec == MInit /\ [][MNext]_mvars /\ \A s \in Server : WF_mvars(Step(s))
------------------------------------------------------------------------------
(* The statuses a server can be in, and the bounds of its loop. *)
MTypeOK ==
  /\ ledger \subseteq 1..Migrations
  /\ pc \in [Server -> {"down", "check", "apply", "record", "serving", "rejected"}]
  /\ next \in [Server -> 1..(Migrations + 1)]
  /\ failures \in 0..MaxFailures

(* Migrations take effect once each and in filename order, and the ledger  *)
(* names exactly the ones that did, although several servers check the     *)
(* ledger before either applies anything and may be killed in between.     *)
SchemaInOrder ==
  /\ Len(schema) <= Migrations
  /\ \A i \in 1..Len(schema) : schema[i] = i
  /\ ledger = 1..Len(schema)

(* No server serves requests on a schema that is not complete. *)
ServesOnFullSchema ==
  \A s \in Server : pc[s] = "serving" => Len(schema) = Migrations

(* Every server comes up in the end: no two of them reject or wait for     *)
(* each other for ever.                                                    *)
EveryServerServes == \A s \in Server : <>[](pc[s] = "serving")
=============================================================================
