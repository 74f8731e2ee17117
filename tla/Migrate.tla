------------------------------- MODULE Migrate -------------------------------
(***************************************************************************)
(* migrate.Apply, which every server runs before it serves, beside the     *)
(* `make migrate' of the README, which feeds the same scripts to mysql.    *)
(*                                                                         *)
(* The statements of all *.up.sql files are numbered in the order of the   *)
(* file names; ScriptOf[k] is the file of statement k.  Every statement is *)
(* its own transaction.  Each of them (CREATE TABLE, CREATE INDEX, INSERT  *)
(* with given keys) fails when its effect is already there.  Nothing keeps *)
(* several processes from migrating at once.                               *)
(***************************************************************************)
EXTENDS Integers

CONSTANTS
    Servers,    \* processes that call Apply and then serve
    Hands,      \* runs of `make migrate': no table of applied files
    Total,      \* number of statements
    ScriptOf,   \* statement -> number of its file
    MaxStarts,  \* bound: how often a process is started
    MaxFaults   \* bound: how often one is interrupted

Stmts == 1..Total
Processes == Servers \cup Hands

ASSUME MigrateAssumption ==
    /\ Total \in Nat \ {0}
    /\ ScriptOf \in [Stmts -> Nat]
    /\ \A j, k \in Stmts : j <= k => ScriptOf[j] <= ScriptOf[k]
    /\ Servers \cap Hands = {}
    /\ MaxStarts \in Nat
    /\ MaxFaults \in Nat

Files == {ScriptOf[k] : k \in Stmts}

VARIABLES
    done,       \* statements whose effect is in the database
    recorded,   \* rows of schema_migrations
    pc,         \* next step of a process
    at,         \* the statement it executes next, or has executed last
    applied,    \* what loadApplied has returned to it
    starts,     \* bound: starts so far
    faults      \* history: interruptions so far

vars == <<done, recorded, pc, at, applied, starts, faults>>

Init ==
    /\ done = {}
    /\ recorded = {}
    /\ pc = [p \in Processes |-> "down"]
    /\ at = [p \in Processes |-> 1]
    /\ applied = [p \in Processes |-> {}]
    /\ starts = 0
    /\ faults = 0

LastOfScript(k) == k = Total \/ ScriptOf[k + 1] # ScriptOf[k]

Goto(p, l) == pc' = [pc EXCEPT ![p] = l]

\* Mistake: the file names are not sorted.
AnyUnapplied(j, k, files) == j > k /\ ScriptOf[j] \notin files

\* j is the first statement after k of a file that the loop does not skip.
NextUnapplied(j, k, files) ==
    /\ j > k /\ ScriptOf[j] \notin files
    /\ \A i \in Stmts : i > k /\ ScriptOf[i] \notin files => j <= i

\* The loop of Apply goes on after statement k; behind its end run serves.
GoOn(p, k, files) ==
    \/ /\ \A i \in Stmts : i > k => ScriptOf[i] \in files
       /\ Goto(p, "serving")
       /\ UNCHANGED at
    \/ \E j \in Stmts :
       /\ NextUnapplied(j, k, files)
       /\ Goto(p, "exec")
       /\ at' = [at EXCEPT ![p] = j]

-----------------------------------------------------------------------------
\* A server or `make migrate' is started, again if it has ended.
Start(p) ==
    /\ pc[p] \in {"down", "failed"}
    /\ starts < MaxStarts
    /\ starts' = starts + 1
    /\ Goto(p, IF p \in Hands THEN "exec" ELSE "ensure")
    /\ at' = [at EXCEPT ![p] = 1]
    /\ applied' = [applied EXCEPT ![p] = {}]
    /\ UNCHANGED <<done, recorded, faults>>

\* ensureTrackingTable, which does nothing if the table is there.
Ensure(p) ==
    /\ pc[p] = "ensure"
    /\ Goto(p, "load")
    /\ UNCHANGED <<done, recorded, at, applied, starts, faults>>

\* Mistake: what has been recorded is not read.
LoadNothing(p) ==
    /\ pc[p] = "load"
    /\ applied' = [applied EXCEPT ![p] = {}]
    /\ GoOn(p, 0, {})
    /\ UNCHANGED <<done, recorded, starts, faults>>

\* listMigrationFiles and loadApplied.
Load(p) ==
    /\ pc[p] = "load"
    /\ applied' = [applied EXCEPT ![p] = recorded]
    /\ GoOn(p, 0, recorded)
    /\ UNCHANGED <<done, recorded, starts, faults>>

\* Mistake: the script is not split, and only its first statement is executed.
ExecOnlyFirst(p) ==
    /\ pc[p] = "exec"
    /\ at[p] \notin done
    /\ done' = done \cup {at[p]}
    /\ Goto(p, "record")
    /\ UNCHANGED <<recorded, at, applied, starts, faults>>

\* One statement of execScript.  make migrate does not record what it has done.
Exec(p) ==
    /\ pc[p] = "exec"
    /\ at[p] \notin done
    /\ done' = done \cup {at[p]}
    /\ IF p \in Servers /\ LastOfScript(at[p])
       THEN Goto(p, "record") /\ UNCHANGED at
       ELSE IF at[p] = Total
            THEN Goto(p, "done") /\ UNCHANGED at
            ELSE at' = [at EXCEPT ![p] = @ + 1] /\ UNCHANGED pc
    /\ UNCHANGED <<recorded, applied, starts, faults>>

\* Mistake: as if every statement said IF NOT EXISTS.
ExistsIgnored(p) ==
    /\ pc[p] = "exec"
    /\ at[p] \in done
    /\ IF LastOfScript(at[p])
       THEN Goto(p, "record") /\ UNCHANGED at
       ELSE at' = [at EXCEPT ![p] = @ + 1] /\ UNCHANGED pc
    /\ UNCHANGED <<done, recorded, applied, starts, faults>>

\* The effect is already there: Apply returns the error and the server ends,
\* mysql and make likewise.
ExecFails(p) ==
    /\ pc[p] = "exec"
    /\ at[p] \in done
    /\ Goto(p, "failed")
    /\ UNCHANGED <<done, recorded, at, applied, starts, faults>>

\* Mistake: return instead of going on with the next file.
RecordReturns(p) ==
    /\ pc[p] = "record"
    /\ recorded' = recorded \cup {ScriptOf[at[p]]}
    /\ Goto(p, "serving")
    /\ UNCHANGED <<done, at, applied, starts, faults>>

\* INSERT INTO schema_migrations.  A second row for the file would be an error.
Record(p) ==
    /\ pc[p] = "record"
    /\ recorded' = recorded \cup {ScriptOf[at[p]]}
    /\ IF ScriptOf[at[p]] \in recorded
       THEN Goto(p, "failed") /\ UNCHANGED at
       ELSE GoOn(p, at[p], applied[p])
    /\ UNCHANGED <<done, applied, starts, faults>>

\* The process dies, its 60 seconds are over, its connection is lost, a file or
\* a table cannot be read.  What it had sent has had its effect (the step was
\* taken) or not (it was not).
Interrupt(p) ==
    /\ pc[p] \in {"ensure", "load", "exec", "record"}
    /\ faults < MaxFaults
    /\ faults' = faults + 1
    /\ Goto(p, "failed")
    /\ UNCHANGED <<done, recorded, at, applied, starts>>

\* SIGTERM, SIGINT or the death of a server that serves.
Stop(p) ==
    /\ pc[p] = "serving"
    /\ Goto(p, "down")
    /\ UNCHANGED <<done, recorded, at, applied, starts, faults>>

Step(p) == Ensure(p) \/ Load(p) \/ Exec(p) \/ ExecFails(p) \/ Record(p)

Next == \E p \in Processes : Step(p) \/ Start(p) \/ Interrupt(p) \/ Stop(p)

Spec == Init /\ [][Next]_vars

\* A process that has been started runs until it serves, ends or is interrupted.
FairSpec == Spec /\ \A p \in Processes : WF_vars(Step(p))

-----------------------------------------------------------------------------
(* Properties. *)

\* Every variable stays in its range.
TypeOK ==
    /\ done \subseteq Stmts
    /\ recorded \subseteq Files
    /\ pc \in [Processes ->
               {"down", "ensure", "load", "exec", "record", "serving", "done", "failed"}]
    /\ at \in [Processes -> Stmts]
    /\ applied \in [Processes -> SUBSET Files]
    /\ starts \in Nat
    /\ faults \in Nat

\* schema_migrations never names a file of which a statement is missing, and
\* what has been executed is a beginning of all scripts: no statement overtakes
\* one of an earlier file that it may refer to, whoever executed that.
RecordedAreWhole ==
    /\ \A k \in Stmts : ScriptOf[k] \in recorded => k \in done
    /\ \A j, k \in Stmts : j <= k /\ k \in done => j \in done

\* Although nothing serialises the starts, a server that serves has the whole
\* schema, all of it recorded, so that its next start has nothing to do.
ServesWholeSchema ==
    \A p \in Servers : pc[p] = "serving" => done = Stmts /\ recorded = Files

\* A process has executed part of a script it has not finished.
InScript(p) ==
    \/ pc[p] = "record"
    \/ /\ pc[p] = "exec"
       /\ at[p] > 1
       /\ p \in Servers => ScriptOf[at[p] - 1] = ScriptOf[at[p]]

\* A script has been begun, is not recorded, and nobody goes on with it.
Abandoned ==
    /\ \E k \in done : ScriptOf[k] \notin recorded
    /\ \A p \in Processes : ~InScript(p)

\* However many servers start at the same time, the collisions that make some
\* of them fail never stop all: a script is abandoned only by an interruption,
\* or because make migrate executed it.
CollisionsHarmless ==
    Abandoned => faults > 0 \/ \E p \in Hands : pc[p] = "done"

\* A script once abandoned is neither taken up nor passed over: no later start
\* changes the schema or serves, however often it is tried.
AbandonedForGood ==
    [][Abandoned => /\ Abandoned'
                    /\ done' = done
                    /\ \A p \in Servers : pc'[p] # "serving"]_vars

\* Unless somebody is interrupted or migrates by hand, servers that have been
\* started lead to one that serves.
SomebodyServes ==
    (\E p \in Servers : pc[p] = "ensure") ~>
        \/ \E p \in Servers : pc[p] = "serving"
        \/ faults > 0
        \/ \E p \in Hands : pc[p] # "down"
=============================================================================
