---------------------------- MODULE ReplicaHealth ----------------------------
(***************************************************************************)
(* dbx.ReplicaHealth and dbx.ReplicaState: a goroutine asks the Replica    *)
(* for its replication status at every tick and, after TripAfter checks in *)
(* a row that went badly, sets the flag that DBRouter and the degrade      *)
(* package read.  Asking and judging are two steps: the Replica may have   *)
(* changed by the time the answer is judged.                               *)
(***************************************************************************)
EXTENDS Integers, Sequences

CONSTANTS
    TripAfter,  \* bad checks in a row that trip the flag (tripAfterN, 3)
    MaxStarts   \* bound: times the server is started

ASSUME HealthAssumption == TripAfter \in Nat \ {0} /\ MaxStarts \in Nat \ {0}

\* What SHOW REPLICA STATUS would tell: both threads run, and the lag is small,
\* NULL or over the threshold; a thread stands still; connections fail; or they
\* hang, and no answer comes at all.  With no Replica configured its DSN is the
\* Primary's, which has no status row: that is "stopped", for good.
Conditions == {"fresh", "unknown", "late", "stopped", "unreachable", "hanging"}

VARIABLES
    replica,    \* the condition of the Replica
    answer,     \* of the last SHOW REPLICA STATUS, until evaluate judges it
    ng,         \* consecutiveNG; only ever compared, so it stops at TripAfter
    down,       \* ReplicaState.down
    starts,     \* bound: how often the server has started
    recent      \* history: the last TripAfter judgements, the latest first

health == <<replica, answer, ng, down, starts, recent>>

\* Does a query to the Replica get an answer?
Answering == replica \notin {"unreachable", "hanging"}

HealthInit ==
    /\ replica \in Conditions
    /\ Answering
    /\ answer = "none"
    /\ ng = 0
    /\ down = FALSE
    /\ starts = 1
    /\ recent = [i \in 1..TripAfter |-> "good"]

Judged(v) == recent' = [i \in 1..TripAfter |-> IF i = 1 THEN v ELSE recent[i - 1]]

\* Someone stops, starts or loads the Replica, or the network in between.
ReplicaChanges ==
    /\ replica' \in Conditions \ {replica}
    /\ UNCHANGED <<answer, ng, down, starts, recent>>

\* checkLag; a NULL lag counts as no lag.  It has no timeout: it waits as long
\* as the Replica hangs.
CheckLag ==
    /\ answer = "none"
    /\ replica # "hanging"
    /\ answer' = CASE replica \in {"fresh", "unknown"} -> "ok"
                   [] replica = "late" -> "lag"
                   [] OTHER -> "err"
    /\ UNCHANGED <<replica, ng, down, starts, recent>>

CountNG ==
    /\ ng' = IF ng < TripAfter THEN ng + 1 ELSE ng
    /\ down' = (down \/ ng + 1 >= TripAfter)
    /\ answer' = "none"
    /\ Judged("bad")
    /\ UNCHANGED <<replica, starts>>

\* Mistake: only a measured lag counts, a failing check is left at a log line.
EvaluateErrorLogged ==
    /\ answer = "err"
    /\ answer' = "none"
    /\ UNCHANGED <<replica, ng, down, starts, recent>>

\* evaluate, the branch of an error of checkLag.
EvaluateError == answer = "err" /\ CountNG

\* evaluate, the branch of a lag over tripAt.
EvaluateLag == answer = "lag" /\ CountNG

\* Mistake: the counter survives a good check.
EvaluateOkKeepsCount ==
    /\ answer = "ok"
    /\ down' = FALSE
    /\ answer' = "none"
    /\ Judged("good")
    /\ UNCHANGED <<replica, ng, starts>>

\* Mistake: a tripped flag waits for someone to reset it by hand.
EvaluateOkStaysDown ==
    /\ answer = "ok"
    /\ ng' = 0
    /\ answer' = "none"
    /\ Judged("good")
    /\ UNCHANGED <<replica, down, starts>>

\* evaluate, the rest: a single good check resets counter and flag.
EvaluateOk ==
    /\ answer = "ok"
    /\ ng' = 0
    /\ down' = FALSE
    /\ answer' = "none"
    /\ Judged("good")
    /\ UNCHANGED <<replica, starts>>

\* The server starts again; openDB does not let it without an answering
\* Replica.  The flag and the counter begin anew.
Restart ==
    /\ starts < MaxStarts
    /\ Answering
    /\ starts' = starts + 1
    /\ ng' = 0
    /\ down' = FALSE
    /\ answer' = "none"
    /\ recent' = [i \in 1..TripAfter |-> "good"]
    /\ UNCHANGED replica

Evaluate == EvaluateError \/ EvaluateLag \/ EvaluateOk

HealthNext == ReplicaChanges \/ CheckLag \/ Evaluate \/ Restart

HealthSpec == HealthInit /\ [][HealthNext]_health

\* The ticker ticks, SHOW REPLICA STATUS returns unless the Replica hangs, and
\* the goroutine goes on.
HealthFairness == WF_health(CheckLag) /\ WF_health(Evaluate)
-----------------------------------------------------------------------------
(* Properties. *)

HealthTypeOK ==
    /\ replica \in Conditions
    /\ answer \in {"none", "ok", "lag", "err"}
    /\ ng \in 0..TripAfter
    /\ down \in BOOLEAN
    /\ starts \in 1..MaxStarts
    /\ recent \in [1..TripAfter -> {"good", "bad"}]

\* The counter is the run of bad judgements that has led up to now.
CountsRun ==
    /\ \A i \in 1..ng : recent[i] = "bad"
    /\ ng < TripAfter => recent[ng + 1] = "good"

\* The router avoids the Replica exactly while the last TripAfter checks have
\* all gone badly: neither scattered bad checks, before or after a good one or
\* a restart, nor a bad answer that comes late ever trip the flag, and nothing
\* but a good check (or a restart) resets it.
DownIffRunOfBad == down <=> \A i \in 1..TripAfter : recent[i] = "bad"

Sick == replica \in {"late", "stopped", "unreachable"}

\* A Replica that stays behind, stopped or out of reach is avoided for good.  One
\* that hangs is not: evaluate waits for it, and the flag stays as it was.
SickReplicaAvoided == <>[]Sick => <>[]down

Well == replica \in {"fresh", "unknown"}

\* A Replica that is well again, after hanging too, is used again, for good.
WellReplicaUsed == <>[]Well => <>[]~down
=============================================================================
