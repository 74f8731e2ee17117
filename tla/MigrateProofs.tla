---------------------------- MODULE MigrateProofs ----------------------------
(***************************************************************************)
(* Proofs about Migrate: type correctness, that recorded scripts are whole *)
(* and executed in order, that a server serves only with the whole schema, *)
(* that collisions of starts are harmless, and that an abandoned script    *)
(* stays abandoned.                                                        *)
(*                                                                         *)
(* The argument: at any time at most one process is inside a script, and   *)
(* it is the one at the frontier of what has been executed.  Whoever       *)
(* executes a statement with success is at the frontier, and when that is  *)
(* the first of a script, nobody else can be inside one, because all       *)
(* earlier scripts have been recorded.                                     *)
(***************************************************************************)
EXTENDS Migrate, TLAPS

USE MigrateAssumption

LEMMA TypeStep == ASSUME TypeOK, [Next]_vars PROVE TypeOK'
<1>g. ASSUME NEW p \in Processes, NEW k, NEW files, GoOn(p, k, files)
      PROVE  pc' \in [Processes -> {"down", "ensure", "load", "exec",
                                    "record", "serving", "done", "failed"}]
             /\ at' \in [Processes -> Stmts]
  BY <1>g DEF TypeOK, GoOn, Goto
<1>1. ASSUME NEW p \in Processes, Start(p) PROVE TypeOK'
  BY <1>1 DEF Start, Goto, TypeOK, Stmts
<1>2. ASSUME NEW p \in Processes, Ensure(p) PROVE TypeOK'
  BY <1>2 DEF Ensure, Goto, TypeOK
<1>3. ASSUME NEW p \in Processes, Load(p) PROVE TypeOK'
  BY <1>3, <1>g DEF Load, TypeOK
<1>4. ASSUME NEW p \in Processes, Exec(p) PROVE TypeOK'
  <2>1. at[p] \in Stmts /\ done' = done \cup {at[p]}
    BY <1>4 DEF Exec, TypeOK
  <2>2. at[p] # Total => at[p] + 1 \in Stmts
    BY <2>1 DEF Stmts
  <2>3. /\ pc' = pc \/ pc' = [pc EXCEPT ![p] = "record"]
           \/ pc' = [pc EXCEPT ![p] = "done"]
        /\ at' = at \/ (at[p] # Total /\ at' = [at EXCEPT ![p] = at[p] + 1])
        /\ UNCHANGED <<recorded, applied, starts, faults>>
    BY <1>4 DEF Exec, Goto
  <2>4. pc' \in [Processes -> {"down", "ensure", "load", "exec", "record",
                               "serving", "done", "failed"}]
    BY <2>3 DEF TypeOK
  <2>5. at' \in [Processes -> Stmts]
    BY <2>2, <2>3 DEF TypeOK
  <2> QED BY <2>1, <2>3, <2>4, <2>5 DEF TypeOK
<1>5. ASSUME NEW p \in Processes, ExecFails(p) PROVE TypeOK'
  BY <1>5 DEF ExecFails, Goto, TypeOK
<1>6. ASSUME NEW p \in Processes, Record(p) PROVE TypeOK'
  <2>1. recorded' \subseteq Files
    BY <1>6 DEF Record, TypeOK, Files
  <2>2. CASE ScriptOf[at[p]] \in recorded
    BY <2>1, <2>2, <1>6 DEF Record, Goto, TypeOK
  <2>3. CASE ScriptOf[at[p]] \notin recorded
    BY <2>1, <2>3, <1>6, <1>g DEF Record, TypeOK
  <2> QED BY <2>2, <2>3
<1>7. ASSUME NEW p \in Processes, Interrupt(p) PROVE TypeOK'
  BY <1>7 DEF Interrupt, Goto, TypeOK
<1>8. ASSUME NEW p \in Processes, Stop(p) PROVE TypeOK'
  BY <1>8 DEF Stop, Goto, TypeOK
<1>9. CASE UNCHANGED vars
  BY <1>9 DEF vars, TypeOK
<1> QED BY <1>1, <1>2, <1>3, <1>4, <1>5, <1>6, <1>7, <1>8, <1>9 DEF Next, Step

\* Every variable stays in its range, for every sequence of scripts.
THEOREM TypeCorrect == Spec => []TypeOK
<1>1. Init => TypeOK
  BY DEF Init, TypeOK, Stmts, Files
<1>2. TypeOK /\ [Next]_vars => TypeOK'
  BY TypeStep
<1> QED BY <1>1, <1>2, PTL DEF Spec

-----------------------------------------------------------------------------
\* What a process knows: the statements in front of it have been executed; a
\* server has found or left all earlier scripts recorded.
Behind(p) ==
    /\ pc[p] = "exec" => \A j \in Stmts : j < at[p] => j \in done
    /\ pc[p] \in {"exec", "record"} /\ p \in Servers =>
        \A j \in Stmts : j < at[p] =>
            ScriptOf[j] = ScriptOf[at[p]] \/ ScriptOf[j] \in recorded

\* A process inside a script is at the frontier, and its script is unrecorded.
AtFrontier(p) ==
    InScript(p) =>
        /\ pc[p] = "exec" => at[p] \notin done
        /\ pc[p] = "record" =>
            /\ p \in Servers
            /\ at[p] \in done
            /\ LastOfScript(at[p])
            /\ \A j \in Stmts : j > at[p] => j \notin done
        /\ p \in Servers => ScriptOf[at[p]] \notin recorded
        /\ p \in Hands => recorded = {}

OneInScript ==
    \A p, q \in Processes : InScript(p) /\ InScript(q) => p = q

\* make migrate knows no table of applied files.
HandsPlain == \A p \in Hands : pc[p] \in {"down", "exec", "done", "failed"}

MInv ==
    /\ TypeOK
    /\ RecordedAreWhole
    /\ \A p \in Processes : Behind(p) /\ AtFrontier(p)
    /\ \A p \in Servers : applied[p] \subseteq recorded
    /\ OneInScript
    /\ ServesWholeSchema
    /\ HandsPlain

-----------------------------------------------------------------------------
\* Files are numbered in the order of their statements.
LEMMA LastAbove ==
    ASSUME NEW k \in Stmts, LastOfScript(k), NEW j \in Stmts, j > k
    PROVE  ScriptOf[j] # ScriptOf[k]
<1>1. k + 1 \in Stmts /\ k + 1 <= j /\ k # Total
  BY DEF Stmts
<1>2. ScriptOf[k + 1] # ScriptOf[k]
  BY <1>1 DEF LastOfScript
<1>3. /\ ScriptOf[k] <= ScriptOf[k + 1] /\ ScriptOf[k + 1] <= ScriptOf[j]
      /\ ScriptOf[k] \in Nat /\ ScriptOf[k + 1] \in Nat /\ ScriptOf[j] \in Nat
  BY <1>1 DEF Stmts
<1> QED BY <1>2, <1>3

\* The first statement of a script has no earlier one of the same script.
LEMMA FirstBelow ==
    ASSUME NEW k \in Stmts, k > 1, ScriptOf[k - 1] # ScriptOf[k],
           NEW j \in Stmts, j < k
    PROVE  ScriptOf[j] # ScriptOf[k]
<1>1. k - 1 \in Stmts /\ j <= k - 1
  BY DEF Stmts
<1>2. /\ ScriptOf[j] <= ScriptOf[k - 1] /\ ScriptOf[k - 1] <= ScriptOf[k]
      /\ ScriptOf[j] \in Nat /\ ScriptOf[k - 1] \in Nat /\ ScriptOf[k] \in Nat
  BY <1>1 DEF Stmts
<1> QED BY <1>2

\* With nothing executed nothing is recorded.
LEMMA NothingRecorded ==
    ASSUME TypeOK, RecordedAreWhole, 1 \notin done
    PROVE  recorded = {} /\ done = {}
<1>1. \A k \in Stmts : 1 \in Stmts /\ 1 <= k
  BY DEF Stmts
<1>2. done = {}
  BY <1>1 DEF TypeOK, RecordedAreWhole
<1> QED BY <1>2 DEF TypeOK, RecordedAreWhole, Files

\* Whoever executes a statement with success is the only one in a script.
LEMMA ExecAlone ==
    ASSUME MInv, NEW p \in Processes, Exec(p), NEW q \in Processes, InScript(q)
    PROVE  q = p
<1> USE DEF MInv
<1> DEFINE k == at[p]
<1>1. /\ k \in Stmts /\ at[q] \in Stmts /\ pc[p] = "exec" /\ k \notin done
      /\ k \in Int /\ at[q] \in Int
  BY DEF TypeOK, Exec, Stmts
<1>2. \A j \in Stmts : j < k => j \in done
  BY <1>1 DEF Behind
<1> SUFFICES ASSUME ~InScript(p) PROVE FALSE
  BY DEF OneInScript
<1>3. k = 1 \/ /\ p \in Servers /\ k > 1
               /\ ScriptOf[k - 1] # ScriptOf[k]
  BY <1>1 DEF InScript, Stmts
<1>4. CASE pc[q] = "exec"
  <2>1. at[q] > 1 /\ at[q] \notin done
    BY <1>4 DEF InScript, AtFrontier
  <2>2. \A j \in Stmts : j < at[q] => j \in done
    BY <1>4 DEF Behind
  <2>3. at[q] = k
    BY <2>1, <2>2, <1>1, <1>2
  <2>4. p \in Servers /\ k > 1 /\ ScriptOf[k - 1] # ScriptOf[k]
    BY <2>1, <2>3, <1>3
  <2>5. q \in Hands
    BY <1>4, <2>3, <2>4 DEF InScript, Processes
  <2>6. recorded = {}
    BY <2>5 DEF AtFrontier
  <2>7. k - 1 \in Stmts /\ k - 1 < k
    BY <2>4, <1>1 DEF Stmts
  <2>8. ScriptOf[k - 1] \in recorded
    BY <2>4, <2>7, <1>1 DEF Behind
  <2> QED BY <2>6, <2>8
<1>5. CASE pc[q] = "record"
  <2>1. /\ at[q] \in done /\ q \in Servers /\ LastOfScript(at[q])
        /\ \A j \in Stmts : j > at[q] => j \notin done
        /\ ScriptOf[at[q]] \notin recorded
    BY <1>5 DEF InScript, AtFrontier
  <2>2. at[q] < k
    BY <2>1, <1>1 DEF RecordedAreWhole
  <2>3. p \in Servers /\ k > 1 /\ ScriptOf[k - 1] # ScriptOf[k]
    BY <2>2, <1>1, <1>3 DEF Stmts
  <2>4. ScriptOf[at[q]] # ScriptOf[k]
    BY <2>2, <2>3, <1>1, FirstBelow
  <2>5. ScriptOf[at[q]] \in recorded
    BY <2>2, <2>3, <2>4, <1>1 DEF Behind
  <2> QED BY <2>1, <2>5
<1> QED BY <1>4, <1>5 DEF InScript

-----------------------------------------------------------------------------
\* Where the loop of Apply goes on, the process is outside every script, with
\* all earlier scripts recorded; where it ends, all scripts are.
LEMMA GoOnStep ==
    ASSUME TypeOK, TypeOK', RecordedAreWhole',
           NEW p \in Servers, NEW k \in Nat, NEW files, files \subseteq recorded',
           GoOn(p, k, files),
           k = 0 \/ (k \in Stmts /\ LastOfScript(k)),
           \A j \in Stmts : j <= k => ScriptOf[j] \in recorded'
    PROVE  /\ ~InScript(p)'
           /\ Behind(p)'
           /\ pc'[p] = "serving" => done' = Stmts /\ recorded' = Files
<1> p \in Processes
  BY DEF Processes
<1>1. CASE /\ \A i \in Stmts : i > k => ScriptOf[i] \in files
           /\ Goto(p, "serving")
  <2>1. pc'[p] = "serving"
    BY <1>1 DEF Goto, TypeOK
  <2>2. \A j \in Stmts : ScriptOf[j] \in recorded'
    BY <1>1 DEF Stmts
  <2>3. recorded' = Files
    BY <2>2 DEF TypeOK, Files
  <2>4. done' = Stmts
    BY <2>2 DEF RecordedAreWhole, TypeOK
  <2> QED BY <2>1, <2>3, <2>4 DEF InScript, Behind
<1>2. ASSUME NEW j \in Stmts, NextUnapplied(j, k, files), Goto(p, "exec"),
             at' = [at EXCEPT ![p] = j]
      PROVE  /\ ~InScript(p)'
             /\ Behind(p)'
             /\ pc'[p] # "serving"
  <2>1. pc'[p] = "exec" /\ at'[p] = j
    BY <1>2 DEF Goto, TypeOK
  <2>2. j > k /\ ScriptOf[j] \notin files /\ j \in Int
    BY <1>2 DEF NextUnapplied, Stmts
  <2>3. ASSUME NEW i \in Stmts, i < j PROVE ScriptOf[i] \in recorded'
    <3>1. i <= k \/ i > k
      BY DEF Stmts
    <3>2. ASSUME i > k PROVE ScriptOf[i] \in files
      <4>1. ScriptOf[i] \notin files => j <= i
        BY <3>2, <1>2 DEF NextUnapplied
      <4> QED BY <4>1, <2>3 DEF Stmts
    <3> QED BY <3>1, <3>2
  <2>4. Behind(p)'
    BY <2>1, <2>3 DEF Behind, RecordedAreWhole
  <2>5. ASSUME j > 1 PROVE ScriptOf[j - 1] # ScriptOf[j]
    <3>1. j - 1 \in Stmts /\ j - 1 < j /\ j - 1 >= k
      BY <2>5, <2>2 DEF Stmts
    <3>2. CASE j - 1 = k
      <4>1. k \in Stmts /\ LastOfScript(k)
        BY <3>1, <3>2 DEF Stmts
      <4>2. ScriptOf[j] # ScriptOf[k]
        BY <4>1, <2>2, LastAbove
      <4> QED BY <4>2, <3>2
    <3>3. CASE j - 1 > k
      <4>1. ScriptOf[j - 1] \notin files => j <= j - 1
        BY <3>1, <3>3, <1>2 DEF NextUnapplied
      <4>2. ScriptOf[j - 1] \in files
        BY <4>1, <2>2
      <4> QED BY <4>2, <2>2
    <3>4. j - 1 = k \/ j - 1 > k
      BY <3>1, <2>2
    <3> QED BY <3>2, <3>3, <3>4
  <2>6. ~InScript(p)'
    BY <2>1, <2>5 DEF InScript
  <2> QED BY <2>1, <2>4, <2>6
<1> QED BY <1>1, <1>2 DEF GoOn

\* Other processes than the one that takes the step keep what they know when
\* nothing is taken back.
LEMMA OthersKeep ==
    ASSUME MInv, done \subseteq done', recorded \subseteq recorded',
           NEW q \in Processes, pc'[q] = pc[q], at'[q] = at[q]
    PROVE  /\ Behind(q)'
           /\ InScript(q)' <=> InScript(q)
BY DEF MInv, Behind, InScript

\* Steps that leave the database alone and end outside every script.
LEMMA QuietStep ==
    ASSUME MInv, TypeOK', NEW p \in Processes,
           done' = done, recorded' = recorded,
           \A q \in Processes : q # p =>
                pc'[q] = pc[q] /\ at'[q] = at[q] /\ applied'[q] = applied[q],
           ~InScript(p)', Behind(p)',
           p \in Servers => applied'[p] \subseteq recorded,
           pc'[p] = "serving" => done = Stmts /\ recorded = Files,
           p \in Hands => pc'[p] \in {"down", "exec", "done", "failed"}
    PROVE  MInv'
<1> USE DEF MInv
<1>1. RecordedAreWhole'
  BY DEF RecordedAreWhole
<1>2. ASSUME NEW q \in Processes PROVE Behind(q)' /\ AtFrontier(q)'
  <2>1. CASE q = p
    BY <2>1 DEF AtFrontier
  <2>2. CASE q # p
    <3>1. AtFrontier(q)'
      BY <2>2 DEF AtFrontier, InScript
    <3> QED BY <2>2, <3>1, OthersKeep
  <2> QED BY <2>1, <2>2
<1>3. \A q \in Servers : applied'[q] \subseteq recorded'
  BY DEF Processes
<1>4. OneInScript'
  <2>1. \A q \in Processes : InScript(q)' => q # p /\ InScript(q)
    BY DEF InScript
  <2> QED BY <2>1 DEF OneInScript
<1>5. ServesWholeSchema'
  BY DEF ServesWholeSchema, Processes
<1>6. HandsPlain'
  BY DEF HandsPlain, Processes
<1> QED BY <1>1, <1>2, <1>3, <1>4, <1>5, <1>6

LEMMA LoadStep ==
    ASSUME MInv, TypeOK', NEW p \in Servers, Load(p)
    PROVE  MInv'
<1> USE DEF MInv
<1>1. p \in Processes /\ done' = done /\ recorded' = recorded
  BY DEF Load, Processes
<1>2. RecordedAreWhole'
  BY <1>1 DEF RecordedAreWhole
<1>3. GoOn(p, 0, recorded) /\ applied' = [applied EXCEPT ![p] = recorded]
  BY DEF Load
<1>4. \A j \in Stmts : ~(j <= 0)
  BY DEF Stmts
<1>5. /\ ~InScript(p)' /\ Behind(p)'
      /\ pc'[p] = "serving" => done' = Stmts /\ recorded' = Files
  BY <1>1, <1>2, <1>3, <1>4, GoOnStep
<1>6. \A q \in Processes : q # p =>
         pc'[q] = pc[q] /\ at'[q] = at[q] /\ applied'[q] = applied[q]
  BY <1>1, <1>3 DEF GoOn, Goto, TypeOK
<1>7. applied'[p] \subseteq recorded
  BY <1>1, <1>3 DEF TypeOK
<1>8. p \notin Hands
  OBVIOUS
<1> QED BY <1>1, <1>5, <1>6, <1>7, <1>8, QuietStep

LEMMA RecordStep ==
    ASSUME MInv, TypeOK', NEW p \in Processes, Record(p)
    PROVE  MInv'
<1> USE DEF MInv
<1> DEFINE k == at[p]
<1>1. /\ pc[p] = "record" /\ k \in Stmts /\ k \in Nat
      /\ done' = done /\ applied' = applied
      /\ recorded' = recorded \cup {ScriptOf[k]}
  BY DEF Record, TypeOK, Stmts
<1>2. InScript(p)
  BY <1>1 DEF InScript
<1>3. /\ p \in Servers /\ k \in done /\ LastOfScript(k)
      /\ ScriptOf[k] \notin recorded
  BY <1>1, <1>2 DEF AtFrontier
<1>4. GoOn(p, k, applied[p])
  BY <1>3 DEF Record
<1>5. RecordedAreWhole'
  <2>1. ASSUME NEW j \in Stmts, ScriptOf[j] = ScriptOf[k] PROVE j \in done
    <3>1. j <= k
      BY <1>1, <1>3, <2>1, LastAbove DEF Stmts
    <3> QED BY <3>1, <1>1, <1>3 DEF RecordedAreWhole
  <2> QED BY <1>1, <2>1 DEF RecordedAreWhole
<1>6. \A j \in Stmts : j <= k => ScriptOf[j] \in recorded'
  <2>1. \A j \in Stmts : j <= k => j < k \/ j = k
    BY <1>1 DEF Stmts
  <2> QED BY <1>1, <1>3, <2>1 DEF Behind
<1>7. applied[p] \subseteq recorded'
  BY <1>1, <1>3
<1>8. /\ ~InScript(p)' /\ Behind(p)'
      /\ pc'[p] = "serving" => done' = Stmts /\ recorded' = Files
  BY <1>1, <1>3, <1>4, <1>5, <1>6, <1>7, GoOnStep
<1>9. \A q \in Processes : q # p => pc'[q] = pc[q] /\ at'[q] = at[q]
  BY <1>4 DEF GoOn, Goto, TypeOK
<1>10. \A q \in Processes : ~InScript(q)'
  BY <1>1, <1>2, <1>8, <1>9, OthersKeep DEF OneInScript
<1>11. ASSUME NEW q \in Processes PROVE Behind(q)' /\ AtFrontier(q)'
  <2>1. AtFrontier(q)'
    BY <1>10 DEF AtFrontier
  <2> QED BY <2>1, <1>1, <1>8, <1>9, OthersKeep
<1>12. \A q \in Servers : applied'[q] \subseteq recorded'
  BY <1>1
<1>13. OneInScript'
  BY <1>10 DEF OneInScript
<1>14. ServesWholeSchema'
  BY <1>1, <1>8, <1>9 DEF ServesWholeSchema, Processes, Files
<1>15. HandsPlain'
  BY <1>3, <1>9 DEF HandsPlain, Processes
<1> QED BY <1>5, <1>11, <1>12, <1>13, <1>14, <1>15

LEMMA ExecStep ==
    ASSUME MInv, TypeOK', NEW p \in Processes, Exec(p)
    PROVE  MInv'
<1> USE DEF MInv
<1> DEFINE k == at[p]
<1>1. /\ pc[p] = "exec" /\ k \in Stmts /\ k \in Int /\ k \notin done
      /\ done' = done \cup {k} /\ recorded' = recorded /\ applied' = applied
  BY DEF Exec, TypeOK, Stmts
<1>2. /\ \A j \in Stmts : j < k => j \in done
      /\ \A j \in Stmts : j > k => j \notin done
      /\ \A j \in Stmts : j < k \/ j = k \/ j > k
  BY <1>1 DEF Behind, RecordedAreWhole, Stmts
<1>3. \A q \in Processes : q # p =>
         pc'[q] = pc[q] /\ at'[q] = at[q] /\ ~InScript(q)
  BY ExecAlone DEF Exec, Goto, TypeOK
<1>4. RecordedAreWhole'
  BY <1>1, <1>2 DEF RecordedAreWhole, Stmts
<1>5. ASSUME p \in Servers PROVE ScriptOf[k] \notin recorded
  BY <1>1 DEF RecordedAreWhole
<1>6. ASSUME p \in Hands PROVE recorded = {}
  <2>1. CASE k > 1
    BY <2>1, <1>1, <1>6 DEF AtFrontier, InScript, Processes
  <2>2. CASE k = 1
    BY <2>2, <1>1, NothingRecorded
  <2> QED BY <2>1, <2>2, <1>1 DEF Stmts
<1>7. /\ Behind(p)' /\ AtFrontier(p)' /\ pc'[p] # "serving"
  <2>1. CASE p \in Servers /\ LastOfScript(k)
    <3>1. pc'[p] = "record" /\ at'[p] = k
      BY <2>1 DEF Exec, Goto, TypeOK
    <3>2. Behind(p)'
      BY <3>1, <1>1 DEF Behind
    <3>3. AtFrontier(p)'
      <4>1. \A j \in Stmts : j > k => j \notin done'
        BY <1>1, <1>2
      <4>2. LastOfScript(at[p])'
        BY <2>1, <3>1 DEF LastOfScript
      <4>3. p \notin Hands
        BY <2>1
      <4> QED BY <2>1, <3>1, <4>1, <4>2, <4>3, <1>1, <1>5 DEF AtFrontier
    <3> QED BY <3>1, <3>2, <3>3
  <2>2. CASE ~(p \in Servers /\ LastOfScript(k)) /\ k = Total
    <3>1. pc'[p] = "done"
      BY <2>2 DEF Exec, Goto, TypeOK
    <3> QED BY <3>1 DEF Behind, AtFrontier, InScript
  <2>3. CASE ~(p \in Servers /\ LastOfScript(k)) /\ k # Total
    <3>1. pc'[p] = "exec" /\ at'[p] = k + 1 /\ k + 1 \in Stmts
      BY <2>3, <1>1 DEF Exec, Goto, TypeOK, Stmts
    <3>2. \A j \in Stmts : j < k + 1 => j < k \/ j = k
      BY <1>1 DEF Stmts
    <3>3. p \in Servers => ScriptOf[k + 1] = ScriptOf[k]
      BY <2>3 DEF LastOfScript
    <3>4. Behind(p)'
      BY <3>1, <3>2, <3>3, <1>1, <1>2 DEF Behind
    <3>5. k + 1 \notin done'
      BY <3>1, <1>1, <1>2
    <3>6. AtFrontier(p)'
      BY <3>1, <3>3, <3>5, <1>1, <1>5, <1>6 DEF AtFrontier
    <3> QED BY <3>1, <3>4, <3>6
  <2> QED BY <2>1, <2>2, <2>3
<1>8. \A q \in Processes : q # p => ~InScript(q)' /\ Behind(q)'
  BY <1>1, <1>3, OthersKeep
<1>9. \A q \in Processes : Behind(q)' /\ AtFrontier(q)'
  BY <1>7, <1>8 DEF AtFrontier
<1>10. OneInScript'
  BY <1>8 DEF OneInScript
<1>11. ServesWholeSchema'
  BY <1>1, <1>3, <1>7 DEF ServesWholeSchema, Processes, TypeOK
<1>12. HandsPlain'
  <2>1. p \in Hands => pc'[p] \in {"exec", "done"}
    BY <1>1 DEF Exec, Goto, TypeOK
  <2> QED BY <2>1, <1>3 DEF HandsPlain, Processes
<1> QED BY <1>1, <1>4, <1>9, <1>10, <1>11, <1>12

LEMMA MInvInit == Init => MInv
<1> SUFFICES ASSUME Init PROVE MInv
  OBVIOUS
<1>1. TypeOK
  BY DEF Init, TypeOK, Stmts, Files
<1>2. \A p \in Processes : ~InScript(p) /\ pc[p] = "down"
  BY DEF Init, InScript
<1> QED BY <1>1, <1>2 DEF Init, MInv, RecordedAreWhole, Behind, AtFrontier,
           OneInScript, ServesWholeSchema, HandsPlain, Stmts, Processes

LEMMA MInvStep == ASSUME MInv, [Next]_vars PROVE MInv'
<1>t. TypeOK'
  BY TypeStep DEF MInv
<1>1. ASSUME NEW p \in Processes, Start(p) PROVE MInv'
  <2>1. /\ done' = done /\ recorded' = recorded /\ at'[p] = 1
        /\ pc'[p] = IF p \in Hands THEN "exec" ELSE "ensure"
        /\ applied'[p] = {}
        /\ \A q \in Processes : q # p =>
             pc'[q] = pc[q] /\ at'[q] = at[q] /\ applied'[q] = applied[q]
    BY <1>1 DEF Start, Goto, MInv, TypeOK
  <2>2. ~InScript(p)' /\ Behind(p)'
    BY <2>1 DEF InScript, Behind, Stmts
  <2> QED BY <2>1, <2>2, <1>t, QuietStep
<1>2. ASSUME NEW p \in Processes, Ensure(p) PROVE MInv'
  <2>1. /\ done' = done /\ recorded' = recorded /\ pc'[p] = "load" /\ p \notin Hands
        /\ applied' = applied /\ at' = at
        /\ \A q \in Processes : q # p => pc'[q] = pc[q]
    BY <1>2 DEF Ensure, Goto, MInv, TypeOK, HandsPlain
  <2>2. ~InScript(p)' /\ Behind(p)'
    BY <2>1 DEF InScript, Behind
  <2> QED BY <2>1, <2>2, <1>t, QuietStep DEF MInv
<1>3. ASSUME NEW p \in Processes, Load(p) PROVE MInv'
  <2>1. p \in Servers
    BY <1>3 DEF Load, MInv, HandsPlain, Processes
  <2> QED BY <2>1, <1>3, <1>t, LoadStep
<1>4. ASSUME NEW p \in Processes, Exec(p) PROVE MInv'
  BY <1>4, <1>t, ExecStep
<1>5. ASSUME NEW p \in Processes, ExecFails(p) PROVE MInv'
  <2>1. /\ done' = done /\ recorded' = recorded /\ pc'[p] = "failed"
        /\ applied' = applied /\ at' = at
        /\ \A q \in Processes : q # p => pc'[q] = pc[q]
    BY <1>5 DEF ExecFails, Goto, MInv, TypeOK
  <2>2. ~InScript(p)' /\ Behind(p)'
    BY <2>1 DEF InScript, Behind
  <2> QED BY <2>1, <2>2, <1>t, QuietStep DEF MInv
<1>6. ASSUME NEW p \in Processes, Record(p) PROVE MInv'
  BY <1>6, <1>t, RecordStep
<1>7. ASSUME NEW p \in Processes, Interrupt(p) \/ Stop(p) PROVE MInv'
  <2>1. /\ done' = done /\ recorded' = recorded /\ pc'[p] \in {"failed", "down"}
        /\ applied' = applied /\ at' = at
        /\ \A q \in Processes : q # p => pc'[q] = pc[q]
    BY <1>7 DEF Interrupt, Stop, Goto, MInv, TypeOK
  <2>2. ~InScript(p)' /\ Behind(p)'
    BY <2>1 DEF InScript, Behind
  <2> QED BY <2>1, <2>2, <1>t, QuietStep DEF MInv
<1>8. CASE UNCHANGED vars
  BY <1>8, <1>t DEF vars, MInv, RecordedAreWhole, Behind, AtFrontier, InScript,
     OneInScript, ServesWholeSchema, HandsPlain
<1> QED BY <1>1, <1>2, <1>3, <1>4, <1>5, <1>6, <1>7, <1>8 DEF Next, Step

LEMMA MInvAlways == Spec => []MInv
BY MInvInit, MInvStep, PTL DEF Spec

-----------------------------------------------------------------------------
\* A recorded file is whole, and statements are executed in order, for every
\* number of servers and hands that migrate at once, interrupted anywhere.
THEOREM RecordedWhole == Spec => []RecordedAreWhole
<1>1. MInv => RecordedAreWhole
  BY DEF MInv
<1> QED BY <1>1, MInvAlways, PTL

\* A server that serves has the whole schema, and all of it is recorded.
THEOREM ServedSchemaWhole == Spec => []ServesWholeSchema
<1>1. MInv => ServesWholeSchema
  BY DEF MInv
<1> QED BY <1>1, MInvAlways, PTL

\* A step other than that of a statement or a record leaves the database alone
\* and the process outside every script.
LEMMA OutsideStep ==
    ASSUME MInv, MInv', NEW p \in Processes,
           Start(p) \/ Ensure(p) \/ Load(p) \/ ExecFails(p) \/ Interrupt(p) \/ Stop(p)
    PROVE  /\ done' = done /\ recorded' = recorded
           /\ ~InScript(p)'
           /\ \A q \in Processes : q # p => pc'[q] = pc[q] /\ at'[q] = at[q]
<1> USE DEF MInv
<1>1. CASE Load(p)
  <2>1. p \in Servers
    BY <1>1 DEF Load, HandsPlain, Processes
  <2>2. done' = done /\ recorded' = recorded /\ GoOn(p, 0, recorded)
    BY <1>1 DEF Load
  <2>3. \A j \in Stmts : ~(j <= 0)
    BY DEF Stmts
  <2>4. ~InScript(p)'
    BY <2>1, <2>2, <2>3, GoOnStep
  <2>5. \A q \in Processes : q # p => pc'[q] = pc[q] /\ at'[q] = at[q]
    BY <2>2 DEF GoOn, Goto, TypeOK
  <2> QED BY <2>2, <2>4, <2>5
<1>2. CASE Start(p) \/ Ensure(p) \/ ExecFails(p) \/ Interrupt(p) \/ Stop(p)
  <2>1. /\ done' = done /\ recorded' = recorded
        /\ pc'[p] \in {"exec", "ensure", "load", "failed", "down"}
        /\ pc'[p] = "exec" => at'[p] = 1
        /\ \A q \in Processes : q # p => pc'[q] = pc[q] /\ at'[q] = at[q]
    BY <1>2 DEF Start, Ensure, ExecFails, Interrupt, Stop, Goto, TypeOK
  <2>2. ~InScript(p)'
    BY <2>1 DEF InScript
  <2> QED BY <2>1, <2>2
<1> QED BY <1>1, <1>2

\* A record completes all that has been executed.
LEMMA RecordCompletes ==
    ASSUME MInv, NEW p \in Processes, Record(p)
    PROVE  \A k \in done' : ScriptOf[k] \in recorded'
<1> USE DEF MInv
<1>1. /\ pc[p] = "record" /\ at[p] \in Stmts /\ done' = done
      /\ recorded' = recorded \cup {ScriptOf[at[p]]}
  BY DEF Record, TypeOK
<1>2. p \in Servers /\ \A j \in Stmts : j > at[p] => j \notin done
  BY <1>1 DEF AtFrontier, InScript
<1>3. \A j \in done : j \in Stmts /\ (j < at[p] \/ j = at[p])
  BY <1>1, <1>2 DEF TypeOK, Stmts
<1> QED BY <1>1, <1>2, <1>3 DEF Behind

\* Statements succeed inside a script, or open one.
LEMMA ExecStaysInside ==
    ASSUME MInv, NEW p \in Processes, Exec(p)
    PROVE  InScript(p)' \/ (p \in Hands /\ pc'[p] = "done")
<1> USE DEF MInv
<1>1. pc[p] = "exec" /\ at[p] \in Stmts
  BY DEF Exec, TypeOK
<1>2. CASE p \in Servers /\ LastOfScript(at[p])
  BY <1>2 DEF Exec, Goto, TypeOK, InScript
<1>3. CASE ~(p \in Servers /\ LastOfScript(at[p])) /\ at[p] = Total
  BY <1>3 DEF Exec, Goto, TypeOK, LastOfScript, Processes
<1>4. CASE ~(p \in Servers /\ LastOfScript(at[p])) /\ at[p] # Total
  <2>1. pc'[p] = "exec" /\ at'[p] = at[p] + 1
    BY <1>1, <1>4 DEF Exec, Goto, TypeOK
  <2>2. at'[p] > 1 /\ at'[p] - 1 = at[p]
    BY <2>1, <1>1 DEF Stmts
  <2>3. p \in Servers => ScriptOf[at[p] + 1] = ScriptOf[at[p]]
    BY <1>4 DEF LastOfScript
  <2> QED BY <2>1, <2>2, <2>3 DEF InScript
<1> QED BY <1>2, <1>3, <1>4

\* Whatever collisions make some starts fail, a script is abandoned only by an
\* interruption or by make migrate.
THEOREM CollisionsNeverStop == Spec => []CollisionsHarmless
<1>1. Init => CollisionsHarmless
  BY DEF Init, CollisionsHarmless, Abandoned
<1>2. ASSUME MInv, MInv', [Next]_vars, CollisionsHarmless
      PROVE  CollisionsHarmless'
  <2> USE <1>2 DEF MInv
  <2> SUFFICES ASSUME Abandoned' PROVE faults' > 0 \/ \E h \in Hands : pc'[h] = "done"
    BY DEF CollisionsHarmless
  <2>1. ASSUME NEW p \in Processes, Exec(p) PROVE \E h \in Hands : pc'[h] = "done"
    BY <2>1, ExecStaysInside DEF Abandoned
  <2>2. ASSUME NEW p \in Processes, Record(p) PROVE FALSE
    BY <2>2, RecordCompletes DEF Abandoned
  <2>3. ASSUME NEW p \in Processes, Interrupt(p) PROVE faults' > 0
    BY <2>3 DEF Interrupt, TypeOK
  <2>4. ASSUME NEW p \in Processes,
               Start(p) \/ Ensure(p) \/ Load(p) \/ ExecFails(p) \/ Stop(p)
        PROVE  faults' > 0 \/ \E h \in Hands : pc'[h] = "done"
    <3>1. ~InScript(p)
      BY <2>4 DEF Start, Ensure, Load, ExecFails, Stop, InScript, AtFrontier
    <3>2. /\ done' = done /\ recorded' = recorded
          /\ \A q \in Processes : q # p => pc'[q] = pc[q] /\ at'[q] = at[q]
      BY <2>4, OutsideStep
    <3>3. Abandoned
      BY <3>1, <3>2 DEF Abandoned, InScript
    <3>4. faults > 0 \/ \E h \in Hands : pc[h] = "done"
      BY <3>3 DEF CollisionsHarmless
    <3>5. pc[p] # "done" /\ faults' = faults
      BY <2>4 DEF Start, Ensure, Load, ExecFails, Stop
    <3> QED BY <3>2, <3>4, <3>5 DEF Processes
  <2>5. CASE UNCHANGED vars
    BY <2>5 DEF vars, CollisionsHarmless, Abandoned, InScript
  <2> QED BY <2>1, <2>2, <2>3, <2>4, <2>5 DEF Next, Step
<1> QED BY <1>1, <1>2, MInvAlways, PTL DEF Spec

\* When a script has been abandoned, nobody gets past it any more.
LEMMA AbandonedExec ==
    ASSUME MInv, Abandoned, NEW p \in Processes
    PROVE  ~Exec(p)
<1> SUFFICES ASSUME Exec(p) PROVE FALSE
  OBVIOUS
<1> USE DEF MInv
<1> DEFINE k == at[p]
<1>1. k \in Stmts /\ k \in Int /\ pc[p] = "exec" /\ k \notin done
  BY DEF Exec, TypeOK, Stmts
<1>2. PICK j \in done : ScriptOf[j] \notin recorded
  BY DEF Abandoned
<1>3. j \in Stmts /\ j < k
  <2>1. j \in Stmts /\ j \in Int
    BY <1>2 DEF TypeOK, Stmts
  <2> QED BY <1>1, <2>1 DEF RecordedAreWhole
<1>4. ~InScript(p)
  BY DEF Abandoned
<1>5. k > 1
  BY <1>1, <1>3 DEF Stmts
<1>6. p \in Servers /\ ScriptOf[k - 1] # ScriptOf[k]
  BY <1>1, <1>4, <1>5 DEF InScript
<1>7. ScriptOf[j] # ScriptOf[k]
  BY <1>1, <1>3, <1>5, <1>6, FirstBelow
<1> QED BY <1>1, <1>2, <1>3, <1>6, <1>7 DEF Behind

\* An abandoned script is neither taken up nor passed over by any later start.
THEOREM AbandonedStays == Spec => AbandonedForGood
<1> DEFINE Stays == /\ Abandoned'
                    /\ done' = done
                    /\ \A p \in Servers : pc'[p] # "serving"
<1>1. ASSUME MInv, MInv', [Next]_vars, Abandoned PROVE Stays
  <2>1. ~\E p \in Processes : Record(p)
    BY <1>1 DEF Abandoned, InScript, Record
  <2>2. ~\E p \in Processes : Exec(p)
    BY <1>1, AbandonedExec
  <2>3. done' = done /\ recorded' = recorded
    BY <1>1, <2>1, <2>2 DEF Next, Step, Start, Ensure, Load, ExecFails, Interrupt,
       Stop, vars
  <2>4. recorded' # Files
    <3>1. PICK k \in done : ScriptOf[k] \notin recorded
      BY <1>1 DEF Abandoned
    <3> QED BY <1>1, <2>3, <3>1 DEF MInv, TypeOK, Files
  <2>5. \A p \in Servers : pc'[p] # "serving"
    BY <1>1, <2>4 DEF MInv, ServesWholeSchema
  <2>6. \A q \in Processes : ~InScript(q)'
    <3>1. ASSUME NEW p \in Processes,
                 Start(p) \/ Ensure(p) \/ Load(p) \/ ExecFails(p) \/ Interrupt(p)
                 \/ Stop(p)
          PROVE  \A q \in Processes : ~InScript(q)'
      <4>1. /\ ~InScript(p)'
            /\ \A q \in Processes : q # p => pc'[q] = pc[q] /\ at'[q] = at[q]
        BY <3>1, <1>1, OutsideStep
      <4> QED BY <4>1, <1>1 DEF Abandoned, InScript
    <3>2. CASE UNCHANGED vars
      BY <3>2, <1>1 DEF vars, Abandoned, InScript
    <3> QED BY <3>1, <3>2, <2>1, <2>2, <1>1 DEF Next, Step
  <2> QED BY <1>1, <2>3, <2>5, <2>6 DEF Abandoned
<1>2. MInv /\ MInv' /\ [Next]_vars => [Abandoned => Stays]_vars
  BY <1>1
<1> QED BY <1>2, MInvAlways, PTL DEF Spec, AbandonedForGood
=============================================================================
