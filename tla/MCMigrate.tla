------------------------------ MODULE MCMigrate ------------------------------
(* Instances of Migrate for TLC. *)
EXTENDS Migrate

\* Three files: of three statements, of one and of two.
MCScripts == <<1, 1, 1, 2, 3, 3>>

\* The order of the README: the server is started once make migrate is through.
InReadmeOrder ==
    \A p \in Servers : pc[p] = "down" /\ pc'[p] # "down" =>
        \A h \in Hands : pc[h] = "done"

ReadmeSpec == Init /\ [][Next /\ InReadmeOrder]_vars

\* The steps of the README, of which none is interrupted, end with a server
\* that runs: step 4, make migrate, and step 6, make run, do not fail.
ReadmeStepsSucceed == faults = 0 => \A p \in Processes : pc[p] # "failed"
=============================================================================
