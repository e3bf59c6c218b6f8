---------------------------- MODULE MCJobServer ----------------------------
EXTENDS JobServer
(* Run(ctx), and a library user who seeks (which pauses) and resumes.      *)
MCRun == {<<"start", "wait", "close">>}
MCPrograms == MCRun \cup {<<"start", "seek", "resume", "wait", "close">>}
(* Close without Wait.                                                      *)
MCStop == {<<"start", "close">>}

(* Either a job with a subscriber and no helper, or a library user with     *)
(* helpers whom nobody follows: the two do not touch each other.            *)
MCInit ==
    /\ Init
    /\ \/ program[Job] \in MCRun /\ \A a \in Helper : pc[a] = "gone"
       \/ ticks = MaxTicks /\ \A s \in Sub : sub[s] = "left"
MCSpec == MCInit /\ [][Next]_vars /\ Fair
=============================================================================
