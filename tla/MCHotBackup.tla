---------------------------- MODULE MCHotBackup ----------------------------
EXTENDS HotBackup

Max(fault, crash, peer, foreign, power) ==
    [c \in Counters |-> CASE c = "fault" -> fault [] c = "crash" -> crash [] c = "peer" -> peer
                          [] c = "foreign" -> foreign [] OTHER -> power]

Frozen(f, s) == [freezeBy |-> f, freeze |-> TRUE, strict |-> s]
Plain == [freezeBy |-> "service", freeze |-> FALSE, strict |-> FALSE]

\* One job: its runs follow one another.
OneJob(q, agent, max) == [req |-> [r \in Runs |-> q], overlap |-> FALSE, agent |-> agent, max |-> max]

\* Two jobs with the same VM.
TwoJobs(q1, q2, max) == [req |-> [r \in Runs |-> IF r = 1 THEN q1 ELSE q2], overlap |-> TRUE, agent |-> TRUE, max |-> max]

Ways == {"service", "engine", "mixed"}

JobSettings ==
    {OneJob(Frozen(f, s), TRUE, Max(2, 0, 0, 0, 0)) : f \in Ways, s \in BOOLEAN}
        \cup {OneJob(Frozen(f, s), TRUE, Max(1, 1, 0, 0, 0)) : f \in Ways, s \in BOOLEAN}
        \cup {OneJob(Frozen(f, s), a, Max(0, 0, 0, 1, 1)) : f \in Ways, s \in BOOLEAN, a \in BOOLEAN}
        \cup {OneJob(Frozen(f, FALSE), TRUE, Max(1, 0, 1, 0, 0)) : f \in Ways}
        \cup {OneJob(Plain, TRUE, Max(1, 1, 0, 0, 0))}
        \cup {TwoJobs(Frozen(w[1], FALSE), Frozen(w[2], TRUE), Max(1, 0, 0, 0, 0)) : w \in {v \in Ways \X Ways : v[1] # v[2]}}
        \cup {TwoJobs(Frozen("service", TRUE), Frozen("service", TRUE), Max(2, 0, 0, 0, 0))}
=============================================================================
