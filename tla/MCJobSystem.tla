----------------------------- MODULE MCJobSystem -----------------------------
(* Instances of the job system for TLC. *)
EXTENDS DocumentedClaims

CONSTANTS h1, h2, w1, w2

OneHandler == {h1}
TwoHandlers == {h1, h2}
NoWorkers == {}
OneWorker == {w1}
TwoWorkers == {w1, w2}

PostOnly == {"generate"}
PostAndList == {"generate", "active_job"}
PostAndPoll == {"generate", "status"}
AllOps == {"generate", "active_job", "status"}

Nothing == {}
PopAndMark == {"pop", "mark"}
Anything == {"enqueue", "pop", "mark", "complete"}
=============================================================================
