--------------------------- MODULE MCScriptPipeline ---------------------------
(* Instances of the script pipeline for TLC. *)
EXTENDS ScriptPipeline, TLC

CONSTANTS w1, w2, h1, h2

OneWorker == {w1}
TwoWorkers == {w1, w2}
OneHome == {h1}
TwoHomes == {h1, h2}
AllInOne == [w \in Workers |-> h1]       \* one directory for everything
OwnHomes == w1 :> h1 @@ w2 :> h2         \* docker-compose: only output/ and input/ are mounted
NoneMute == {}
OneMute == {3}
=============================================================================
