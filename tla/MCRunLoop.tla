----------------------------- MODULE MCRunLoop -----------------------------
(* Small plans for RunLoop. *)
EXTENDS RunLoop, TLC

CONSTANTS t1, t2, t3

(* t2 and t3 both wait for t1. *)
ForkDepends == t1 :> {} @@ t2 :> {t1} @@ t3 :> {t1}
ForkRank == t1 :> 1 @@ t2 :> 2 @@ t3 :> 3
ForkAttempts == t1 :> 2 @@ t2 :> 1 @@ t3 :> 1

(* t2 waits for t1. *)
PairDepends == t1 :> {} @@ t2 :> {t1}
PairRank == t1 :> 1 @@ t2 :> 2
PairAttempts == t1 :> 2 @@ t2 :> 2
=============================================================================
