---------------------------- MODULE MCFipsModule ----------------------------
(* Instances of FipsModule for TLC: a registry with one algorithm of each   *)
(* kind that check tells apart, and a CAST table of two tests, of which the *)
(* second calls an operation that can refuse.                               *)
EXTENDS FipsModule, TLC

CONSTANTS t1, t2, t3

MCThreads1 == {t1}
MCThreads2 == {t1, t2}
MCThreads3 == {t1, t2, t3}

MCAlgorithms == {"aes-256-gcm", "aes-256", "chacha20-poly1305", "falcon-512"}

MCFips == [a \in MCAlgorithms |->
             CASE a = "aes-256-gcm" -> "Approved"
               [] a = "aes-256" -> "AllowedAsComponent"
               [] a = "chacha20-poly1305" -> "NotApproved"
               [] a = "falcon-512" -> "Approved"]

MCAvailable == MCAlgorithms \ {"falcon-512"}

MCGatedCasts == {2}

\* The smallest registry, for the run with racing threads.
MCAlgorithms1 == {"chacha20-poly1305"}
MCFips1 == [a \in MCAlgorithms1 |-> "NotApproved"]

MCOperations == {"initialize", "set_mode", "check", "guarded", "service", "keygen",
                 "enter_error_state", "run_self_test"}

Symmetry == Permutations(Threads)
=============================================================================
