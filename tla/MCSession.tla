------------------------------ MODULE MCSession ------------------------------
(* The programs that TLC checks: every setup, the longest UCX programs last. *)
EXTENDS Session

Run(k, p, n) == [kind |-> k, probing |-> p, rounds |-> n]

MCSessions == {Run("nccl", FALSE, 2), Run("buffer", FALSE, 2), Run("unknown", FALSE, 0),
               Run("none", FALSE, 2), Run("preregistered", TRUE, 1)}

\* One exchange of the warm-up.
MCWarmup == {Run("none", FALSE, 1)}
=============================================================================
