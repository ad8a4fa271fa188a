---------------------------- MODULE RetryBackoff ----------------------------
(***************************************************************************)
(* NextRetryRunAt of backend/jobs/domain/job.go: the delay before the      *)
(* retry that follows an attempt.                                          *)
(***************************************************************************)
EXTENDS Integers

\* The loop: delay after i doublings, which stops at the cap.
Doubled(base, cap, n) ==
    LET delay[i \in 0..n] ==
            IF i = 0 THEN base
            ELSE IF delay[i - 1] >= cap THEN cap ELSE 2 * delay[i - 1]
    IN  delay[n]

NextRetryDelay(attempts, base, cap) ==
    LET d == Doubled(base, cap, (IF attempts < 1 THEN 1 ELSE attempts) - 1)
    IN  IF d > cap THEN cap ELSE d
=============================================================================
