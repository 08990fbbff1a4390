------------------------------ MODULE MCTrading ------------------------------
EXTENDS Trading

CONSTANTS d1

\* At most one warning is out: Scan is where all of them are.
OneWarning == Cardinality(noted) <= 1

\* What no step reads again: the counters of Scan's own properties, what a
\* scan at its end had left, and the last transaction of an attempt that ended.
Seen ==
    <<scanPC, stopEvent, hasKey, emitOps, noted,
      IF Ended THEN <<>> ELSE <<left, usable, fwd, rev>>,
      pc, attempt, IF pc = "idle" THEN <<>> ELSE <<nonce, kind, amount>>,
      outcome, unsure, threads, count, mempool, mined, base, quote, foreign,
      bookVars>>
=============================================================================
