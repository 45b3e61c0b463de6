----------------------------- MODULE MCIdempotency -----------------------------
(***************************************************************************)
(* Small instances of Idempotency: two threads and two keys, with a draft, *)
(* a scheduled post and an upload as bodies.                               *)
(***************************************************************************)
EXTENDS Idempotency

CONSTANTS t1, t2, k1, k2, draft, scheduled, upload

===============================================================================
