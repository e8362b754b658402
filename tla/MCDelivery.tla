----------------------------- MODULE MCDelivery -----------------------------
(* Instances of Delivery: two sinks, the first durable, the second lossy.   *)
EXTENDS Delivery

(* The lossy sink batches two results; the durable one retries once. *)
MCQueueDepth == <<1, 0>>
MCBatchMax   == <<1, 2>>
MCRetryMax   == <<1, 0>>
=============================================================================
