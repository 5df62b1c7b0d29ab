---------------------------- MODULE MCSseStream ----------------------------
(* One page that may leave and reconnect, two places, queues of two. *)
EXTENDS SseStream
=============================================================================
