--------------------------- MODULE MCOwnerIngress ---------------------------
(* Instances of OwnerIngress for TLC. *)
EXTENDS OwnerIngress, TLC

CONSTANTS c1, w1, w2, cb, d1, p1, p2, s1, t1, kA, kB, kC

\* A control event, a work callback, a reply-or-busy request, two one-shot
\* values of one key, a stale-able result and a telemetry value of two others.
IngressEvents == {c1, cb, d1, p1, p2, s1, t1}
\* Fewer of them, and two works of one lane, for the liveness check.
LiveEvents == {c1, w1, w2, p1, s1}

MCPolicy(E) == [e \in E |->
  CASE e \in {c1, w1, w2, cb} -> "mustDeliver"
    [] e = d1                 -> "replyOrBusy"
    [] e \in {p1, p2, t1}     -> "coalesceLatest"
    [] e = s1                 -> "dropIfStale"]
MCLane(E) == [e \in E |->
  CASE e \in {c1, p2} -> "control"
    [] e = t1         -> "telemetry"
    [] OTHER          -> "work"]
MCKey(E) == [e \in E |->
  CASE e \in {p1, p2} -> kA
    [] e = s1         -> kB
    [] e = t1         -> kC
    [] OTHER          -> None]

IngressPolicy == MCPolicy(IngressEvents)
IngressLane == MCLane(IngressEvents)
IngressKey == MCKey(IngressEvents)
LivePolicy == MCPolicy(LiveEvents)
LiveLane == MCLane(LiveEvents)
LiveKey == MCKey(LiveEvents)
IngressCallbacks == {cb}
LiveCallbacks == {}
MCKeys == {kA, kB, kC}
=============================================================================
