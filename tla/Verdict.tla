------------------------------ MODULE Verdict -------------------------------
(***************************************************************************)
(* bench/checks.py: evaluate(), the verdict on one run as a function of    *)
(* its record.  A record is what the parties reported:                     *)
(*   point   kind, qos, whether the rate is fixed, the extended features   *)
(*   worker  ok and its counters (final, and the window's differences)     *)
(*   peer, source   heard, error and the C peer's counters                 *)
(*   sys     whether the two $SYS readings exist, and their differences    *)
(*   odd     what else was noticed: "size_mismatch", "unmatched",          *)
(*           "props_missing", "full_topics", "broker_busy", "host_noisy"   *)
(*   strict  the profile is comparable                                     *)
(* Metrics and the wording of details are left out.                        *)
(***************************************************************************)
EXTENDS Integers

CONSTANTS
  Slack,    \* the constant part of the tolerance: 5 in the code
  Offered   \* messages a fixed rate offers in the window: rate * window_s

ASSUME VerdictAssumption == Slack \in Nat /\ Offered \in Nat \ {0}

Tolerance(n) == Slack + (IF n > 0 THEN n ELSE 0) \div 2000

Near(a, b, n) == a - b \in (0 - Tolerance(n)) .. Tolerance(n)

RateHeld(n, offer) == 100 * n >= 98 * offer

Check(name, passed, severity) ==
  [name |-> name, passed |-> passed, severity |-> severity]

When(applies, checks) == IF applies THEN checks ELSE {}

Completed(party) == party.heard /\ ~party.error

-----------------------------------------------------------------------------
(* The first four checks: without them there is nothing to compare. *)

CompletionChecks(r) ==
  {Check("worker_completed", r.worker.ok, "invalid"),
   Check("broker_counters_read", r.sys.read, "invalid")}
  \union When(r.point.kind # "idle", {Check("peer_completed", Completed(r.peer), "invalid")})
  \union When(r.point.kind = "duplex", {Check("source_completed", Completed(r.source), "invalid")})

Publishes(kind) == kind \in {"pub", "rtt", "duplex"}

\* What the broker received from the client, net of what others published.
FromClient(r) ==
  r.sys.received - (CASE r.point.kind = "rtt"    -> r.peer.echoed
                      [] r.point.kind = "duplex" -> r.source.sent
                      [] OTHER                   -> 0)

PublishChecks(r) ==
  LET low  == r.worker.done - Tolerance(r.worker.done)
      high == r.worker.sent + Tolerance(r.worker.sent)
  IN When(Publishes(r.point.kind),
          {Check("broker_confirms_client_publishes", FromClient(r) \in low .. high, "invalid")})
     \union
     When(r.point.kind = "sub",
          {Check("broker_confirms_peer_publishes",
                 Near(r.sys.received, r.peer.sent, r.peer.sent), "invalid")})

\* At receive capacity the broker may have sent what the client has yet to read.
DeliveryChecks(r) ==
  LET p == r.point
      delivered == (IF p.kind = "pub" THEN 0 ELSE r.worker.received)
                 + (IF p.kind = "sub" THEN 0 ELSE r.peer.received)
      confirmed == IF p.kind = "sub" /\ ~p.rated
                     THEN delivered <= r.sys.sent + Tolerance(delivered)
                     ELSE Near(r.sys.sent, delivered, delivered)
  IN When(p.kind # "idle", {Check("broker_confirms_deliveries", confirmed, "invalid")})

Arrived(n, acked) == n >= acked - Tolerance(acked)

\* QoS 1 and 2: what was acknowledged arrived; the client is excused by drops.
LossChecks(r) ==
  LET p == r.point
      excused == IF r.sys.dropped # 0 THEN "not_sustained" ELSE "invalid"
      noLoss ==
        CASE p.kind \in {"pub", "duplex"} ->
               {Check("no_loss", Arrived(r.peer.received, r.worker.done), "invalid")}
          [] p.kind = "sub" /\ p.rated ->
               {Check("no_loss", Arrived(r.worker.received, r.peer.acked), excused)}
          [] p.kind = "rtt" ->
               {Check("no_loss", Arrived(r.worker.received, r.peer.echoed), "not_sustained")}
          [] OTHER -> {}
      inbound ==
        {Check("no_loss_inbound", Arrived(r.worker.received, r.source.acked), excused)}
  IN When(p.qos >= 1, noLoss \union When(p.kind = "duplex", inbound))

RateChecks(r) ==
  LET p == r.point
      offering == {Check("offered_rate_held", RateHeld(r.worker.wsent, Offered), "not_sustained")}
      answering == {Check("responses_kept_up",
                          RateHeld(r.worker.wreceived, r.worker.wsent), "not_sustained")}
      feeding == IF p.kind = "sub"
                   THEN Check("offered_rate_held", RateHeld(r.peer.wsent, Offered), "invalid")
                   ELSE Check("source_rate_held", RateHeld(r.source.wsent, Offered), "invalid")
      fed == IF p.kind = "sub" THEN r.peer.wsent ELSE r.source.wsent
      keptUp == Check("client_kept_up", RateHeld(r.worker.wreceived, fed), "not_sustained")
  IN When(p.rated,
          When(Publishes(p.kind), offering \union When(p.kind = "rtt", answering))
          \union When(p.kind \in {"sub", "duplex"}, {feeding, keptUp}))

FeatureChecks(r) ==
  LET p == r.point IN
  When(p.kind \in {"pub", "duplex"},
       {Check("payloads_intact", "size_mismatch" \notin r.odd, "invalid")})
  \union When("filters" \in p.features,
       {Check("callbacks_matched", "unmatched" \notin r.odd /\ r.worker.received > 0, "invalid")})
  \union When(p.kind = "pub" /\ "properties" \in p.features,
       {Check("properties_delivered", "props_missing" \notin r.odd, "invalid")})
  \union When(p.kind = "pub" /\ "alias" \in p.features,
       {Check("topic_alias_used", "full_topics" \notin r.odd, "invalid")})

\* A busy broker or host is a failure where it spoils the answer, else a flag.
HostChecks(r) ==
  When(r.point.rated \/ r.point.kind = "idle",
       {Check("broker_headroom", "broker_busy" \notin r.odd, "invalid")})
  \union When(r.strict, {Check("host_quiet", "host_noisy" \notin r.odd, "invalid")})

StatusOf(checks) ==
  LET failed == {c \in checks : ~c.passed} IN
  CASE failed = {}                                -> "valid"
    [] \E c \in failed : c.severity = "invalid"   -> "invalid"
    [] OTHER                                      -> "not_sustained"

\* The status evaluate() gives the record.
Evaluate(r) ==
  IF StatusOf(CompletionChecks(r)) = "invalid" THEN "invalid"
  ELSE StatusOf(PublishChecks(r) \union DeliveryChecks(r) \union LossChecks(r)
                \union RateChecks(r) \union FeatureChecks(r) \union HostChecks(r))
=============================================================================
