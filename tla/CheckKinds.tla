----------------------------- MODULE CheckKinds -----------------------------
(***************************************************************************)
(* What one check of a healthcheck finds (src/src/healthcheck/ping.go,     *)
(* probe.go, exec.go): a function of the healthcheck section and of how    *)
(* the target behaves.  A check reports when it has gone through or its    *)
(* timeout is over; a target that is too slow is one that refuses or says  *)
(* nothing.                                                                *)
(***************************************************************************)

(***************************************************************************)
(* proxy is proxy_protocol.version and over is probe_protocol.  Whether a  *)
(* text matches probe_recv or one of the two exec outputs is what says     *)
(* tells of it: "right" is the text asked for, "wrong" the expected        *)
(* negative output of an exec check.                                       *)
(***************************************************************************)
Section == [kind : {"ping", "probe", "exec"},
            proxy : {"none", "1", "2"}, over : {"tcp", "udp", "tls"}]

Behaviour == [accepts : BOOLEAN,    \* the dial succeeds, the command runs
              takes : BOOLEAN,      \* what is sent is written in full
              says : {"right", "wrong", "odd", "nothing"}]

Verdict(good) == IF good THEN "healthy" ELSE "unhealthy"

\* The connection is enough, and the PROXY header if one is to be sent.
PingFinds(c, b) ==
  Verdict(b.accepts /\ (c.proxy # "none" => b.takes))

\* A version 1 header cannot go before a datagram.  The answer must come in
\* full and match.
ProbeFinds(c, b) ==
  Verdict(/\ b.accepts
          /\ ~(c.over = "udp" /\ c.proxy = "1")
          /\ b.takes
          /\ b.says = "right")

\* An output that is neither of the two leaves the status as it was made.
ExecFinds(c, b) ==
  IF b.accepts /\ b.says = "odd" THEN "initial"
  ELSE Verdict(b.accepts /\ b.says = "right")

Finds(c, b) ==
  CASE c.kind = "ping"  -> PingFinds(c, b)
    [] c.kind = "probe" -> ProbeFinds(c, b)
    [] c.kind = "exec"  -> ExecFinds(c, b)
=============================================================================
