-------------------------- MODULE MCTaskReadiness --------------------------
(* Model values and bounds for checking TaskReadiness with TLC.              *)
EXTENDS TaskReadiness, TLC

CONSTANTS t1, t2, a1, g1

QuotaReports == {<<"FAILED", "OUT_OF_QUOTA">>}

Config(limit, tags) ==
  [on |-> TRUE, statusTriggers |-> {"NOT_STARTED"}, tagTriggers |-> tags,
   limit |-> limit]
Off == [Config(None, {}) EXCEPT !.on = FALSE]

OneAtATime == {Config(1, {})}
OneIfTagged == {Config(1, {g1})}
OnOff == {Config(1, {}), Off}

SecondNeedsFirst == [t \in Tasks |-> IF t = t2 THEN {t1} ELSE {}]
Independent == [t \in Tasks |-> {}]
=============================================================================
