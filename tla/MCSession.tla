----------------------------- MODULE MCSession -----------------------------
(***************************************************************************)
(* Session for a few configurations: timeouts one above interval and       *)
(* latency, one shorter than the interval, an auth_timeout of zero, and    *)
(* one validate refuses; and one for a client whose socket is slow.        *)
(***************************************************************************)
EXTENDS Session

Conf(a, i, t) == [auth |-> a, interval |-> i, timeout |-> t]

MCConfigs == {Conf(1, 1, 3), Conf(2, 2, 4), Conf(1, 2, 1), Conf(0, 1, 1),
              Conf(1, 0, 1)}

MCWorlds == [latency : {1, 2}, delay : {0, 2}]

SlowConfigs == {Conf(1, 1, 4)}

SlowWorlds == {[latency |-> 1, delay |-> 1]}

=============================================================================
