-------------------------------- MODULE MCTls --------------------------------
(* Tls with a config-server and a shard, either of which may have TLS to    *)
(* begin with, and with a config-server alone that more may happen to.      *)
EXTENDS Tls

CONSTANTS config, shard

Begins(D, E, n) == [deployed |-> D, enabled |-> E, faults |-> n]

MCStarts ==
  {Begins({config}, {}, 2), Begins({config, shard}, {config}, 0), Begins({config, shard}, {shard}, 0),
   Begins({config, shard}, {config, shard}, 1)}
=============================================================================
