--------------------------- MODULE MCServerSecurity ---------------------------
(* Option sets for the model checker: rates in half tokens per tick.          *)
EXTENDS ServerSecurity, TLC

CONSTANTS a, b
MCIps == {a, b}

\* One token of burst for a source and each kind of its requests, two for all
\* sources, all refilled at half a token per tick; room for both addresses.
Roomy ==
    [enabled |-> TRUE, denied |-> {}, allowed |-> {}, allowlist |-> FALSE,
     rate |-> [x \in Buckets |-> 1],
     burst |-> [x \in Buckets |-> IF x = "global" THEN 2 * Unit ELSE Unit],
     flood_violations |-> 2, flood_window |-> 1, block_duration |-> 3,
     max_sources |-> 2, source_ttl |-> 3, log_interval |-> 2]

\* One drop is a flood.
Strict == [Roomy EXCEPT !.flood_violations = 1]

\* The addresses share one entry; b is denied, a is allowed explicitly.
Listed == [Roomy EXCEPT !.max_sources = 1, !.source_ttl = 2,
                        !.denied = {b}, !.allowed = {a, b}, !.allowlist = TRUE]
Off == [Listed EXCEPT !.enabled = FALSE]

MCConfigs == {Roomy, Strict, Listed, Off}
=============================================================================
