----------------------------- MODULE MCAppJobs -----------------------------
EXTENDS AppJobs
CONSTANTS a, b

\* Two applications that want the same port of the host.
MCKeysOf == [j \in Jobs |-> {"port", IF j = a THEN "app:a" ELSE "app:b"}]
=============================================================================
