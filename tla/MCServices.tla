----------------------------- MODULE MCServices -----------------------------
(* One address of the registry and of the limiter; two calls over each         *)
(* connection; supply times in minutes.                                        *)
EXTENDS Services
=============================================================================
