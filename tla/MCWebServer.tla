---------------------------- MODULE MCWebServer -----------------------------
\* Two clients, as model values: without symmetry, because liveness is checked.
EXTENDS WebServer
=============================================================================
