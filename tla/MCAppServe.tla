----------------------------- MODULE MCAppServe -----------------------------
EXTENDS AppServe, MCDeployment

\* Two clients of the App, so that one waits on the App lock while the
\* other holds it.
MCClients == {"c1", "c2"}
====
