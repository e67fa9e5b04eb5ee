-------------------------- MODULE MC_Orchestrator --------------------------
EXTENDS Orchestrator

\* Manifests that never name the HTTP registrar while the data and DNS
\* roles can both be set without it.
MC_SafeManifests ==
    {{}, {"onLoad", "dns"}, {"data", "http"}, {"onLoad", "data", "dns", "http"}}
MC_Full == {{"onLoad", "data", "dns", "http"}}
MC_NoRole == {}
MC_NoHttpFile == {"http"}
=============================================================================
