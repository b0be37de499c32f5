--------------------------- MODULE MCEventConsumer ---------------------------
EXTENDS EventConsumer

\* An event in two copies, undecodable bytes, and another event.
MCLog == <<"e1", Garbage, "e1", "e2">>
=============================================================================
