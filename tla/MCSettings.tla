----------------------------- MODULE MCSettings -----------------------------
EXTENDS Settings

MCActor == {"a", "b"}
MCReader == {"r", "s"}
=============================================================================
