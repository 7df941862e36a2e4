----------------------------- MODULE MCJsonStore -----------------------------
EXTENDS JsonStore

AllTypes ==
    {t \in DOMAIN Writer \cup DOMAIN Reader :
        /\ t \in DOMAIN Writer => Root(Writer, t).kind \notin {"text", "nothing", "arms"}
        /\ t \in DOMAIN Reader => Root(Reader, t).kind \notin {"text", "nothing", "arms"}}

=============================================================================
