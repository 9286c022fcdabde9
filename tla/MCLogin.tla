------------------------------- MODULE MCLogin -------------------------------
EXTENDS Login

P(kind, value) == [kind |-> kind, value |-> value]

SmallBatches ==
    { <<P("settings", "none")>>, <<P("settings", "snappy")>>,
      <<P("handshake", 2)>>, <<P("status", "success")>>,
      <<P("malformed", 0)>>,
      <<P("settings", "none"), P("handshake", 2)>> }
=============================================================================
