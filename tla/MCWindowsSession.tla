--------------------------- MODULE MCWindowsSession ---------------------------
EXTENDS WindowsSession
S(o, c, s, n) == [op |-> o, client |-> c, script |-> s, lines |-> n]
SessionsConsent ==
    {S("mcp", "stray", << <<"get">> >>, 0), S("mcp", "conforming", << <<"pair">> >>, 0),
     S("mcp", "conforming", << <<"search", "plain", "get">>, <<"plain">> >>, 0),
     S("connect", "stray", <<>>, 0), S("pair", "conforming", <<>>, 2)}
SessionsEnds ==
    {S("mcp", "conforming", << <<"pair">> >>, 0), S("connect", "stray", <<>>, 0),
     S("pair", "conforming", <<>>, 1)}
=============================================================================
