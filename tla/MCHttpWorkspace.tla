--------------------------- MODULE MCHttpWorkspace ---------------------------
(* HttpWorkspace with commands as a browser or a page of documentation has them. *)
EXTENDS HttpWorkspace

C(words) == <<"curl">> \o FlattenSeq([i \in DOMAIN words |-> <<"SP">> \o words[i]])
Q(s) == <<"SQ">> \o s \o <<"SQ">>
A == <<"http://a">>

AllCommands == {
    C(<<<<"-d">>, <<"p", "=", "v">>, <<"-d">>, <<"q">>, A>>),
    C(<<<<"-X", "PUT">>, <<"--data-urlencode">>, Q(<<"k", "=", "v", "SP">>), <<"--data-urlencode">>, <<"k", "@", "f">>,
        <<"-H">>, Q(<<"X", ":", "SP", "v">>), <<"-H">>, <<"DQ", "X", ":", "w", "DQ">>, A>>),
    C(<<<<"-u">>, Q(<<"u", ":", "p", ":", "w">>), <<"-b">>, <<"s", "=", "v">>, <<"-b">>, <<"q", "=", "v">>,
        <<"-A">>, <<"agent">>, A>>),
    C(<<<<"-F">>, <<"n", "=", "v">>, <<"-F">>, <<"n", "=", "@", "f">>, <<"BS", "NL">>, A>>),
    C(<<<<"--json">>, Q(<<"v">>), <<"-H">>, <<"Accept", ":", "t">>, A>>),
    C(<<<<"-s", "L", "k", "X", "PUT">>, <<"-m">>, <<"2">>, <<"--connect-timeout", "=", "10">>,
        <<"--data-raw">>, <<"@", "f">>, <<"-H", "Content-Type", ":", "t">>, A>>),
    C(<<<<"-H">>, <<"$", "SQ", "X", ":", "v", "BS", "n", "w", "SQ">>, A>>),
    C(<<<<"-H">>, <<"$", "SQ", "X", ":", "v", "BS", "n", "X", ":", "w", "SQ">>, A>>),
    C(<<<<"-d">>, <<"-s">>, <<"-u">>, <<"-L", ":", "p">>, <<"--data-raw">>,
        <<"$", "SQ", "v", "BS", "SQ", "BS", "n", "SQ">>, A>>),
    C(<<<<"-d">>, <<"@", "f">>, <<"--data-binary">>, <<"@", "f">>, A>>),
    C(<<<<"--data-binary">>, <<"@", "gone">>, A>>),
    C(<<<<"-X">>, <<"PURGE">>, A>>),
    C(<<<<"-m">>, <<"100000">>, A>>),
    C(<<<<"--connect-timeout">>, <<"100000">>, A>>),
    C(<<<<"-s", "L", "-">>, Q(<<"SP", "http://a">>)>>),
    C(<<<<"-X">>, <<"SQ", "SQ">>, <<"-d">>, <<"v">>, A>>),
    C(<<<<"-X">>, Q(<<"SP">>), <<"-d">>, <<"v">>, A>>),
    C(<<<<"host">>>>),
    C(<<<<"--">>, <<"-?", "host">>>>),
    C(<<<<"-H">>, <<"X_T", ":", "v">>, A>>),
    C(<<<<"-d">>, <<"v">>, <<"-F">>, <<"n", "=", "v">>, A>>),
    C(<<A, <<"-d">>>>) }

\* Units: an atom that stands for itself, an escape, and what needs a shell.
U(c)    == [text |-> <<c>>, adds |-> <<c>>]
E(c, t) == [text |-> <<"BS", c>>, adds |-> t]
X(t)    == [text |-> t, adds |-> <<>>]
P(what, quote, units) == [is |-> what, quote |-> quote, units |-> units]

AllPieces == {
    P("word", "", <<U("v")>>), P("word", "", <<E("DQ", <<"DQ">>)>>), P("word", "", <<E("SP", <<"SP">>)>>),
    P("word", "SQ", <<>>), P("word", "SQ", <<U("DQ"), U("BS"), U("$")>>),
    P("word", "DQ", <<U("SQ"), U(";")>>), P("word", "DQ", <<E("$", <<"$">>), E("DQ", <<"DQ">>)>>),
    P("word", "DQ", <<E("NL", <<>>)>>),
    P("word", "$", <<E("SQ", <<"SQ">>), U("$"), E("n", <<"NL">>)>>),
    P("word", "$", <<U("x27"), E("x27", <<"SQ">>), E("v", <<"BS", "v">>)>>),
    P("space", "", <<X(<<"SP">>)>>), P("space", "", <<X(<<"NL">>)>>), P("continued", "", <<X(<<"BS", "NL">>)>>),
    P("shell", "", <<X(<<"BQ">>)>>), P("shell", "", <<X(<<"|">>)>>), P("shell", "", <<X(<<"$", "v">>)>>),
    P("shell", "DQ", <<X(<<"$", "v">>)>>) }

AllBodies  == {<<"v", "SQ">>, <<"@", "f">>}
AllLines   == {<<"Content-Type", ":", "t">>, <<"X_T", ":", "v">>, <<"v">>}
AllMethods == {<<"PURGE">>, <<"SP", "PUT">>, <<>>}
AllURLs    == {<<"http://b", "SP">>, <<"host">>}
AllFiles   == [n \in {<<"f">>} |-> <<"v", "NL", "w">>]
=============================================================================
