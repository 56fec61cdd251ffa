----------------------------- MODULE CurlCommand -----------------------------
(***************************************************************************)
(* core/curl.go: a command line of curl as the text it is, as words, and   *)
(* as the request it means.                                                *)
(*                                                                         *)
(* A text is a sequence of atoms.  A character that means something to a   *)
(* shell is an atom of its own: SQ, DQ and BQ are the quotation marks, BS  *)
(* the backslash, SP and NL white space (CR LF is one NL).  An atom may    *)
(* stand for several characters that mean nothing to a shell, as the name  *)
(* of an option or of a header does.  A long option with its value is      *)
(* <<"--data", "=", "v">>, a cluster of short ones <<"-s", "X", "PUT">>.   *)
(*                                                                         *)
(* A function of the code that may return an error is an operator whose    *)
(* value is a set: {result}, or {} for the error.                          *)
(***************************************************************************)
EXTENDS Integers, Sequences, FiniteSetsExt, SequencesExt

-----------------------------------------------------------------------------
(* splitCurlCommand: the words                                               *)

\* quote is the quotation mark that is open ("" for none, "$" for the ANSI form);
\* pending is a backslash or $ whose meaning the next atom decides.
Scanning == [quote |-> "", pending |-> "", inToken |-> FALSE, current |-> <<>>, args |-> <<>>,
             failed |-> FALSE]

Fail(s) == [s EXCEPT !.failed = TRUE]
Write(s, atoms) == [s EXCEPT !.current = @ \o atoms, !.inToken = TRUE, !.pending = ""]
Flush(s) == IF ~s.inToken THEN s
            ELSE [s EXCEPT !.args = Append(@, s.current), !.current = <<>>, !.inToken = FALSE]

\* The escapes of the ANSI form: one that is not known keeps its backslash.  "x27"
\* stands for the escapes that give a character by its number.
AnsiEscape(c) ==
    CASE c = "n"   -> <<"NL">>
      [] c = "x27" -> <<"SQ">>
      [] c \in {"SQ", "DQ", "BS"} -> <<c>>
      [] OTHER     -> <<"BS", c>>

\* A bug: the next line of a command starts a word.
AfterBackslashStarts(s, c) ==
    IF s.quote = "$" THEN Write(s, AnsiEscape(c)) ELSE Write(s, IF c = "NL" THEN <<>> ELSE <<c>>)

AfterBackslash(s, c) ==
    CASE s.quote = "$" -> Write(s, AnsiEscape(c))
      [] s.quote # "$" /\ c = "NL" -> [s EXCEPT !.pending = ""]
      [] OTHER -> Write(s, <<c>>)

AfterDollar(s, c) ==
    IF c = "SQ" THEN [s EXCEPT !.quote = "$", !.pending = "", !.inToken = TRUE] ELSE Fail(s)

Unquoted(s, c) ==
    CASE c \in {"SP", "NL"} -> Flush(s)
      [] c \in {"SQ", "DQ"} -> [s EXCEPT !.quote = c, !.inToken = TRUE]
      [] c \in {"$", "BS"}  -> [s EXCEPT !.pending = c]
      [] c \in {"BQ", ";", "|", "&", "<", ">", "(", ")"} -> Fail(s)
      [] OTHER -> Write(s, <<c>>)

Quoted(s, c) ==
    CASE c = (IF s.quote = "$" THEN "SQ" ELSE s.quote) -> [s EXCEPT !.quote = ""]
      [] s.quote = "DQ" /\ c \in {"$", "BQ"}         -> Fail(s)
      [] s.quote \in {"DQ", "$"} /\ c = "BS"         -> [s EXCEPT !.pending = c]
      [] OTHER -> Write(s, <<c>>)

Scan(s, c) ==
    LET scan == CASE s.pending = "BS" -> AfterBackslash(s, c)
                  [] s.pending = "$"  -> AfterDollar(s, c)
                  [] s.pending = ""   -> IF s.quote = "" THEN Unquoted(s, c) ELSE Quoted(s, c)
    IN  IF s.failed THEN s ELSE scan

\* The state in which the text leaves the scanner that was in state s before it.
ScanFrom(s, text) ==
    LET after[i \in 0 .. Len(text)] == IF i = 0 THEN s ELSE Scan(after[i - 1], text[i])
    IN  after[Len(text)]

splitCurlCommand(text) ==
    {Flush(s).args : s \in {end \in {ScanFrom(Scanning, text)} :
                               ~end.failed /\ end.quote = "" /\ end.pending = ""}}

-----------------------------------------------------------------------------
(* Parts of Go's library: strings.Cut, strings.TrimSpace, http.Header        *)

Cut(s, at) ==
    LET cut(n) == [found  |-> n # 0,
                   before |-> IF n = 0 THEN s ELSE SubSeq(s, 1, n - 1),
                   after  |-> IF n = 0 THEN <<>> ELSE SubSeq(s, n + 1, Len(s))]
    IN  cut(SelectInSeq(s, LAMBDA c : c = at))

TrimSpace(s) ==
    LET trim(ink) == IF ink = {} THEN <<>> ELSE SubSeq(s, Min(ink), Max(ink))
    IN  trim({i \in DOMAIN s : s[i] \notin {"SP", "NL"}})

\* In the order in which keys are sorted.
HeaderNames == <<"Accept", "Authorization", "Content-Type", "Cookie", "User-Agent", "X", "X_T">>

\* Letters, digits and hyphens: X_T is a name that HTTP allows and curl.go does not.
isHeaderName(key) == Len(key) = 1 /\ key[1] \in ToSet(HeaderNames) \ {"X_T"}

NoHeaders == [n \in ToSet(HeaderNames) |-> <<>>]
HasHeader(h, name) == h[name] # <<>> /\ h[name][1] # <<>>
DefaultHeader(h, name, value) == IF HasHeader(h, name) THEN h ELSE [h EXCEPT ![name] = <<value>>]

\* HTTPRequestSpec.  auth is <<>> or <<user, password>>; times are seconds.
NoSpec == [method |-> <<"GET">>, url |-> <<>>, headers |-> NoHeaders, body |-> <<>>, data |-> <<>>,
           form |-> <<>>, auth |-> <<>>, cookies |-> <<>>, agent |-> <<>>,
           connect |-> 0, max |-> 0, follow |-> FALSE, insecure |-> FALSE]

-----------------------------------------------------------------------------
(* ParseCURL: the request                                                    *)

\* What an option asks for.
Meaning(option) ==
    CASE option \in {"-X", "--request"}    -> "method"
      [] option \in {"-H", "--header"}     -> "header"
      [] option \in {"-d", "--data"}       -> "--data"
      [] option \in {"--data-raw", "--data-binary", "--data-urlencode", "--json"} -> option
      [] option \in {"-F", "--form"}       -> "form"
      [] option \in {"-b", "--cookie"}     -> "cookie"
      [] option \in {"-u", "--user"}       -> "user"
      [] option \in {"-A", "--user-agent"} -> "agent"
      [] option \in {"-m", "--max-time"}   -> "max"
      [] option = "--connect-timeout"      -> "connect"
      [] option \in {"-k", "--insecure"}   -> "insecure"
      [] option \in {"-L", "--location"}   -> "follow"
      [] option \in {"-s", "-S", "-i", "-v", "--compressed"} -> "quiet"
      [] OTHER -> "unknown"
Flags == {"quiet", "insecure", "follow"}

\* Short options, by their letters.
Dashed == [s |-> "-s", S |-> "-S", i |-> "-i", v |-> "-v", L |-> "-L", k |-> "-k", X |-> "-X",
           H |-> "-H", d |-> "-d", F |-> "-F", b |-> "-b", u |-> "-u", A |-> "-A", m |-> "-m"]
curlShortNoArg   == {"-s", "-S", "-i", "-v", "-L", "-k"}
curlShortWithArg == {"-X", "-H", "-d", "-F", "-b", "-u", "-A", "-m"}

\* "-?" begins a word with a dash that names no option.
IsOption(arg) == arg # <<>> /\ (Meaning(arg[1]) # "unknown" \/ arg[1] \in {"-?", "--"})

\* A cluster as its options, each a word: <<"-s", "X", "PUT">> is -s -XPUT.  A dash
\* at its end is what is left of "--".
Unbundle(arg) ==
    LET letter(i) == IF i = 1 THEN arg[1]
                     ELSE IF arg[i] \in DOMAIN Dashed THEN Dashed[arg[i]]
                     ELSE IF arg[i] = "-" THEN "--" ELSE "-?"
        split(n) == [k \in 1..n |-> <<letter(k)>>] \o
                    IF n = Len(arg) THEN <<>> ELSE <<<<letter(n + 1)>> \o SubSeq(arg, n + 2, Len(arg))>>
    IN  split(Max({k \in 0..Len(arg) : \A i \in 1..k : letter(i) \in curlShortNoArg}))

\* curlOption: the value that is part of the word, as <<value>>, or <<>>.
curlOption(arg) ==
    CASE Len(arg) = 1 -> <<>>
      [] Len(arg) > 1 /\ arg[1] \in curlShortWithArg -> <<Tail(arg)>>
      [] OTHER -> <<SubSeq(arg, 3, Len(arg))>>

Seconds == [n \in {"0", "2", "10", "30", "100000"} |->
              CASE n = "0" -> 0 [] n = "2" -> 2 [] n = "10" -> 10 [] n = "30" -> 30 [] n = "100000" -> 100000]
curlSeconds(v) == {Seconds[n] : n \in {x \in DOMAIN Seconds : v = <<x>>}}

\* need is the option whose value is the next word, methodSet as in ParseCURL.
Parsing == [spec |-> NoSpec, methodSet |-> FALSE, options |-> TRUE, json |-> FALSE, need |-> "",
            failed |-> FALSE]

\* A body makes the request a POST unless a method was given.
WithBody(p, spec) ==
    [p EXCEPT !.spec = IF p.methodSet THEN spec ELSE [spec EXCEPT !.method = <<"POST">>]]
AddData(p, kind, v) ==
    WithBody(p, [p.spec EXCEPT !.data = Append(@, [kind |-> kind, value |-> v])])

\* name=value or name=@file; there must be a name.
parseCurlForm(v) ==
    LET field(c) == IF c.after # <<>> /\ c.after[1] = "@"
                    THEN [name |-> c.before, value |-> <<>>, file |-> Tail(c.after)]
                    ELSE [name |-> c.before, value |-> c.after, file |-> <<>>]
    IN  {field(c) : c \in {x \in {Cut(v, "=")} : x.found /\ x.before # <<>>}}

AddHeader(h, c) == [h EXCEPT ![TrimSpace(c.before)[1]] = Append(@, TrimSpace(c.after))]

\* What an option makes of its value.
Specs(p, what, v) ==
    CASE what = "method"  -> {[p EXCEPT !.spec.method = v, !.methodSet = TRUE]}
      [] what = "header"  -> {[p EXCEPT !.spec.headers = AddHeader(@, c)] :
                                c \in {x \in {Cut(v, ":")} : x.found /\ isHeaderName(TrimSpace(x.before))}}
      [] what = "--json"  -> {[AddData(p, "--data-binary", v) EXCEPT !.json = TRUE]}
      [] what = "form"    -> {WithBody(p, [p.spec EXCEPT !.form = Append(@, f)]) : f \in parseCurlForm(v)}
      [] what = "cookie"  -> {[p EXCEPT !.spec.cookies = Append(@, v)] : x \in {"="} \cap ToSet(v)}
      [] what = "user"    -> {[p EXCEPT !.spec.auth = <<c.before, c.after>>] : c \in {Cut(v, ":")}}
      [] what = "agent"   -> {[p EXCEPT !.spec.agent = v]}
      [] what = "max"     -> {[p EXCEPT !.spec.max = t] : t \in curlSeconds(v)}
      [] what = "connect" -> {[p EXCEPT !.spec.connect = t] : t \in curlSeconds(v)}
      [] OTHER            -> {AddData(p, what, v)}

Take(p, what, v) ==
    LET taken(ps) == IF ps = {} THEN Fail(p) ELSE CHOOSE q \in ps : TRUE
    IN  taken(Specs([p EXCEPT !.need = ""], what, v))

Flag(p, what) ==
    CASE what = "insecure" -> [p EXCEPT !.spec.insecure = TRUE]
      [] what = "follow"   -> [p EXCEPT !.spec.follow = TRUE]
      [] OTHER -> p

Option(p, arg) ==
    LET option(what, v) ==
            CASE what \in Flags /\ v = <<>>    -> Flag(p, what)
              [] what \in Flags /\ v # <<>>    -> Fail(p)
              [] what \notin Flags /\ v = <<>> -> [p EXCEPT !.need = what]
              [] OTHER                         -> Take(p, what, v[1])
    IN  IF ~p.failed /\ arg = <<"--">> THEN [p EXCEPT !.options = FALSE]
        ELSE IF p.failed \/ Meaning(arg[1]) = "unknown" THEN Fail(p)
        ELSE option(Meaning(arg[1]), curlOption(arg))

ParseArg(p, arg) ==
    LET word == CASE p.options /\ arg = <<"--">> -> [p EXCEPT !.options = FALSE]
                  [] p.options /\ arg # <<"--">> /\ IsOption(arg) -> FoldLeft(Option, p, Unbundle(arg))
                  [] OTHER -> IF p.spec.url # <<>> THEN Fail(p) ELSE [p EXCEPT !.spec.url = arg]
    IN  IF p.failed THEN p ELSE IF p.need # "" THEN Take(p, p.need, arg) ELSE word

JSONDefaults(spec) ==
    LET json == <<"application/json">>
    IN  [spec EXCEPT !.headers = DefaultHeader(DefaultHeader(@, "Content-Type", json), "Accept", json)]

ParseCURL(text) ==
    LET complete(p) == /\ ~p.failed /\ p.need = "" /\ p.spec.url # <<>>
                       /\ p.spec.data = <<>> \/ p.spec.form = <<>>
        named == {args \in splitCurlCommand(text) : args # <<>> /\ args[1] = <<"curl">>}
        parsed == {FoldLeft(ParseArg, Parsing, Tail(args)) : args \in named}
    IN  {IF p.json THEN JSONDefaults(p.spec) ELSE p.spec : p \in {q \in parsed : complete(q)}}

-----------------------------------------------------------------------------
(* FormatCURL: the text                                                      *)

\* A bug: a quotation mark in the text ends the quotation.
curlQuoteBare(s) == <<"SQ">> \o s \o <<"SQ">>

curlQuote(s) ==
    LET escaped(c) == IF c = "SQ" THEN <<"SQ", "BS", "SQ", "SQ">> ELSE <<c>>
    IN  <<"SQ">> \o FlattenSeq([i \in DOMAIN s |-> escaped(s[i])]) \o <<"SQ">>

curlDuration(n) == <<CHOOSE t \in DOMAIN Seconds : Seconds[t] = n>>

\* The words of the command: the names of options stand as they are, the values
\* are quoted.
Plain(option) == [atoms |-> <<option>>, quoted |-> FALSE]
Value(v)      == [atoms |-> v, quoted |-> TRUE]
Written(w)    == IF w.quoted THEN curlQuote(w.atoms) ELSE w.atoms

CommandWords(spec) ==
    LET each(option, s) == FlattenSeq([i \in DOMAIN s |-> <<Plain(option), Value(s[i])>>])
        some(option, v) == each(option, IF v = <<>> THEN <<>> ELSE <<v>>)
        flag(option, b) == IF b THEN <<Plain(option)>> ELSE <<>>
        time(option, t) == IF t = 0 THEN <<>> ELSE some(option, curlDuration(t))
        lines(n)  == LET h == spec.headers[n] IN each("-H", [i \in DOMAIN h |-> <<n, ":", "SP">> \o h[i]])
        field(f)  == f.name \o <<"=">> \o IF f.file # <<>> THEN <<"@">> \o f.file ELSE f.value
    IN  some("-X", TrimSpace(spec.method))
        \o FlattenSeq([i \in DOMAIN HeaderNames |-> lines(HeaderNames[i])])
        \o FlattenSeq([i \in DOMAIN spec.data |-> <<Plain(spec.data[i].kind), Value(spec.data[i].value)>>])
        \o (IF spec.data = <<>> THEN some("--data-binary", spec.body) ELSE <<>>)
        \o each("--form", [i \in DOMAIN spec.form |-> field(spec.form[i])])
        \o each("--cookie", spec.cookies)
        \o (IF spec.auth = <<>> THEN <<>> ELSE some("--user", spec.auth[1] \o <<":">> \o spec.auth[2]))
        \o some("--user-agent", spec.agent)
        \o time("--connect-timeout", spec.connect) \o time("--max-time", spec.max)
        \o flag("--insecure", spec.insecure) \o flag("--location", spec.follow)
        \o flag("--", IsOption(spec.url)) \o <<Value(spec.url)>>

CommandText(words) == <<"curl">> \o FlattenSeq([i \in DOMAIN words |-> <<"SP">> \o Written(words[i])])

FormatCURL(spec) ==
    IF \/ spec.url = <<>> \/ (spec.data # <<>> /\ spec.form # <<>>)
       \/ \E i \in DOMAIN spec.form : spec.form[i].name = <<>>
      THEN {} ELSE {CommandText(CommandWords(spec))}
=============================================================================
