---------------------------- MODULE HttpWorkspace ----------------------------
(***************************************************************************)
(* The HTTP workspace of the two desktop programs: apps/windows/http_ui.go *)
(* with http_workspace_helpers.go, and the last part of apps/macos/main.go *)
(* with its window.  A request is filled in by hand or imported from a     *)
(* curl command, sent (core/http_request.go) or written as a curl command. *)
(*                                                                         *)
(* Sending changes nothing the window keeps but what it shows of the       *)
(* response, so it is an operator, SentRequests: the request that leaves.  *)
(* What it means for the stored session is in PacketCapture.               *)
(***************************************************************************)
EXTENDS CurlCommand

CONSTANTS
    Programs,    \* which of "windows", "macos" exist
    Commands,    \* texts that may be pasted into the curl box
    Pieces,      \* what may be typed there: pieces of a command line, see below
    Bodies, Lines, Methods, URLs,    \* what may be written into the fields
    Files,       \* the files there are: a function from names to contents
    MaxPieces, MaxEdits              \* bounds on what is typed

VARIABLES
    program,     \* which of the two it is
    curl, typed, \* the curl box; <<pieces>> while it holds what was typed, else <<>>
    imported,    \* base of httpWorkspaceFields, the spec of the last import
    fields,      \* the controls
    source,      \* <<spec>> of the import since which nothing was edited, else <<>>
    edits

workspaceVars == <<program, curl, typed, imported, fields, source, edits>>

-----------------------------------------------------------------------------
(* DoHTTPRequest: the request that leaves                                    *)

Escape(s) == LET e(c) == IF c \in {"SP", "NL", "&", "=", "@", ":", "SQ", "DQ", "$"}
                         THEN <<"%", c>> ELSE <<c>>
             IN  FlattenSeq([i \in DOMAIN s |-> e(s[i])])

StartsWith(s, c) == s # <<>> /\ s[1] = c
Joined(s, by) == FlattenSeq([i \in DOMAIN s |-> (IF i = 1 THEN <<>> ELSE by) \o s[i]])

\* A value, or the content of the file it names.
Content(v) ==
    CASE ~StartsWith(v, "@") -> {v}
      [] StartsWith(v, "@") -> {Files[n] : n \in {Tail(v)} \cap DOMAIN Files}

\* name=content or name@file
urlEncodeData(v) ==
    LET cut == CASE "=" \in ToSet(v) -> Cut(v, "=")
                 [] "=" \notin ToSet(v) /\ "@" \in ToSet(v) -> [Cut(v, "@") EXCEPT !.after = <<"@">> \o @]
                 [] OTHER -> [before |-> <<>>, after |-> v]
        name(c) == IF c.before = <<>> THEN <<>> ELSE c.before \o <<"=">>
    IN  UNION {{name(c) \o Escape(t) : t \in Content(c.after)} : c \in {cut}}

dataPartBytes(d) ==
    CASE d.kind = "--data" /\ StartsWith(d.value, "@") ->
           {SelectSeq(t, LAMBDA c : c # "NL") : t \in Content(d.value)}
      [] d.kind = "--data-binary"    -> Content(d.value)
      [] d.kind = "--data-urlencode" -> urlEncodeData(d.value)
      [] OTHER                       -> {d.value}

FormPart(f) ==
    {<<"part">> \o f.name \o <<"=">> \o t : t \in IF f.file = <<>> THEN {f.value} ELSE Content(<<"@">> \o f.file)}

\* The parts one after the other, if all of them can be had.
All(parts, by) ==
    IF {} \in ToSet(parts) THEN {}
    ELSE {Joined([i \in DOMAIN parts |-> CHOOSE t \in parts[i] : TRUE], by)}

\* The body and the type it gives a request that names none.
buildBody(spec) ==
    LET body(kind, s) == [type |-> kind, bytes |-> s]
    IN  CASE (spec.data # <<>> /\ spec.form # <<>>) \/ (spec.data \o spec.form # <<>> /\ spec.body # <<>>) -> {}
          [] spec.data = <<>> /\ spec.form = <<>> -> {body(<<>>, spec.body)}
          [] spec.data = <<>> /\ spec.form # <<>> /\ spec.body = <<>> ->
               {body(<<"multipart">>, t) : t \in All([i \in DOMAIN spec.form |-> FormPart(spec.form[i])], <<>>)}
          [] spec.data # <<>> /\ spec.form = <<>> /\ spec.body = <<>> ->
               {body(<<"urlencoded">>, t) : t \in All([i \in DOMAIN spec.data |-> dataPartBytes(spec.data[i])], <<"&">>)}

\* The headers with those the rest of the request implies; one that is written
\* out is never replaced.
HeadersOf(spec, type) ==
    LET with(h, name, value) == IF value = <<>> THEN h ELSE DefaultHeader(h, name, value)
        basic == IF spec.auth = <<>> THEN <<>> ELSE <<"Basic">> \o spec.auth[1] \o <<":">> \o spec.auth[2]
    IN  with(with(with(with(spec.headers, "Content-Type", type), "User-Agent", spec.agent),
                  "Cookie", Joined(spec.cookies, <<";">>)), "Authorization", basic)

\* Go's client refuses a URL without a scheme and a header of several lines.
Absolute == {<<"http://a">>, <<"http://b">>}

OneLine(h) == \A n \in DOMAIN h : \A i \in DOMAIN h[n] : "NL" \notin ToSet(h[n][i])

DoHTTPRequest(spec) ==
    LET method(m) == CASE m # <<>> -> m
                       [] m = <<>> /\ spec.data \o spec.form \o spec.body # <<>> -> <<"POST">>
                       [] OTHER -> <<"GET">>
    IN  IF spec.url \notin Absolute \/ ~OneLine(spec.headers) THEN {}
        ELSE {[url |-> spec.url, method |-> method(TrimSpace(spec.method)),
               headers |-> HeadersOf(spec, b.type), body |-> b.bytes, max |-> spec.max,
               connect |-> spec.connect, follow |-> spec.follow, insecure |-> spec.insecure]
                : b \in buildBody(spec)}

-----------------------------------------------------------------------------
(* The fields and the request                                                *)

\* httpWorkspaceHeaders and headerLines.
headerLines(h) ==
    LET lines(n) == FlattenSeq([i \in DOMAIN h[n] |-> <<n, ":", "SP">> \o h[n][i] \o <<"NL">>])
    IN  FlattenSeq([i \in DOMAIN HeaderNames |-> lines(HeaderNames[i])])

\* strings.Split at the ends of lines.
NextLine(ls, c) == IF c = "NL" THEN Append(ls, <<>>) ELSE Append(Front(ls), Append(Last(ls), c))
LinesOf(text)   == FoldLeft(NextLine, <<<<>>>>, text)

\* A line with a name and a colon is a header.
HeaderIn(line) == Cut(TrimSpace(line), ":")
IsHeader(line) == HeaderIn(line).found /\ Len(TrimSpace(HeaderIn(line).before)) = 1

\* The headers among the lines; the text is valid if the other lines are blank.
AddLine(h, line) == IF IsHeader(line) THEN AddHeader(h, HeaderIn(line)) ELSE h
HeadersIn(text)  == FoldLeft(AddLine, NoHeaders, LinesOf(text))
ValidHeaders(text) == \A line \in ToSet(LinesOf(text)) : IsHeader(line) \/ TrimSpace(line) = <<>>

\* The limit of both times, in seconds.
MaxSeconds == 86400

\* What the window takes for a request; the blanks around the URL are dropped.
Acceptable(f) ==
    /\ TrimSpace(f.url) \in Absolute /\ ValidHeaders(f.headers)
    /\ f.max <= MaxSeconds /\ f.connect <= MaxSeconds

\* A bug: the spec of the import is forgotten.
WindowsSpecFromFields(f, base) ==
    IF ~Acceptable(f) THEN {}
    ELSE {[NoSpec EXCEPT !.url = TrimSpace(f.url), !.method = f.method, !.headers = HeadersIn(f.headers),
                         !.max = f.max, !.connect = f.connect, !.follow = f.follow, !.insecure = f.insecure,
                         !.data = IF f.preserve THEN base.data ELSE <<>>,
                         !.form = IF f.preserve THEN base.form ELSE <<>>,
                         !.body = IF f.preserve THEN base.body ELSE f.body]}

\* httpWorkspaceFields.spec
WindowsSpec(f, base) ==
    LET method(m) == IF m = <<>> THEN <<"GET">> ELSE m
    IN  IF ~Acceptable(f) THEN {}
        ELSE {[base EXCEPT !.url = TrimSpace(f.url), !.method = method(TrimSpace(f.method)),
                           !.headers = HeadersIn(f.headers), !.max = f.max, !.connect = f.connect, !.follow = f.follow, !.insecure = f.insecure,
                           !.data = IF f.preserve THEN @ ELSE <<>>, !.form = IF f.preserve THEN @ ELSE <<>>,
                           !.body = IF f.preserve THEN @ ELSE f.body]}

\* uiSpecToRequest: parseHeaderLines skips what is not a header.
MacSpec(f) ==
    {[NoSpec EXCEPT !.url = f.url, !.method = f.method, !.body = f.body, !.headers = HeadersIn(f.headers),
                    !.max = f.max, !.connect = f.connect, !.follow = f.follow, !.insecure = f.insecure]}

Request == IF program = "windows" THEN WindowsSpec(fields, imported) ELSE MacSpec(fields)

\* What the button that sends, and the one that runs a curl command, let leave.
SentRequests == UNION {DoHTTPRequest(s) : s \in Request}
Run(text)    == UNION {DoHTTPRequest(s) : s \in ParseCURL(text)}

-----------------------------------------------------------------------------
(* Pieces of a command line, and what they are to a shell.  A piece has the  *)
(* quotation it is in ("" for none, "$" for the ANSI form) and units, each a *)
(* text and the atoms it stands for.                                         *)

Opening(q) == IF q = "" THEN <<>> ELSE IF q = "$" THEN <<"$", "SQ">> ELSE <<q>>
Closing(q) == IF q = "" THEN <<>> ELSE IF q = "$" THEN <<"SQ">> ELSE <<q>>

TextOf(p) == Opening(p.quote) \o FlattenSeq([i \in DOMAIN p.units |-> p.units[i].text]) \o Closing(p.quote)
AddsOf(p) == FlattenSeq([i \in DOMAIN p.units |-> p.units[i].adds])

\* The atoms that do not stand for themselves.
Operators == {"BQ", ";", "|", "&", "<", ">", "(", ")"}
Meta(q) == CASE q = ""   -> {"SP", "NL", "SQ", "DQ", "$", "BS"} \cup Operators
             [] q = "SQ" -> {"SQ"}
             [] q = "DQ" -> {"DQ", "$", "BQ", "BS"}
             [] q = "$"  -> {"SQ", "BS"}

\* What a backslash and the atom behind it stand for; between double quotes it is
\* an escape before few atoms only, and none between single ones.
Escaped(q, c) ==
    CASE q = "$" /\ c = "n"   -> <<"NL">>
      [] q = "$" /\ c = "x27" -> <<"SQ">>
      [] q = "$" /\ c \notin {"n", "x27", "SQ", "DQ", "BS"} -> <<"BS", c>>
      [] q = "DQ" /\ c = "NL" -> <<>>
      [] OTHER -> <<c>>
Escapes(q, c) ==
    \/ q = "" /\ c # "NL"
    \/ q = "DQ" /\ c \in {"$", "BQ", "DQ", "BS", "NL"}
    \/ q = "$"

IsUnit(q, u) ==
    \/ Len(u.text) = 1 /\ u.text[1] \notin Meta(q) /\ u.adds = u.text
    \/ Len(u.text) = 2 /\ u.text[1] = "BS" /\ Escapes(q, u.text[2]) /\ u.adds = Escaped(q, u.text[2])

\* An expansion, or an operator of the shell.
NeedsShell(q, u) ==
    \/ Len(u.text) = 1 /\ u.text[1] \in (IF q = "" THEN Operators ELSE {"BQ"})
    \/ Len(u.text) = 2 /\ u.text[1] = "$" /\ u.text[2] \notin Meta("")

IsPiece(p) ==
    /\ p.units \in Seq([text : Seq(STRING), adds : Seq(STRING)])
    /\ CASE p.is = "word" ->
              /\ p.quote \in {"", "SQ", "DQ", "$"} /\ (p.quote = "" => p.units # <<>>)
              /\ \A i \in 1 .. Len(p.units) : IsUnit(p.quote, p.units[i])
         [] p.is = "shell" ->
              /\ p.quote \in {"", "DQ"} /\ p.units # <<>>
              /\ NeedsShell(p.quote, p.units[Len(p.units)])
              /\ \A i \in 1 .. Len(p.units) - 1 : IsUnit(p.quote, p.units[i])
         [] p.is = "space" -> p.quote = "" /\ TextOf(p) \in {<<"SP">>, <<"NL">>}
         [] p.is = "continued" -> p.quote = "" /\ TextOf(p) = <<"BS", "NL">>
         [] OTHER -> FALSE

ASSUME PiecesAssumption == \A p \in Pieces : IsPiece(p)
ASSUME TextsAssumption == Commands \cup Bodies \cup Lines \cup Methods \cup URLs \subseteq Seq(STRING)

-----------------------------------------------------------------------------
(* The windows                                                               *)

Blank == [method |-> <<"GET">>, url |-> <<"http://a">>, headers |-> <<>>, body |-> <<>>,
          preserve |-> FALSE, max |-> 30, connect |-> 10, follow |-> TRUE, insecure |-> FALSE]

WorkspaceInit ==
    /\ program \in Programs
    /\ curl = <<>> /\ typed = <<<<>>>>
    /\ imported = NoSpec /\ fields = Blank /\ source = <<>>
    /\ edits = 0

Paste(c) ==
    /\ curl' = c /\ typed' = <<>>
    /\ UNCHANGED <<program, imported, fields, source, edits>>

Type(p) ==
    /\ typed # <<>> /\ Len(typed[1]) < MaxPieces /\ edits = 0
    /\ typed' = <<Append(typed[1], p)>> /\ curl' = curl \o TextOf(p)
    /\ UNCHANGED <<program, imported, fields, source, edits>>

\* The text of a structured body is shown and cannot be edited.
ImportWindows ==
    /\ program = "windows"
    /\ \E s \in ParseCURL(curl) :
         /\ imported' = s /\ source' = <<s>>
         /\ LET structured == s.data # <<>> \/ s.form # <<>>
            IN fields' = [method |-> s.method, url |-> s.url, headers |-> headerLines(s.headers),
                          body |-> IF structured THEN <<"JSON">> ELSE s.body, preserve |-> structured,
                          max |-> s.max, connect |-> s.connect, follow |-> s.follow, insecure |-> s.insecure]
    /\ UNCHANGED <<program, curl, typed, edits>>

\* The window has the methods of its menu, and one text for the body.
MacMethods == {<<"GET">>, <<"POST">>, <<"PUT">>}

ImportMac ==
    /\ program = "macos"
    /\ \E s \in ParseCURL(curl) :
         /\ source' = <<s>>
         /\ fields' = [fields EXCEPT !.method  = IF s.method \in MacMethods THEN s.method ELSE @,
                                     !.url = s.url, !.headers = headerLines(s.headers),
                                     !.body = Joined([i \in DOMAIN s.data |-> s.data[i].value], <<"&">>),
                                     !.max     = IF s.max > 0 THEN s.max ELSE @,
                                     !.connect = IF s.connect > 0 THEN s.connect ELSE @,
                                     !.follow = s.follow, !.insecure = s.insecure]
    /\ UNCHANGED <<program, curl, typed, imported, edits>>

\* Bounded, and not while the curl box holds what was typed: a text is pasted or
\* generated before the fields are edited.
Edit(f) ==
    /\ edits < MaxEdits /\ edits' = edits + 1
    /\ typed \in {<<>>, <<<<>>>>}
    /\ fields' = f /\ source' = <<>>
    /\ UNCHANGED <<program, curl, typed, imported>>

EditBody    == ~fields.preserve /\ \E b \in Bodies : Edit([fields EXCEPT !.body = b])
EditHeaders == \E l \in Lines : Edit([fields EXCEPT !.headers = @ \o l \o <<"NL">>])
EditMethod  == \E m \in Methods : (program = "windows" \/ m \in MacMethods) /\ Edit([fields EXCEPT !.method = m])
EditURL     == \E u \in URLs : Edit([fields EXCEPT !.url = u])

\* OnCheckedChanged of the box that keeps the imported body.
TogglePreserve ==
    /\ program = "windows"
    /\ Edit([fields EXCEPT !.preserve = ~@, !.body = IF fields.preserve THEN <<>> ELSE @])

Generate ==
    /\ \E s \in Request : curl' \in FormatCURL(s)
    /\ typed' = <<>>
    /\ UNCHANGED <<program, imported, fields, source, edits>>

WorkspaceNext ==
    \/ \E c \in Commands : Paste(c)
    \/ \E p \in Pieces : Type(p)
    \/ ImportWindows \/ ImportMac
    \/ EditBody \/ EditHeaders \/ EditMethod \/ EditURL \/ TogglePreserve
    \/ Generate

WorkspaceSpec == WorkspaceInit /\ [][WorkspaceNext]_workspaceVars

-----------------------------------------------------------------------------
(* Properties                                                                *)

\* What a shell makes of the pieces one after the other: a piece adds to the word,
\* separates words, does nothing, or needs a shell.
Unread == [words |-> <<>>, word |-> <<>>, in |-> FALSE]
Words(r) == IF r.in THEN Append(r.words, r.word) ELSE r.words
Read(r, p) ==
    CASE p.is = "word"  -> [r EXCEPT !.word = @ \o AddsOf(p), !.in = TRUE]
      [] p.is = "space" -> [Unread EXCEPT !.words = Words(r)]
      [] OTHER -> r

ReadAll(pieces) ==
    LET after[i \in 0 .. Len(pieces)] == IF i = 0 THEN Unread ELSE Read(after[i - 1], pieces[i])
    IN  after[Len(pieces)]

Reading(pieces) ==
    IF \E i \in DOMAIN pieces : pieces[i].is = "shell" THEN {} ELSE {Words(ReadAll(pieces))}

\* splitCurlCommand: a text typed of bare words, escapes, the three quotations and
\* continued lines is split into the words a shell would pass to curl, whichever
\* follow each other without a space; a text that needs a shell is refused.
TextMeansItsWords ==
    typed # <<>> => splitCurlCommand(curl) = Reading(typed[1])

\* What the one text and the menu of the macOS window can hold of a request.
MacHolds(s) ==
    /\ s.method \in MacMethods /\ s.form = <<>> /\ s.auth = <<>> /\ s.cookies = <<>> /\ s.agent = <<>>
    /\ s.data # <<>> => HasHeader(s.headers, "Content-Type")
    /\ \A i \in DOMAIN s.data : s.data[i].kind # "--data-urlencode"
                                /\ (StartsWith(s.data[i].value, "@") => s.data[i].kind = "--data-raw")
    /\ OneLine(s.headers)

\* What the fields of the Windows window can hold of a request: a blank -X stands
\* for POST if there is a body and is a GET in the window, a header of several lines
\* becomes several, a URL loses the blanks around it, and a time over the limit is
\* refused by the window alone.
WindowsHolds(s) ==
    /\ TrimSpace(s.method) # <<>> /\ OneLine(s.headers) /\ TrimSpace(s.url) = s.url
    /\ s.max <= MaxSeconds /\ s.connect <= MaxSeconds

\* A command that was imported and not edited is sent as it says, or refused where
\* the command itself would be, if its request is one the window can hold:
\* authentication, cookies, files, kinds of data and flags that no field shows
\* included.  On macOS the times of an earlier request stay.
ImportIsSent ==
    source # <<>> =>
        CASE program = "windows" /\ WindowsHolds(source[1]) ->
               SentRequests = DoHTTPRequest(source[1])
          [] program = "macos" /\ MacHolds(source[1]) ->
               LET untimed(rs) == {[r EXCEPT !.max = 0, !.connect = 0] : r \in rs}
               IN  untimed(SentRequests) = untimed(DoHTTPRequest(source[1]))
          [] OTHER -> TRUE

\* The curl options for a body that was typed read a file or imply a form's type,
\* and curl.go refuses headers that the fields accept.
Expressible(s) ==
    /\ s.body # <<>> => ~StartsWith(s.body, "@") /\ HasHeader(s.headers, "Content-Type")
    /\ s.headers["X_T"] = <<>>

\* Whatever was imported, edited and generated before, the command that the fields
\* generate is one that can be imported again, and running it sends the request
\* that sending the fields does: FormatCURL quotes every value so that ParseCURL
\* takes it for a value.
GeneratedCommandIsTheRequest ==
    \A s \in Request : Expressible(s) => \A text \in FormatCURL(s) : Run(text) = DoHTTPRequest(s)
=============================================================================
