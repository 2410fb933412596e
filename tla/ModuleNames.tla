----------------------------- MODULE ModuleNames -----------------------------
(***************************************************************************)
(* The names scripts give to load and loadFile (cistarlark/starlark.go):   *)
(* how a name and the URL of the script that uses it (its "current working *)
(* URL") become the URL of a module, and which content that URL stands     *)
(* for.  A URL is a record: the host is the sequence of its labels, the    *)
(* path a directory and a file, the query is its ref.                      *)
(***************************************************************************)
EXTENDS Naturals, Sequences

NoHost == <<"">>
NoQuery == "no query"       \* RawQuery = ""; a query that names no ref is ""

URL(scheme, host, dir, file, ref) ==
    [scheme |-> scheme, host |-> host, dir |-> dir, file |-> file, ref |-> ref]

\* The script does not go on: an error it cannot catch, or a Go panic.
Stop(why) == URL(why, NoHost, "", "", NoQuery)
Error == Stop("error")
Missing == Stop("missing")      \* an error that wraps os.ErrNotExist
Panic == Stop("panic")
Stops(u) == u \in {Error, Missing, Panic}

\* A name as url.Parse sees it: how much of a URL it spells out, and the rest.
Name(form, u) == [form |-> form, u |-> u]
Forms == {"absolute", "host", "path", "file", "malformed"}
Absolute(u) == Name("absolute", u)

\* u.Query().Get("ref")
RefOf(u) == IF u.ref = NoQuery THEN "" ELSE u.ref

\* base.Parse(name), for names url.Parse accepts.
Parse(base, n) ==
    CASE n.form = "absolute" -> n.u
      [] n.form = "host" -> [n.u EXCEPT !.scheme = base.scheme]
      [] n.form = "path" -> [n.u EXCEPT !.scheme = base.scheme, !.host = base.host]
      [] n.form = "file" ->
            [n.u EXCEPT !.scheme = base.scheme, !.host = base.host, !.dir = base.dir]

\* The URL load looks a name up under: without a query of its own it is given
\* the query of the script that loads it.  (After a parse error the code goes
\* on with a nil URL.)
resolveModuleName(cwu, n) ==
    IF n.form = "malformed" THEN Panic
    ELSE LET u == Parse(cwu, n)
         IN  IF u.ref = NoQuery THEN [u EXCEPT !.ref = cwu.ref] ELSE u

validateModURL(u) ==
    CASE u.scheme = "github" -> Len(u.host) = 2
      [] u.scheme \in {"builtin", "context"} -> u.host = NoHost
      [] OTHER -> TRUE

\* The organisation and the ref a github URL gets from the script that names
\* it: the ref only within one repository.
Defaulted(base, u) ==
    LET h == IF base.scheme = "github" /\ Len(u.host) = 1
             THEN u.host \o Tail(base.host) ELSE u.host
        r == IF base.scheme = "github" /\ RefOf(u) # "" THEN u.ref
             ELSE IF base.scheme = "github" /\ h = base.host THEN RefOf(base)
             ELSE ""
    IN  IF u.scheme = "github" THEN [u EXCEPT !.host = h, !.ref = r] ELSE u

\* The URL a name is opened under.  The organisation of the script is read
\* from its host before anything else, also when there is none.
parseModURL(base, n) ==
    IF base.scheme = "github" /\ Len(base.host) = 1 THEN Panic
    ELSE IF n.form = "malformed" THEN Error
    ELSE LET u == Defaulted(base, Parse(base, n))
         IN  IF validateModURL(u) THEN u ELSE Error

\* What a URL stands for: the context and the builtins know paths only.
Location(u) == IF u.scheme \in {"context", "builtin"} THEN [u EXCEPT !.ref = NoQuery] ELSE u

\* The module a URL load resolved is opened as: the URL is its own base.
ModOpen(files, u) ==
    LET o == parseModURL(u, Absolute(u))
    IN  IF Stops(o) THEN o
        ELSE IF o.scheme \notin {"github", "https", "builtin", "context"} THEN Error
        ELSE IF Location(o) \in files THEN Location(o) ELSE Missing

\* The content loadFile reads.
builtInLoadFile(files, cwu, n) ==
    LET o == parseModURL(cwu, n)
    IN  IF Stops(o) THEN o
        ELSE IF o.scheme \notin {"github", "https", "context"} THEN Error
        ELSE IF Location(o) \in files THEN Location(o) ELSE Missing
=============================================================================
