--------------------------- MODULE MCModuleLoader ----------------------------
(* Worlds for model-checking ModuleLoader.                                 *)
EXTENDS ModuleLoader, TLC

CONSTANTS t1, t2

Ctx(file) == URL("context", NoHost, "/", file, NoQuery)
Repo(org, file, ref) == URL("github", <<"lib", org>>, "/", file, ref)

Use(op, form, u, optional) == [op |-> op, name |-> Name(form, u), optional |-> optional]
Loads(u) == Use("load", "absolute", u, FALSE)
Beside(file) == Use("load", "file", Ctx(file), FALSE)
Reads(u, optional) == Use("loadFile", "absolute", u, optional)

\* Lists of at most two distinct imports.
Lists(S) == {<<>>} \cup {<<a>> : a \in S} \cup {p \in S \X S : p[1] # p[2]}
Import(files) == {Beside(f) : f \in files}

\* Files of the context that import one another as g says, and two scripts.
Graph(g, m1, m2) ==
    [files |-> [u \in {Ctx(f) : f \in {"a", "b", "c", "m1", "m2"}} |->
                  CASE u.file = "m1" -> m1
                    [] u.file = "m2" -> m2
                    [] OTHER -> g[u.file]],
     main |-> (t1 :> Ctx("m1")) @@ (t2 :> Ctx("m2"))]

\* One script, and files that may import themselves and one another.
OneScript ==
    {Graph([a |-> a, b |-> b, c |-> c], <<Beside("a"), Beside("b")>>, <<>>) :
        a \in Lists(Import({"a", "b", "c"})), b \in Lists(Import({"a", "b", "c"})),
        c \in {<<>>} \cup {<<i>> : i \in Import({"a", "b", "c"})}}

\* Two scripts, and files that import later ones only; or one another.
TwoScripts ==
    {Graph([a |-> a, b |-> b, c |-> <<>>], m1, m2) :
        a \in Lists(Import({"b", "c"})), b \in Lists(Import({"c"})),
        m1 \in {<<Beside("a")>>, <<Beside("b"), Beside("a")>>, <<Beside("c"), Beside("b")>>},
        m2 \in {<<Beside("a")>>, <<Beside("b"), Beside("a")>>}}
      \cup {Graph([a |-> <<Beside("b")>>, b |-> <<Beside("a")>>, c |-> <<>>],
                  <<Beside("a")>>, <<Beside("b")>>)}

\* Repositories, hosts and builtins, with relative names, refs and files.
Far == URL("https", <<"web", "org">>, "/", "w", NoQuery)
Builtin == URL("builtin", NoHost, "/", "re", NoQuery)
Library(m1, m2) ==
    [files |-> (Ctx("m1") :> m1) @@ (Ctx("m2") :> m2)
               @@ (Repo("org", "x", "v1") :> <<Beside("y")>>)
               @@ (Repo("org", "y", "v1") :> <<Reads(URL("github", <<"lib">>, "/", "data", NoQuery), FALSE)>>)
               @@ (Repo("org", "data", "v1") :> <<>>)
               @@ (Repo("org", "x", "") :> <<Beside("absent")>>)
               @@ (Far :> <<Loads(Builtin), Reads(Far, FALSE)>>)
               @@ (Builtin :> <<>>),
     main |-> (t1 :> Ctx("m1")) @@ (t2 :> Ctx("m2"))]

Uses ==
    {Loads(Repo("org", "x", "v1")), Loads(Repo("org", "x", NoQuery)), Loads(Far), Loads(Builtin),
     Loads(URL("github", <<"lib">>, "/", "x", NoQuery)),
     Loads(URL("http", <<"web", "org">>, "/", "w", NoQuery)),
     Loads(URL("context", <<"host">>, "/", "a", NoQuery)),
     Use("load", "malformed", Far, FALSE),
     Use("load", "host", Repo("org", "x", "v1"), FALSE),
     Use("load", "path", Ctx("m2"), FALSE),
     Reads(Far, FALSE), Reads(Ctx("absent"), TRUE), Reads(Ctx("absent"), FALSE), Reads(Builtin, TRUE)}

\* What two scripts may both load, from somewhere that may not answer.
Common == {Loads(Repo("org", "x", "v1")), Loads(Repo("org", "x", NoQuery)), Loads(Far)}

Libraries ==
    {Library(<<u, v>>, <<>>) : u \in Uses, v \in Uses}
      \cup {Library(<<u>>, <<v>>) : u \in Common, v \in Common}

AllWorlds == OneScript \cup TwoScripts \cup Libraries
=============================================================================
