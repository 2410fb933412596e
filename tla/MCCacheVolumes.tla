---------------------------- MODULE MCCacheVolumes ----------------------------
(* Constants for model-checking CacheVolumes.                              *)
EXTENDS CacheVolumes, RepoLabels

CONSTANTS main, topic, dotted, dashed, other

\* "foo.bar" and "Foo-bar" get the same label, "baz" one of its own.
NameOf(r) ==
    CASE r = dotted -> <<"f", "o", "o", ".", "b", "a", "r">>
      [] r = dashed -> <<"F", "o", "o", "-", "b", "a", "r">>
      [] OTHER -> <<"b", "a", "z">>

\* (TLC computes a definition once, but what replaces a constant every time.)
SafeLabel == [r \in Repos |-> labelSafe(NameOf(r))]
SafeLabels == SafeLabel

Want(scope, repo, ref) == [scope |-> scope, repo |-> repo, ref |-> ref]

SomeWants ==
    {Want("none", dotted, main), Want("bad", dotted, main), Want("project", dotted, main),
     Want("branch", dotted, main), Want("branch", dashed, topic), Want("branch", other, main)}

\* A branch that only a repository with the same label has, and a whole one.
SomeClears ==
    {[repo |-> dotted, ref |-> topic], [repo |-> dashed, ref |-> NoRef]}

OneMishap == [k \in BudgetKeys |-> IF k = "hangup" THEN 0 ELSE 1]
=============================================================================
