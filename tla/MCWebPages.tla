----------------------------- MODULE MCWebPages ------------------------------
\* Instance of WebPages for TLC: three blocks with files, of which the name of
\* deep begins with that of me; one block to create, by either
\* of two clicks; two windows.
EXTENDS WebPages

CONSTANTS me, deep, other

FrameworksOf == [t \in {"server", "database"} |->
                    IF t = "server" THEN {"gin"} ELSE {"postgresql"}]
PortOf == [f \in {"gin", "postgresql"} |-> IF f = "postgresql" THEN 2 ELSE 1]
FilesOf == [b \in {me, deep, other} |-> IF b = me THEN {} ELSE {"p"}]
PathsOf == {<<"a">>, <<"a", "b">>, <<"a", "c">>, <<"b">>, <<"a", "b", "c">>, <<"root">>,
            <<"root", "a">>, <<"root", "a", "b">>, <<"constructor">>, <<"constructor", "a">>}
NameOfTyped == [d \in {"", "Shop", "shop!", "?!", "Blog"} |->
                    CASE d \in {"Shop", "shop!"} -> "shop" [] d = "Blog" -> "blog" [] OTHER -> ""]
=============================================================================
