---------------------------- MODULE MCRootVectCtrl ----------------------------
EXTENDS RootVectCtrl

\* Three files, one of them under two names, and malformed paths: no dot, a name
\* too long, an extension too long, no letter before it.
a == 3
Rest ==
    {<<a, Dot, a>>, <<a, Space, Dot, a>>, <<a, a, Dot>>, <<Dot, Dot>>,
     <<a, a>>, <<a, a, a, Dot, a>>, <<a, Dot, a, a>>}
MCPaths ==
    [rooted : {TRUE}, rest : Rest] \cup {[rooted |-> FALSE, rest |-> <<a, Dot, a>>]}

\* Those that are looked up name a file.
MCAsked == {p \in MCPaths : FileOf[p] # NoFile}
=============================================================================
