------------------------------- MODULE MCLists -------------------------------
EXTENDS Lists, Sequences
MCReleases == << [major |-> 1, minor |-> 0, tokens |-> {"a", "b"}],
                 [major |-> 1, minor |-> 1, tokens |-> {"a"}],
                 [major |-> 2, minor |-> 0, tokens |-> {"a"}] >>
MCNewest == [u \in Urls |-> IF u = "x" THEN 3 ELSE 1]
MCDefaults == << {"x"}, {"x", "y"}, {"y"} >>
=============================================================================
