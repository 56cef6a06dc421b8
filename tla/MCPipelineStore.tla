------------------------- MODULE MCPipelineStore -------------------------
EXTENDS PipelineStore, TLC

\* Two names share a slug, the third has one of its own.
TheSlugs == {"a", "b"}
TheNames == {"A", "A!", "B"}
TheSlugOf == [n \in TheNames |-> IF n = "B" THEN "b" ELSE "a"]

\* Nothing is claimed of the files once two requests have worked on one slug,
\* but what PipelineStore_proofs proves.
NotRaced == ~raced

ClientsAreAlike == Permutations(Clients)
=============================================================================
