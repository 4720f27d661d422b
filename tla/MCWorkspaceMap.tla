--------------------------- MODULE MCWorkspaceMap ---------------------------
EXTENDS WorkspaceProps, TLC

CONSTANTS main, b1, b2, r1, t1, t2, hi

\* The names of branches other than the default one are interchangeable.
Symmetry == Permutations(Branches \ {Main})

\* The bound on what WorkspaceConverge explores: while the repository is empty,
\* a behaviour with a tool call has no sessions of another tenant.
Modest == budget["tools"] = MaxTools \/ (\A r \in Repos : head[r] # None)
            \/ (\A t \in Tenants \ {Default} : sessions[t] = {})
=============================================================================
