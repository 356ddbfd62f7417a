------------------------------ MODULE MCSets ------------------------------
(* Two sets whose components overlap, from repositories whose URLs end alike.   *)
EXTENDS Sets, TLC

CONSTANTS a, b

Md == [kind |-> "claude_md", name |-> "CLAUDE.md"]
Style == [kind |-> "rule", name |-> "style"]
Review == [kind |-> "skill", name |-> "review"]
Search == [kind |-> "mcp", name |-> "search"]

MCComponents == {Md, Style, Review, Search}

Token == [known |-> "profile", required |-> TRUE, default |-> FALSE]

Version(n, comps, lacking, env) == [name |-> n, components |-> comps, lacking |-> lacking, env |-> env]

\* A repository whose second version drops components and wants a variable and whose third is
\* malformed, a fork with another name whose rule is missing, and a local directory.
MCManifest ==
    [acme |-> <<Version("base", <<Md, Style>>, {}, {}), Version("base", <<Style, Review>>, {}, {Token}), Malformed>>,
     fork |-> <<Version("team", <<Style, Review, Search>>, {Style, Search}, {})>>,
     here |-> <<Version("team", <<Md, Review>>, {}, {})>>]

MCUserFiles == {Style}

MCDirName == [u \in Sources |-> "team"]

MCSymmetry == Permutations({a, b})
===========================================================================
