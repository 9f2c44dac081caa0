--------------------------- MODULE MC_DiscoverFeed ---------------------------
(* Small instances of DiscoverFeed.                                         *)
EXTENDS DiscoverFeedProps, TLC

AllKinds == {StackExchange, Github, HackerNews, Remotive, Dev}
OnlyStackExchange == {StackExchange}

SmallReplies == [status : {200, 302, 403, 408, 429, 503}, usable : BOOLEAN]

Items(n, bad) == [k \in 1 .. n |-> [id |-> k, bad |-> bad]]

\* A full page, an empty one, one whose issues are missing, one with too many
\* invalid items, and one in a wrapper that nobody expects.
SmallPages ==
    {[total |-> 4, wrapped |-> TRUE, items |-> Items(4, {})],
     [total |-> 0, wrapped |-> TRUE, items |-> <<>>],
     [total |-> 1, wrapped |-> TRUE, items |-> <<>>],
     [total |-> 4, wrapped |-> TRUE, items |-> Items(1, {}) \o Items(3, Defects)],
     [total |-> 4, wrapped |-> FALSE, items |-> Items(4, {})]}

Symmetric == Permutations(Requests) \cup Permutations(Instances)
=============================================================================
