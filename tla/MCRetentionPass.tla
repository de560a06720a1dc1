-------------------------- MODULE MCRetentionPass --------------------------
EXTENDS RetentionPass

\* Periods of 1 and 2 time units stand for a shorter and a longer calendar
\* period; limits 0 to 2 let a rule be off, keep one period or several.
MCPolicies ==
    {[keepLast |-> k, maxAge |-> a, buckets |-> b] :
        k \in {0, 1, 2}, a \in {0, 1}, b \in {<<0, 0>>, <<0, 1>>, <<0, 2>>, <<2, 0>>}}
=============================================================================
