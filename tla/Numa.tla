-------------------------------- MODULE Numa --------------------------------
(****************************************************************************)
(* NUMA allocation (src/drivers/numa.c): a counter of free memory per node, *)
(* a policy that says which nodes a request may be charged to, and one      *)
(* pager for all nodes.  Sizes are in pages: the nodes have whole pages, so *)
(* that rounding a request up does not change its comparison with a         *)
(* counter.                                                                 *)
(*                                                                          *)
(* What the code does: the pages come from anywhere, and numa_free credits   *)
(* EVERY node, so that the counters drift upwards.                          *)
(*                                                                          *)
(* External: paging_alloc_pages, which has Total pages in all and may find  *)
(* no run of more than one page among those that are free.                  *)
(****************************************************************************)
EXTENDS Integers, Functions

CONSTANTS
    NumNodes,    \* num_nodes
    Total,       \* total_memory of each node
    Distance,    \* distance_matrix
    MaxSize,     \* bound: pages of a request
    CAP          \* bound: a counter that would pass it is not credited again

Nodes    == 0 .. NumNodes - 1
Policies == {"default", "bind", "interleave", "preferred"}
Sizes    == 1 .. MaxSize

VARIABLES
    free,        \* free_memory of each node
    policy,      \* allocation_policy
    mask,        \* interleave_mask, as a set of nodes
    current,     \* current_node
    nextNode,    \* the static next_node
    held,        \* blocks in use: how many of a size are charged to a node
    refused      \* history: the size just refused for the counters although the
                 \* pager had the pages, else 0
numaVars == <<free, policy, mask, current, nextNode, held, refused>>

Pages      == SumFunctionOnSet(Total, Nodes)
Charged(n) == SumFunctionOnSet([s \in Sizes |-> s * held[<<n, s>>]], Sizes)
InUse      == SumFunctionOnSet([n \in Nodes |-> Charged(n)], Nodes)
PagesFree  == Pages - InUse

TypeOK ==
    /\ free \in [Nodes -> 0 .. CAP]
    /\ policy \in Policies
    /\ mask \subseteq Nodes
    /\ current \in Nodes /\ nextNode \in Nodes
    /\ held \in [Nodes \X Sizes -> 0 .. Pages]
    /\ refused \in 0 .. MaxSize

Init ==
    /\ free = [n \in Nodes |-> Total[n]]
    /\ policy = "default" /\ mask = {0} /\ current = 0 /\ nextNode = 0
    /\ held = [x \in Nodes \X Sizes |-> 0]
    /\ refused = 0

----------------------------------------------------------------------------

SetPolicy ==
    /\ policy' \in Policies
    /\ refused' = 0
    /\ UNCHANGED <<free, mask, current, nextNode, held>>

SetMask ==
    /\ mask' \in SUBSET Nodes
    /\ refused' = 0
    /\ UNCHANGED <<free, policy, current, nextNode, held>>

\* numa_set_current_node ignores a number that is not a node's.
SetCurrent ==
    /\ current' \in Nodes
    /\ refused' = 0
    /\ UNCHANGED <<free, policy, mask, nextNode, held>>

\* The nodes a request may be charged to: numa_alloc_preferred looks at the
\* local node and at those at a distance from 11 to 254, numa_alloc_interleaved
\* at those of the mask.
Candidates ==
    CASE policy = "bind"       -> {current}
      [] policy = "interleave" -> mask
      [] OTHER -> {current} \cup {n \in Nodes : Distance[current][n] \in 11 .. 254}

\* Which of two candidates is asked first.
Rank(n) ==
    IF policy = "interleave" THEN (n + NumNodes - nextNode) % NumNodes
    ELSE IF n = current THEN 0 ELSE NumNodes * Distance[current][n] + n

\* numa_alloc_on_node tests the counter, and then asks the pager, which gives
\* the same answer to every candidate that passes.
WithRoom(size) == {n \in Candidates : free[n] >= size}

First(S) == CHOOSE m \in S : \A k \in S : Rank(m) <= Rank(k)

Alloc ==
    \E size \in Sizes, fragmented \in BOOLEAN :
        LET given == size <= PagesFree /\ ~(fragmented /\ size > 1)
        IN  \/ /\ given /\ WithRoom(size) # {}
               /\ LET n == First(WithRoom(size))
                  IN  /\ free' = [free EXCEPT ![n] = @ - size]
                      /\ held' = [held EXCEPT ![<<n, size>>] = @ + 1]
                      /\ nextNode' = IF policy = "interleave"
                                     THEN (n + 1) % NumNodes ELSE nextNode
               /\ refused' = 0
               /\ UNCHANGED <<policy, mask, current>>
            \/ /\ ~given \/ WithRoom(size) = {}
               /\ refused' = IF given THEN size ELSE 0
               /\ UNCHANGED <<free, policy, mask, current, nextNode, held>>

\* numa_free.  (As mutated: only the current node is credited.)
FreeCurrent ==
    \E n \in Nodes, size \in Sizes :
        /\ held[<<n, size>>] > 0
        /\ free[current] + size <= CAP
        /\ held' = [held EXCEPT ![<<n, size>>] = @ - 1]
        /\ free' = [free EXCEPT ![current] = @ + size]
        /\ refused' = 0
        /\ UNCHANGED <<policy, mask, current, nextNode>>
Free ==
    \E n \in Nodes, size \in Sizes :
        /\ held[<<n, size>>] > 0
        /\ \A m \in Nodes : free[m] + size <= CAP
        /\ held' = [held EXCEPT ![<<n, size>>] = @ - 1]
        /\ free' = [m \in Nodes |-> free[m] + size]
        /\ refused' = 0
        /\ UNCHANGED <<policy, mask, current, nextNode>>

Next == SetPolicy \/ SetMask \/ SetCurrent \/ Alloc \/ Free

----------------------------------------------------------------------------
(* Properties *)

\* The counters may say too much, never too little: a request that the pager
\* could have served is refused only if no node its policy allows has that much
\* memory not charged to it.
RefusedWhenFull ==
    refused > 0 => \A n \in Candidates : Charged(n) + refused > Total[n]

Spec == Init /\ [][Next]_numaVars
=============================================================================
