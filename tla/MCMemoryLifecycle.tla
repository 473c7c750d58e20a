------------------------- MODULE MCMemoryLifecycle -------------------------
EXTENDS MemoryLifecycle, TLC

\* A memory from before this run, returned to ten times, and one on its way
\* through the tiers that lies below the subconscious line.
MCExisting ==
  {[score |-> 900, status |-> "active", tier |-> "long_term", keep |-> FALSE,
    refs |-> 10, created |-> 0, decay |-> Never],
   [score |-> 360, status |-> "subconscious", tier |-> "t2", keep |-> FALSE,
    refs |-> 0, created |-> 0, decay |-> 0]}

\* Only safety is checked with it.
MCSymmetry == Permutations(Items)
=============================================================================
