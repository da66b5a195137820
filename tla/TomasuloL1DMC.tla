----------------------------- MODULE TomasuloL1DMC -----------------------------
(* Small instances of the cycle loop with its data cache: two memory units,   *)
(* so that one access may be pending when another asks, and blocks of one     *)
(* word in two sets, so that even and odd addresses compete.                  *)
EXTENDS TomasuloL1D, TomasuloMC

TwoMemoryUnits == [u \in FUTypes |-> IF u = "MEM" THEN 2 ELSE 1]

\* Loads and stores whose addresses share a set or differ, one of them late, and
\* branches resolved early or late.
CachePool ==
    {R("MUL", 1, 2, 2), Ld(1, 0, 0), Ld(2, 2, 2), Sd(2, 0, 2), Sd(0, 0, 1),
     Branch("BNE", 0, 2, 2), Branch("BNE", 1, 2, 2)}

\* Stores and loads of one word through two base registers, one of them late.
AliasPool ==
    {R("MUL", 1, 2, 2), Sd(1, 0, 2), Sd(2, 2, 0), Ld(1, 0, 2), Ld(2, 0, 1),
     Branch("BNE", 0, 2, 2)}

\* A loop over two conflicting blocks; misses on the wrong path, one of them in
\* the way of a block the right path needs, one evicting a dirty line.
ConflictPrograms ==
    { <<Ld(1, 0, 2), Sd(1, 2, 2), AddI(2, 2, -1), Branch("BNE", 2, 0, 0)>>,
      <<R("MUL", 1, 2, 2), Branch("BNE", 1, 0, 4), Ld(1, 2, 0), Ld(1, 2, 2), Ld(2, 0, 0)>>,
      <<Sd(2, 0, 0), R("MUL", 1, 2, 2), Branch("BNE", 1, 0, 4), Ld(1, 2, 0), Ld(2, 0, 0)>> }

\* A slow head keeps two stores of a word in the queue until the load of it starts.
ForwardingPrograms ==
    { <<R("FDIV", 1, 2, 2), Sd(0, 0, 2), Sd(2, 0, 2), Ld(1, 0, 2)>> }

CachePrograms ==
    ConflictPrograms \cup ForwardingPrograms
      \cup PoolPrograms \cup ProgramsOf(AliasPool)
=============================================================================
