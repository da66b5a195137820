----------------------------- MODULE Configuration -----------------------------
(* The configuration of a run: the defaults, the # ARCH_ directives of the    *)
(* program file, then the overrides of --arch-config.  The server checks the  *)
(* overrides it forwards against a table of its own.                          *)
EXTENDS Integers, Sequences

CONSTANT Malformed      \* a value that is not an integer

RsCapacities ==
    {"intRsCapacity", "mulRsCapacity", "fpAddRsCapacity", "fpMulRsCapacity",
     "loadBufferCapacity", "storeBufferCapacity"}
UnitCounts ==
    {"intFuCount", "mulFuCount", "memFuCount", "fpAddPipelineCount", "fpMulPipelineCount"}
PipelineDepths == {"fpAddPipelineDepth", "fpMulPipelineDepth"}
OpLatencies ==
    {"intLatency", "mulLatency", "loadLatency", "storeLatency", "fpAddLatency",
     "fpMulLatency", "fpDivLatency"}
L1DKeys == {"l1dEnabled", "l1dNumSets", "l1dBlockSizeWords", "l1dHitLatency", "l1dMissPenalty"}
Keys == {"robCapacity"} \cup RsCapacities \cup UnitCounts \cup PipelineDepths
          \cup OpLatencies \cup L1DKeys

\* ArchitectureConfig: the defaults.
DefaultConfig ==
    [k \in Keys |->
        CASE k \in {"robCapacity", "fpMulRsCapacity", "fpAddPipelineDepth", "fpAddLatency",
                    "l1dBlockSizeWords"} -> 4
          [] k \in {"mulFuCount", "fpAddPipelineCount", "fpMulPipelineCount", "intLatency",
                    "l1dHitLatency"} -> 1
          [] k \in {"fpMulPipelineDepth", "fpMulLatency"} -> 7
          [] k = "mulLatency" -> 3
          [] k = "l1dEnabled" -> 0
          [] k = "l1dNumSets" -> 8
          [] k \in {"fpDivLatency", "l1dMissPenalty"} -> 10
          [] OTHER -> 2]

\* The simulator's table (ArchitectureConfig.cpp).
configRanges ==
    [k \in Keys |->
        CASE k = "robCapacity" -> 1 .. 128
          [] k \in RsCapacities \cup OpLatencies -> 1 .. 64
          [] k \in UnitCounts -> 1 .. 16
          [] k \in PipelineDepths -> 1 .. 32
          [] k = "l1dEnabled" -> 0 .. 1
          [] k = "l1dNumSets" -> 1 .. 4096
          [] k = "l1dBlockSizeWords" -> 1 .. 1024
          [] k = "l1dHitLatency" -> 1 .. 10000
          [] k = "l1dMissPenalty" -> 0 .. 10000]

\* fault: a penalty of zero is taken for a missing value
RangesWithoutZeroPenalty == [configRanges EXCEPT !["l1dMissPenalty"] = 1 .. 10000]
\* The server's table (server/app.py).
ARCHITECTURE_CONFIG_RANGES ==
    [k \in Keys |->
        CASE k \in {"l1dHitLatency"} -> 1 .. 10000
          [] k \in {"l1dMissPenalty"} -> 0 .. 10000
          [] k = "l1dEnabled" -> 0 .. 1
          [] k = "l1dNumSets" -> 1 .. 4096
          [] k = "l1dBlockSizeWords" -> 1 .. 1024
          [] k \in PipelineDepths -> 1 .. 32
          [] k \in UnitCounts -> 1 .. 16
          [] k = "robCapacity" -> 1 .. 128
          [] k \in RsCapacities \cup OpLatencies -> 1 .. 64]

InRange(ranges, key, value) == key \in Keys /\ value # Malformed /\ value \in ranges[key]

\* get_architecture_config: overrides come as a JSON object.
ServerAccepts(overrides) ==
    \A key \in DOMAIN overrides : InRange(ARCHITECTURE_CONFIG_RANGES, key, overrides[key])

\* parseArchitectureConfigOverrides
SimulatorAccepts(overrides) ==
    \A key \in DOMAIN overrides : InRange(configRanges, key, overrides[key])

\* applyArchitectureConfigDirectivesFromFile; unknown directives are comments.
DirectivesAccepted(directives) ==
    \A i \in DOMAIN directives : directives[i].key \in L1DKeys =>
        InRange(configRanges, directives[i].key, directives[i].value)

\* The directives of a key; the last one counts.
DirectivesOf(directives, key) == {i \in DOMAIN directives : directives[i].key = key}
afterDirectives(directives) ==
    [key \in Keys |->
        LET given == DirectivesOf(directives, key) IN
          IF key \in L1DKeys /\ given # {}
          THEN directives[CHOOSE i \in given : \A j \in given : j <= i].value
          ELSE DefaultConfig[key]]

\* fault: the file's directives come last
directivesOverOverrides(directives, overrides) ==
    [key \in Keys |->
        IF key \in DOMAIN overrides /\ DirectivesOf(directives, key) = {}
        THEN overrides[key] ELSE afterDirectives(directives)[key]]
\* "Explicit --arch-config values are applied later so CLI overrides still win."
architectureConfig(directives, overrides) ==
    [key \in Keys |->
        IF key \in DOMAIN overrides THEN overrides[key] ELSE afterDirectives(directives)[key]]
=============================================================================
