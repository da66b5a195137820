------------------------------- MODULE ServerMC -------------------------------
(* A few concurrent requests, with values at the edges of the ranges.         *)
EXTENDS Server

Program(text, directives, overrides) ==
    [text |-> text, directives |-> directives, overrides |-> overrides]

NoOverrides == [key \in {} |-> 0]
Override(k, v) == [key \in {k} |-> v]
Overrides(rob, enabled, penalty) ==
    [key \in {"robCapacity", "l1dEnabled", "l1dMissPenalty"} |->
        CASE key = "robCapacity" -> rob [] key = "l1dEnabled" -> enabled
          [] key = "l1dMissPenalty" -> penalty]

\* The least and the largest values, and values beyond them.
AcceptedOverrides == {Overrides(1, 0, 0), Overrides(128, 1, 10000)}
RejectedOverrides ==
    {Override("robCapacity", v) : v \in {0, 129, Malformed}}
      \cup {Override("l1dMissPenalty", v) : v \in {-1, 10001}}
      \cup {Override("l1dEnabled", v) : v \in {-1, 2}}
      \cup {Override("cacheSize", 1)}

Penalty(v) == [key |-> "l1dMissPenalty", value |-> v]
Comment == [key |-> "TITLE", value |-> Malformed]

EdgeBodies ==
    {Program(text, <<>>, NoOverrides) : text \in Texts \ {"program"}}
      \cup {Program("program", <<Penalty(5), Comment>>, overrides) :
              overrides \in AcceptedOverrides \cup RejectedOverrides}
      \cup {Program("program", <<Penalty(5), Penalty(-1)>>, NoOverrides)}
=============================================================================
