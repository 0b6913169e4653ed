----------------------------- MODULE TopicMatch -----------------------------
(***************************************************************************)
(* Topic patterns of Oni Memory's publish/subscribe (framework/memory/     *)
(* pubsub.go, topicMatches).  A topic or a pattern is the sequence of      *)
(* segments that splitting its string at "." gives, so it is never empty.  *)
(***************************************************************************)
EXTENDS Sequences, Integers

\* segmentsMatch; topic has at least as many segments as pattern.
SegmentsMatch(pattern, topic) ==
  \A i \in 1..Len(pattern) : pattern[i] \in {"*", topic[i]}

\* topicMatches.  A final "**" is looked at only when the lengths differ.
TopicMatches(pattern, topic) ==
  LET fixed == Len(pattern) - 1 IN
  \/ pattern = <<"*">>
  \/ pattern = topic
  \/ /\ Len(pattern) # Len(topic)
     /\ pattern[Len(pattern)] = "**"
     /\ Len(topic) >= fixed
     /\ SegmentsMatch(SubSeq(pattern, 1, fixed), SubSeq(topic, 1, fixed))
  \/ /\ Len(pattern) = Len(topic)
     /\ SegmentsMatch(pattern, topic)
=============================================================================
