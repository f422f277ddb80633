----------------------------- MODULE Narrative -----------------------------
(* What the routine activity of a character promises: the published posts of *)
(* its beats are one story.  Each tick is told at most once, and an event of *)
(* another character is taken up by one post at most.                        *)
EXTENDS Integers, Sequences

CONSTANTS Ticks, Events

VARIABLE story  \* the posts, as [tick, sources], in the order they were published

Init == story = <<>>

Tell(t, sources) ==
    /\ \A i \in DOMAIN story : story[i].tick # t /\ story[i].sources \cap sources = {}
    /\ story' = Append(story, [tick |-> t, sources |-> sources])

Next == \E t \in Ticks, sources \in SUBSET Events : Tell(t, sources)

Spec == Init /\ [][Next]_story
=============================================================================
