---------------------------- MODULE MCTopicFilters ----------------------------
(* Instances of TopicFilters for TLC: all filters and names of some length. *)
EXTENDS TopicFilters

CONSTANTS MaxFilter, MaxName

Words(chars, max) == UNION {[1..n -> chars] : n \in 1..max}

FiltersToCheck == Words({"a", "/", "+", "#"}, MaxFilter)
NamesToCheck == Words({"a", "b", "/"}, MaxName)

\* One filter, and names of a level of one or two letters.
FilterToRefute == {<<"a", "a", "/", "#">>}
LevelsToRefute == Words({"a", "b"}, MaxName)

=============================================================================
