------------------------------- MODULE MCChat -------------------------------
(* An instance of Chat for TLC.                                            *)
EXTENDS Chat, TLC

CONSTANTS c1, c2, c3, s1, weather, search, direct

ThreeChats == {c1, c2, c3}
OneSession == {s1}
AllTools == {weather, search}
OneImmediate == {direct}
OnlyWeather == {weather}

\* The calls are interchangeable, and no property is about fairness.
Interchangeable == Permutations(Chats)
=============================================================================
