---------------------------- MODULE MCRoomServer ----------------------------
\* Instances of RoomServer for TLC.
EXTENDS RoomServer, TLC

CONSTANTS s1, s2, s3, p1, p2, a, b

\* Two players of one room; the session of the second may instead, or as well,
\* log the first one in for another room.
OtherRoom == {<<s1, p1, a>>, <<s2, p2, a>>, <<s2, p1, b>>}

\* Two players of one room; s3 is a second login of p1.
SecondLogin == {<<s1, p1, a>>, <<s2, p2, a>>, <<s3, p1, a>>}

\* Room objects are interchangeable (in the runs for safety).
RoomSymmetry == Permutations(Room)
=============================================================================
