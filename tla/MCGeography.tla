---------------------------- MODULE MCGeography -----------------------------
(* Instances of GeographyLocks for TLC. *)
EXTENDS GeographyLocks, TLC

\* The status of the city and of its governorate change while it moves and while something
\* is written in it.
PlaceJobs ==
    [kind : {"transition"}, city : {1}, status : {"ACTIVE", "ARCHIVED"}]
    \cup [kind : {"reassign"}, city : {1}, governorate : {1, 2}, area : {{}}]
    \cup [kind : {"governorate"}, governorate : {1}, status : {"ACTIVE", "INACTIVE"}]
    \cup [kind : {"store"}, city : {1}]

\* Zones of one cell each come to share it, leave the city, return from the archive.
ZoneJobs ==
    [kind : {"update"}, city : {1}, area : {{1}, {1, 2}}]
    \cup [kind : {"createZone"}, city : {1}, area : {{1}}]
    \cup [kind : {"updateZone"}, city : {1}, zone : Zones, area : {{}, {2}}, activate : {TRUE}]
    \cup [kind : {"archiveZone"}, city : {1}, zone : Zones]

SomeJobs == PlaceJobs \cup ZoneJobs

Symmetry == Permutations(Requests) \cup Permutations(Zones)

=============================================================================
